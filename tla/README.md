# genblaze: verification project

genblaze is a Python SDK that runs generative-media pipelines. A *step* submits a job to an
upstream provider, polls it and fetches its output; a *pipeline* runs steps one after the other
or concurrently, looks them up in a cache, moderates them, falls back to other models, emits
events while it runs, and ends in a provenance *manifest* that a *sink* stores together with the
assets. This directory holds TLA+ modules of the parts of it that keep state over time or that
decide something in several steps, TLC configurations that check them on small instances, and
TLAPS proofs about the modules at the core.

Paths below are relative to `src/libs/core/genblaze_core/` unless they begin with `docs/`,
`connectors/` (in `src/libs/`), `cli/` or `tools/`. `PROJECT.json` maps every definition to the lines
it models.

## 1. Inventory

| Part | State it keeps | Operations | Module |
|---|---|---|---|
| Provider step lifecycle (`providers/base.py`, `retry.py`) | attempt and phase counters, elapsed time, the known prediction id, the Step being filled | `invoke`, `ainvoke`, `resume`, `aresume`; subclasses supply `submit`, `poll`, `fetch_output` (or one `generate`) | `ProviderStep` |
| What a step sends and costs (`providers/model_registry.py: prepare_payload`, `pricing.py`) | the parameters on their way through nine stages | prepare, send, send again, estimate, bill | `Payload` over `ModelContracts` |
| Model registry (`model_registry.py`, `family.py`) | user specs, families, aliases, the discovery cache it holds | `register`, `register_pricing`, `register_family`, `fork`, `get`, `validate` | `Registry` |
| Model discovery (`providers/discovery.py`, `validate_model`) | cached catalog snapshot, in-flight flag and event | `get`, `invalidate`, `peek` | `Discovery` |
| Family probe cache (`base.py: _cached_probe`) | verdict per slug, single flight per slug, bounded | probe, wait, evict, refresh | `ProbeCache` |
| Connectors (17 packages), ffmpeg transforms and compositor | cached poll answers, stall deadlines, temporary and output files | `submit`, `poll`, `fetch_output`, `generate` | `Connectors` over `ConnectorTraits` |
| Concurrent runner (`pipeline/pipeline.py`: `arun`, `_gather_fail_fast`) | step tasks, semaphore, results, run status | start, wait, cancel, record, finalise, close | `ConcurrentRun` |
| Sequential runner (`pipeline.py`: `run`, chained `arun`; `pipeline/cache.py`, `moderation.py`) | completed steps, previous assets, the `StepCache` directory | resolve inputs, moderate, look up, generate, fall back, cache, finalise | `SequentialRun` |
| Templates and replay (`pipeline/template.py`, `cli/.../replay.py`) | the pipeline being built | `step`, `to_template`, `instantiate`, replay | `Rebuild` |
| Agent loop (`agents/loop.py`) | iterations, lineage | build, run, evaluate, stop | `AgentLoop` |
| Event streams (`pipeline/streaming.py`, `stream`/`astream`) | queue, closed flag, emitter slot, worker thread or task | `put`, `close`, drain, abandon | `EventStream` |
| Webhook notifier (`webhooks/notifier.py`) | bounded queue, closed flag, one daemon | enqueue, deliver with retries, close, exit | `WebhookNotifier` |
| Object storage sink and batches (`storage/sink.py`, `abatch_run`) | `_eager_pending`, upload pool, assets rewritten in place | `on_step_complete`, `write_run`, `close` | `ObjectSink` |
| One transfer and the asset index (`storage/transfer.py`, `sink.py: put_asset`) | content keys, temporary keys, index entries | download, upload, copy, delete, look up, tie | `AssetStore` |
| S3 backend (`connectors/s3`) | client, region, endpoint, preflight flag and error, lock | put, get, list, delete, presign, preflight, copy (`from_sync`) | `S3Backend` |
| Parquet sink (`sinks/parquet.py`) | three tables and an index on disk | `write_run`, index bootstrap | `ParquetSink` |
| Manifest, hash and signature (`models/manifest.py`, `canonical/`, `signing/`, `pipeline/ingest.py`) | the manifest in memory, the document, its hash and seal | make, ingest, hash, sign, write, edit, move, read, verify | `Custody` |
| Media embedding (`media/`) | the chunks of a file, its sidecar | embed inline or beside, extract | `MediaEmbed` over `MediaFormats` |
| Release tools (`tools/prepare_release.py`, `check_pin_parity.py`) | versions and pins of the tree, head, tag and index | plan, apply, gate, publish | `ReleaseWave` |
| Batch maintainer (`tools/batch_*.py`) | issues, plan document, pull requests | cluster, write, validate, execute | `BatchPlan` |
| Observability, schemas, prompt templates, pattern safety | | callbacks, data, string work | no: section 8 |

How they interact. `Pipeline` calls `provider.invoke()`/`ainvoke()` once per step and model; the
provider prepares the payload under the registry's contract and calls back `on_submit` (the caller's
checkpoint) and `on_progress`. After each step the pipeline calls `sink.on_step_complete()`, at the end
`sink.write_run()`, and `sink.close()` when it owns the sink; the sink moves assets through
`AssetTransfer` into a backend, whose first request verifies the region. It emits events through an
emitter looked up in a ContextVar; `stream()` runs the pipeline in a thread, `astream()` in a task; a
`WebhookSink` hands events to a daemon. Blocking provider and sink calls of the async runner run in
executor threads. The `StepCache`, an `ObjectStorageSink` given to `abatch_run()`, and a provider
instance with its caches are shared by several runs; a class-level registry by several instances.

What is hard, and makes each part correct:

- **Provider step.** Two nested retry layers, a deadline, a checkpoint that may fail and a worker
  that may die: a job that was created is billed. Correct: no second submit once an id is known, no
  poll before the checkpoint, success only for a finished and checkpointed job, always an answer.
- **Payload and registry.** Nine stages on one dict, layers that shadow one another. Correct: what is
  sent is legal and is what was asked for, a retry asks for the same, the bill is for what was sent; a name
  keeps its meaning when it is priced or its registry is forked.
- **Discovery and probes.** Single flight with invalidation and eviction. Correct: one fetch, no verdict
  that was never true, no snapshot lost to a failure, UNKNOWN only for a reason.
- **Connectors.** A paid result must be got out through requests that fail. Correct: success is the
  job's own output, a repeated fetch does not destroy it, nobody pays twice.
- **Concurrent runner.** Fail-fast cancellation meets permit hand-over and calls that cannot be
  stopped. Correct: permits conserved, calls bounded, no new call after an observed failure, results
  and events that tell what each step did.
- **Sequential runner, templates, replay, agent loop.** Cache key, ledger of failed attempts and
  chained inputs go through fallback, moderation and failure, and are read backwards later. Correct:
  cache entries and provenance are true, rejected outputs go nowhere, a rerun costs nothing, a rebuilt
  pipeline asks for the same, a loop reports what it ran.
- **Streams and webhooks.** Producer and consumer end in any order. Correct: every event in order, an
  end, silence once abandoned, a `close()` that returns and has flushed.
- **Sinks, transfers, backend, tables.** Several requests or files, each atomic, not together; several
  writers. Correct: no manifest without its assets, a content key holds its content, an index entry
  stays, no request in vain, the sentinel row never ahead of what it vouches for.
- **Provenance.** Many parties touch a manifest after it was hashed. Correct: what a writer of today's
  fields wrote verifies, what verifies is what was made, media files stay playable and give the manifest back.
- **Tools.** A crash between writes, a plan that got stale. Correct: nothing is published that cannot be
  installed, nothing is lost to skip-existing, no issue before its prerequisite, no stall.

`PROJECT.json` lists 40 hazards, each at the line where it bites, with the properties that cover it; one (a
registry whose discovery cache another instance replaced) is covered by none and says why.

## 2. Layout

A module per component; `StepContract` and `RunContract` are abstract specifications; `ConnectorTraits`,
`ModelContracts` and `MediaFormats` are the data of the module above them, translated from the
connectors, their model tables and the container formats. `MC*.tla` modules give instances; what
the theorems are about for every value is a CONSTANT there too and has its value in the `.cfg`.
`*Proofs.tla` extend the MC module of a run (`SequentialRunProofs` the component itself) and TLAPS.

| Run | Module | Components in it |
|---|---|---|
| `provider` | `MCProvider` | `ProviderStep`, `Discovery`, `ProbeCache`, `Registry`, `Payload` |
| `schedules` | `MCSchedules` | `ConcurrentRun`, `ReleaseWave`, `BatchPlan` |
| `pipeline` | `MCPipeline` | `SequentialRun`, `Connectors`, `ObjectSink`, `Custody`, `Rebuild`, `AgentLoop` |
| `stores` | `MCStores` | `MediaEmbed`, `AssetStore`, `ParquetSink`, `S3Backend` |
| `reports` | `MCReports` | `EventStream`, `WebhookNotifier` |

Such a run holds several machines and a variable that says which one runs in a behaviour; the others
stand still in one of their initial states. It is a way to check related components under one
configuration and does not compose them: no action of one sees the variables of another. Composition
is in the components themselves: `ProviderStep` contains the caller that checkpoints and restarts,
`SequentialRun` the cache that rounds share, `ObjectSink` the items of a batch with the pool,
`EventStream` worker, queue and consumer, `Discovery` and `S3Backend` their threads. The components
are tied by what one takes from another:
`ConcurrentRun` takes from `ProviderStep` that a provider call returns, `EventStream` from the runners
that a run ends, `Connectors` takes the retry layers of `ProviderStep` in short form, `AgentLoop`
runs as `RunContract` promises them. The two runners refine the one `RunContract`, so whoever observes a
run's events is promised the same thing by both.

## 3. The modules

**`ProviderStep`** models one step from `invoke()` to its return. `pc` is the place in
`_attempt_once`/`resume`: *begin* (preflight), *submit*, *checkpoint* (`on_submit`), *poll*, *fetch*.
`attempt` is the step-level counter of `invoke()`, `tries` that of `_retry_phase()`, `retryId` is
`_StepRetryState.prediction_id`, `saved` what the caller persisted. `PhaseError` and `StepError` are
the two retry layers, with their eligibility rules: a submit is repeated only when the request
was not sent; poll and fetch on the policy's codes; `resume()` has no step retry. `Crash` and
`Restart` follow `docs/features/queue-integration.md`: a checkpoint leads to `resume()`, none to
a fresh `invoke()`. `upstream` is external: a job per accepted submit. Time is the elapsed time
saturated at the timeout, which is exact because the code only compares it, or it plus a delay, with
the timeout. `ainvoke()` takes the same decisions and shares the model.

**`Payload`** takes the parameters a caller set through `prepare_payload()` stage by stage, under one
of the contracts of `ModelContracts` (one per connector family, translated from its model table), sends
what the connector makes of it, loses the request and sends again, and prices the step before
(`estimate_cost`) and after (`compute_cost`). Values are records of what they say and their type, so
coercion is modelled by what it does to both. `Forwards`, `Wires` and `Fill` are what the connector's own
`submit()` takes out of the payload, converts (Sora and Stable Audio send their length as text) and adds
(the seed of the step, a default ratio or voice, Decart's first input). `Submit` and `Fetch` note a length in
`step.params`, as Runway's `submit()` and `fetch_output()` do. In the instance a step always has a
prompt of its own.

**`Registry`** has the layers of `ModelRegistry` for a few names: user specs in their order, families
of the user and of the connector, aliases, the fallback. A spec is the slug it sends, where its
contract comes from, whether it is priced, its aliases. `Construct` is a provider instance that adopts
the shared registry and installs its own discovery cache there, as six connectors do.

**`Discovery`** models `validate_model()` of a NATIVE provider and `_DiscoveryCache.get()`/
`invalidate()`, with the catalog reduced to one model and time to whether the snapshot is fresh.
`seen` and `flown` are history: what the catalog said since a refreshing call, or the fetch in flight,
began. **`ProbeCache`** is the same for providers without a catalog: one flight per slug, a bound with
eviction, waiters that read whatever is in the cache after the event or the timeout; `why` is the
history that justifies an UNKNOWN.

**`Connectors`** takes one step through any of 28 connectors and tools. `ConnectorTraits` says per
connector where a job's status and result come from (a status request, the poll answer kept in
`_poll_cache`, the submission itself), what it writes, which failures are classified how; the actions
are the requests that may fail between, the retries of both layers, a crash and a resume in the same or
in another process.

**`ConcurrentRun`** models `arun()` without chaining. A step's task goes *new → waiting → granted →
running → done/raised/cancelled*; `Release` and `TaskResumes` are the FIFO hand-over of
`asyncio.Semaphore`. Tasks step only while the runner awaits (`LoopFree`). A provider call runs in a
thread: `called` holds the steps whose call was picked up, which cancellation cannot take back.
`Observe`/`Reap` are `_gather_fail_fast()`, `Gathered` is `asyncio.gather()`, `Interrupted` is
`wait_for()` or the caller's cancellation, `Finalize` the status inference and the sink.

**`SequentialRun`** models the loop of `run()`. The asset a provider call made is known by the call's
number, so a cache entry or a result says where it came from. `KeyOf` is `step_cache_key()`
reduced to model, prompt (any static field), recorded params and inputs. `Invoke` with `TriesNext` is
`_try_fallback_models()`, `OutputRejected`/`OutputAccepted`/`GenerationFailed` are `_post_step()`.
Several rounds of one pipeline share the cache.

**`Rebuild`** builds a pipeline by `step()`, runs it once, builds it again from a template or, as
`genblaze replay` does, from the manifest, and runs it again in the same world. **`AgentLoop`** is the
loop over such runs, run by `run()`, in the thread of `stream()` or the task of `astream()`, with the
lineage each run is given, both stop conditions, failure, cancellation, and what a listener hears.

**`EventStream`** models worker, queue and consumer of `stream()` (a thread, whose cleanup is
`close()` = sentinel, then flag; then `done.set()`) and of `astream()` (a task, whose cleanup is one
step of the event loop), for several streams of one `Pipeline`. **`WebhookNotifier`** has enqueuing
threads (test of `_closed`, then `put_nowait`), the daemon with its retries, closers (set, blocking
put of the marker, join) and the exit of the interpreter.

**`ObjectSink`** models the sink of an `abatch_run()`: per item the steps, `on_step_complete()` with
eager transfer, and `write_run()` in three steps (take all pending transfers, wait and submit the
rest, judge and put the manifest). `write_run()` blocks the event loop, pool threads go on. `id` is
the `asset_id`, which a cached step shares with the one it was recorded from. **`AssetStore`** takes
one transfer apart into its requests (download, look up the content key, put, or temporary put, copy
and delete) and goes on with `put_asset()`'s index entries, for two writers, with failing requests and
deaths.

**`S3Backend`** has the double-checked `_ensure_region_verified()` of several threads line by line
(`Peek`, `Acquire`, `Check`, `HeadBucket`, `Reconfigure`, `Vouch`, `Seal`), requests under the client of the
moment, URLs and `key_from_url()`, and `delete_prefix()` page by page and batch by batch. `Reconfigure` sets
`region`, `endpoint` and `client` one after the other. `from_sync()` takes no lock: it builds a client for
the endpoint it reads first (`CopyClient`), then copies the flag, the region and the endpoint (`CopyNext`)
and last the refusal (`FromSync`), while threads of the source go on; the program then works with the
copy. `native` is the endpoint of the copy's async reads, which skip the preflight; `mixed` is history: a
correction was under way while the copy was made. `Programs` bounds which operations a program uses.

**`ParquetSink`** models `write_run()` file by file, for one `run_id` that is sunk in several versions,
each with its partition and with or without assets; `Interrupted` cuts it anywhere. The tables hold,
per partition, the version that wrote the file. `sunk`, `unindexed` and `moved` are history.

**`Custody`** follows a manifest: a run or an ingest makes it, the sink moves its assets and hashes it,
a policy cuts it, a signer seals it, a reader migrates it, hands edit it, the three ways of verifying
judge it. A hash *is* the payload it covers. The `shape` of a run is which fields its assets have: an older
writer (`PublishedElsewhere`) hashed those before `video` and `audio`, and what reads a document adds nulls for
them (`Parsed`), which the hash covers. **`MediaEmbed`** is `SmartEmbedder.embed()` write by write;
`MediaFormats` says for each container what its handler does to a sequence of chunks.

**`ReleaseWave`** has working tree, head, tag and package index, `Apply` as the tool's plan written in
two passes that may be cut short, the gate, and publication with skip-existing in the order of the
jobs. **`BatchPlan`** has the clustering of `build_plan()` as a function of issues and pull requests,
the document with its token, and its execution against a world that moves on.

## 4. The runs

Runs that pass (sizes are TLC's distinct states, with two workers):

| Run | Instance | Checks | States |
|---|---|---|---|
| `provider` | a step with 2 calls per phase, 2 step retries, a timeout of 3 ticks and 1 crash; 3 threads on a catalog; 2 threads and 2 models on a probe cache of 1; 2 registries, 2 instances, 3 changes; up to two parameters of every contract and two sends | `CheckpointBeforePoll`, `SuccessIsBacked`, `NoResubmitOfKnownJob`, `ImplementsContract`, `StepEnds`; `RefreshTellsTheTruth`; `ProbesAreHonest`; `NamesKeepTheirMeaning`, `VerdictIsAboutTheWire`; `SentIsLegal`, `SentIsWanted`, `BilledAsSent` | 1.43 million |
| `schedules` | 4 steps, 2 permits, both `fail_fast`, raising steps, pipeline timeout; 4 packages, 3 versions, 2 edits, 2 tags; 3 issues with any files and dependencies, cap of 2, 2 commits | `ResultsFaithful`, `NoCallAfterObservedFailure`, `ImplementsContract`, `EveryRunEnds`; `WaveIsWhole`; `BatchIsOrderly` | 1.75 million |
| `pipeline` | two pipelines of 3 steps, two rounds on one cache; every connector with 2 tries, a step retry, 2 outputs and a resume; 2 items of 2 steps in a batch; 2 runs and 2 edits of a document; pipelines of 3 steps with any routing; loops of 3 iterations | `RecordsAreTrue`, `RejectedStaysOut`, `RerunIsFree`, `ImplementsContract`; `VerdictIsTheJobs`, `NothingIsWasted`; `ManifestComplete`, `TransfersAreApart`, `BatchEnds`; `CustodyKeepsTheHash`; `RebuiltAsksTheSame`; `LoopIsTrue` | 473,000 |
| `stores` | 2 calls of `embed()` on every format with one fault; 2 writers of 2 assets under 3 manifests of 2 tenants with faults; 3 versions over 3 partitions with 2 cuts; 2 threads, 2 regions, 2 keys, 1 fault, a program that walks the bucket, one of single requests, one that copies its backend | `EmbedIsFaithful`; `CasIsContent`, `IndexStays`; `RunsAreWhole`; `PreflightIsRight`, `WalkAccounts`, `UrlsStayOurs` | 2.11 million |
| `reports` | 2 streams of 2 events, threads and tasks; 2 callers with 2 events, 2 closers, a queue of 2, 1 retry | `StreamsAreFaithful`, `FlushedByClose`, `EveryoneReturns` | 532,000 |

Some properties of a run are the conjunction of those a component states:
`RecordsAreTrue` of `ProvenanceTrue`, `CacheSound` and `LedgerComplete`;
`TransfersAreApart` of `OpenWhileTransferring` and `PlainItemsIndependent`; `BatchEnds` of the
liveness and `NoRetransfer`; `VerdictIsTheJobs` of `SuccessIsTheJob` and `NoSelfInflictedFailure`;
`NothingIsWasted` of `PaidOnce` and `CeilingHolds`; `CustodyKeepsTheHash` of the property of that name,
`IngestIsOrderFree` and `VerifiedIsWhatWasMade`; `RebuiltAsksTheSame` of its namesake and
`InputsAreTaken`; `LoopIsTrue` of `ResultIsTheRuns`, `HeardIsTheLoop` and `NoRunForNobody`;
`EmbedIsFaithful` of `MediaKept` and `ReadsBack`; `CasIsContent` of its namesake and `TempIsTidy`;
`RunsAreWhole` of `SentinelMeansComplete`, `OneHome` and `RowsOfSunk`; `PreflightIsRight` of
`PreflightShields`, `RefusalIsTrue` and `TurnedAwayForCause`; `ProbesAreHonest` of `UnknownIsHonest` and `RefreshProbes`;
`NamesKeepTheirMeaning` of `ForkIsAClone` and `PricingKeepsContract`; `WaveIsWhole` of
`PreparedIsPublishable`, `ApplySettles`, `WheelsInstall` and `GateKeepsPins`; `BatchIsOrderly` of
`OrderRespected`, `FilesDisjoint` and `NoStall`; `StreamsAreFaithful` of `InOrder` and
`DrainedMeansAll`; `EveryoneReturns` of `StreamEnds`, `AbandonedIsQuiet` and `CloseReturns`.

Why the bounds are enough for the interesting cases:

- Step: two tries, two retries and one crash reach every pair (phase retry inside a step
  retry, failing checkpoint then resume, crash before and after the checkpoint, budget or deadline
  first). A timeout of 3 ticks lets polling, a backoff and a call each be what exceeds it.
- Catalog: one thread fetching, one waiting and one dropping the snapshot. Probes: two slugs on one
  entry evict each other while a waiter is about to look.
- Registry: names that a family rewrites, that two families match, and one that only an alias knows;
  three changes are a registration, a price and a fork in any order.
- Payload: stages meet in pairs of parameters (an alias and its target, a required one and a default,
  an input route and the user's value).
- Concurrent run: 4 steps on 2 permits is the smallest instance with two holders and two waiters, so a
  hand-over can meet the cancellation of its heir while another step runs and another still waits.
- Release wave: two releases and a third version, so a version can be reused, skipped or reserved.
  Batch: three issues make chains, circles and a component over the cap.
- Sequential run: the first pipeline has two steps that ask for the same output with models swapped, so
  they share cache entries; the second consumes two upstream steps and goes on after failures. Two
  rounds are what it takes to hit an entry that an earlier run wrote.
- Batch of runs: two items with two steps make each other's transfers visible; the excluded
  configuration (eager transfer with a cache) is the one `cached_asset` shows broken.
- Custody: two runs to compare hashes, or one document with two edits, the second of which may
  undo or cover the first. Rebuild: three steps for an input from the step before last.
- Stores: two writers race for a key, three manifests make a tie overwritten, of one's own
  tenant or another's; three partitions and versions allow a move, an interruption and a second
  move; `PageSize = BatchMax = 1` with two keys gives two pages and two batches, as 1000 and 1000 do
  with more keys; two regions are the right one and a wrong one. There are three kinds of programs
  instead of one that does everything: a walk races with what changes its keys; single requests race with the
  preflight; a URL (which answers for the client, as a request does) and a native read tell where a copied backend
  points. The theorems are about programs of every kind.
- Streams: two for mixing them up, two events for order and for breaking in between. Webhook: a queue
  of two that two callers with two events overfill, and two closers for a marker left over.

These five configurations say `CHECK_DEADLOCK FALSE`, because the machines in them really end: a step
returns, a registry's budget of changes is used up, a document is not edited for ever. That the
machines which should end do not get stuck before is what the liveness properties say.

Runs that violate a property, on purpose, each about a sentence of the docs or comments:

| Run | What the counterexample shows |
|---|---|
| `sync_provider` | A `SyncProvider` whose `on_submit` raises a retryable error is resumed, and reports SUCCEEDED without assets: `invoke()` cleared the very Step that was stored as the result (`providers/base.py:1932`). |
| `orphans` | `_gather_fail_fast()` awaits `asyncio.wait()`, which does not cancel its tasks when it is cancelled: after the pipeline timeout or the caller's cancellation, steps go on calling providers after `arun()` raised (`pipeline.py:2616`). |
| `recorded_params` | A connector that adds to `step.params` (`connectors/runway/genblaze_runway/provider.py:551`) changes the key between lookup and store: such a step never hits the cache (`pipeline.py:1376`). |
| `cached_asset` | With eager transfer, a cache hit repeats an `asset_id`, its transfer is skipped, and the manifest is uploaded with an asset that was never stored (`storage/sink.py:714`). |
| `stale_catalog` | Once a fetch succeeded, `validate_model()` without `refresh` answers from that snapshot whatever its age (`providers/base.py:784`), although `docs/guides/new-provider.md:544` promises a refresh after the TTL. |
| `lost_exception` | The thread of `stream()` sends the sentinel before it sets `done`: a quick consumer takes the end of a failed run for an early break and the exception is lost (`pipeline.py:1850`; the docstring at 1817 promises it). |
| `reruns` | The upstream job's id is stored in `step.metadata`, which the manifest hash covers (`providers/base.py:1710`): the same request with the same outcome hashes differently every time. |

## 5. Fairness

- `ProviderStep`: weak fairness of `Worker`. Calls of the provider return (the connectors give their
  HTTP clients a timeout) and a crashed worker is restarted. The upstream job need not end: that
  `invoke()` returns rests on budgets and deadline alone. Crashes are bounded by `MaxCrashes`.
- `ConcurrentRun`: weak fairness of the runner and of each task, which is what the asyncio loop
  gives to ready callbacks; that a running step ends is `AlwaysReturns` of `ProviderStep`. There is
  none for `ProviderCalled` (a thread may never pick a call up) and none for `Interrupted`.
- `ObjectSink`: weak fairness of `Next`: something that can go on does. Every action but `Done`
  consumes a finite resource, so this suffices for `BatchEnds`.
- `EventStream`: weak fairness of each worker and of each consumer that reads; breaking off is not
  fair. That runs end is `RunEnds`.
- `WebhookNotifier`: weak fairness of the steps inside calls that were made (`PutNoWait`, `SetClosed`,
  `PutStop`, `Join`) and of the daemon (`Take`, `Post`): threads are scheduled, a request ends by its
  timeout and a backoff by the clock. Nobody has to enqueue or to call `close()`, and the interpreter
  does not have to exit.
- All others: none; only safety is claimed of them. (`NoStall` of `BatchPlan` is an invariant: an
  unfinished plan has something to do.)

A run that holds several machines repeats the fairness of each one for its own actions, and states
a liveness property for the behaviours in which that machine runs (`machine = "steps" => RunEnds`).

## 6. The proofs

TLAPS proves, for every value of the constants that meets the modules' assumptions:

| Theorem | Statement |
|---|---|
| **`ProviderStepProofs`**: `TypeCorrectness`, `CheckpointSafety`, `BoundedBilling`, `SuccessSafety`, `LastWord` | `[]` of `TypeOK`, `CheckpointBeforePoll`, `OneJobPerAttempt`, `SuccessIsBacked`, `TerminalProgress` |
| `NoDoubleBilling` | `NoResubmitOfKnownJob` |
| `Refinement` | `ProviderStep` implements `StepContract` |
| `RequestsAreLegal`, `RequestsAreWanted` | `[]` of `SentIsLegal` and `SentIsWanted` of `Payload` |
| **`DiscoveryProofs`**: `TypeCorrectness`, `SingleFlightHolds`, `RefreshIsTruthful` | `[]` of `TypeOK`, `SingleFlight`, `RefreshTellsTheTruth` of `Discovery` |
| `SnapshotsSurviveFailure` | `FailureKeepsSnapshot` of `Discovery` |
| `ProbesHonest` | `[]` of `UnknownIsHonest` and `RefreshProbes` of `ProbeCache` (`ProbesAreHonest`) |
| `VerdictsAreOurs` | `[]VerdictIsAboutTheWire` of `Registry` |
| `NamesMeanTheSame` | `ForkIsAClone` and `PricingKeepsContract` of `Registry` (`NamesKeepTheirMeaning`) |
| **`ConcurrentRunProofs`**: `TypeCorrectness`, `PermitSafety`, `ConcurrencyBound`, `ResultSafety`, `CompletionSafety` | `[]` of `TypeOK`, `PermitsConserved`, `CallsWithinLimit`, `ResultsFaithful`, `CompletedIsTotal` |
| `FailFastSafety`, `NoStrayCalls` | `NoCallAfterObservedFailure`, `NoStrayCall` |
| `Refinement` | `ConcurrentRun` implements `RunContract` |
| `BatchSafety` | `[]` of `OrderRespected`, `FilesDisjoint`, `NoStall` of `BatchPlan` (`BatchIsOrderly`) |
| `WaveSafety` | `[]` of `PreparedIsPublishable`, `ApplySettles`, `WheelsInstall`, `GateKeepsPins` of `ReleaseWave` (`WaveIsWhole`) |
| **`SequentialRunProofs`**: `TypeCorrect`, `RejectedNeverReturns`, `RecordsTell` | `[]` of `TypeOK`, `RejectedStaysOut`, `RecordsAreTrue` |
| `RerunsAreFree` | `[]RerunIsFree`, unless the provider adds to the step's params |
| `Refinement` | every round of `SequentialRun` implements `RunContract` |
| **`PipelineProofs`**: `TypeCorrect`, `ItemsAreApart`, `FetchedOnce` | `[]` of `TypeOK`, of `OpenWhileTransferring` and `PlainItemsIndependent` (`TransfersAreApart`), and `NoRetransfer` of `ObjectSink` |
| `ManifestsAreComplete` | `[]ManifestComplete`, unless a batch has eager transfer and a cache |
| `VerdictIsTheJob` | `[]` of `SuccessIsTheJob` and `NoSelfInflictedFailure` of `Connectors` (`VerdictIsTheJobs`) |
| `PaidAndTimed` | `[]` of `PaidOnce` and `CeilingHolds` of `Connectors` (`NothingIsWasted`) |
| `LoopTellsWhatItDid` | `[]` of `ResultIsTheRuns` and `HeardIsTheLoop`, and `NoRunForNobody` of `AgentLoop` (`LoopIsTrue`) |
| **`CustodyProofs`**: `WhatVerifiesWasMade`, `OperationalEditsVerify`, `IngestsAreOrderFree` | `[]` of `VerifiedIsWhatWasMade`, `CustodyKeepsTheHash`, `IngestIsOrderFree` of `Custody` |
| `CustodyIsKept` | the three together, as the run states them |
| `RebuiltRunsAreTheSame` | `[]` of `RebuiltAsksTheSame` and `InputsAreTaken` of `Rebuild` |
| **`StoreProofs`**: `TypeCorrect`, `ContentSafety`, `IndexSafety` | `[]` of `TypeOK`, of `CasIsContent` and `TempIsTidy`, of `IndexStays` of `AssetStore` |
| `PreflightHolds`, `UrlsAreKept`, `WalksAccount` | `[]` of `PreflightIsRight`, `UrlsStayOurs`, `WalkAccounts` of `S3Backend` |
| `TypeCorrectness`, `WriteSafety` | `[]` of `TypeOK`, `RunsAreWhole` of `ParquetSink` |
| `EmbeddingIsFaithful` | `[]` of `MediaKept` and `ReadsBack` of `MediaEmbed` (`EmbedIsFaithful`) |
| **`EventStreamProofs`**: `TypeCorrectness`, `StreamSafety` | `[]` of `TypeOK`, `StreamsAreFaithful` |
| `AbandonedQueues` | `AbandonedIsQuiet` |
| `Flushed`, `PostedInOrder` | `[]` of `FlushedByClose` and `InOrder` of `WebhookNotifier` |

A theorem about a component that a run holds as an instance has two conjuncts: the component's own
specification, in whose behaviours it runs alone, keeps the component's property, and the specification of
the run keeps the property that the run checks, whatever other machine runs (every other machine's step
leaves it standing, as in the lemmas `Machines`). So what a theorem states is what TLC
checks on a small instance, without the bounds.

Each component has an inductive invariant that is proved action by action (theorem `Invariance`, or the one
named after it), and the rest is drawn from it; `SequentialRun` has a tower of them.

- *ProviderStep.* `CheckpointBeforePoll` alone is not inductive: a retry goes back to *checkpoint*
  or *begin* depending on `retryId`. `IdsAgree` adds where an id may be known and that `target`,
  `retryId` and `saved` never name different jobs; with it `OneJobPerAttempt` survives a retry because
  only attempts without an id submit again. The effect of an error is proved once
  (`StepErrorEffect`) and used by the seven actions that may fail. Assumptions:
  `MaxAttempts >= 1`, natural budgets and times, known codes.
- *ConcurrentRun.* A permit is counted where it is: in `permits`, or with one *granted* or *running*
  task. `CallsWithinLimit` needs more, since a cancelled step gives its permit back while its call
  goes on. `TaskFacts` says that once anything is being cancelled, everything unfinished is, so nobody
  starts a call with a permit handed back. `RunnerFacts` says per location which
  results are in, for `ResultsFaithful` and the refinement. `TasksGone` adds what `NoStrayCall` needs.
  Assumptions: `N >= 1`, `Limit` a natural number (0: unlimited).
- *BatchPlan.* In every pull request, started or about to be, nobody waits for an open issue outside it
  (`Fit`), and those of the last plan share no file (`Apart`). A plan keeps that because components are closed under
  shared files and are disjoint (`SameComponent`), so that a prerequisite is in the same component, an
  earlier one, or in flight. `NoStall`: if every component waits for another one, what is open is the
  circle. Assumption `IssuesAreNumbers`.
- *ReleaseWave.* As long as nobody is careless, versions rise from tag to head to tree (`VersionsRise`),
  every wheel was built from a tag (`WheelsAreTagged`), pins are raised only together with the version of the
  package that has them (`PinsComeWithBumps`), and a plan applied to the end has left nothing (`Quiet`). Synced
  packages pin packages that are not synced themselves, and their jobs wait for those (`SyncedDeps`), for
  `WheelsInstall`. Assumption `ConnectorsHaveNames`: no connector is called *core*, *cli* or *meta*.
- *Discovery.* `SeenCovers` says that what a refreshing call has seen includes the catalog and
  all that the fetch in flight may answer; `SnapshotSeen`, that after it dropped the snapshot any
  good one is something it has seen. They carry `RefreshTellsTheTruth` over every interleaving of
  drops, fetches and failures. There is no assumption on `Threads`; in particular it need not be
  finite.
- *ProbeCache.* `KnowsWhatIs` says that what a refreshing call has seen covers what is live and all that the
  probe in flight may find, `EntryIsNew`, that an entry which is there after the call dropped it is such a
  thing: the two carry `RefreshProbes`. `Explained` says that a waiter who was woken and finds no entry lost
  it, or was told why, for `UnknownIsHonest`. The order in which entries are evicted plays no part, so they hold for
  any way of choosing the victim. Assumption: there is a model to ask about.
- *Registry.* The verdicts need only that a registry's discovery cache, and that of every fork, is of the
  catalog of somebody who has it (`CachesFollow`). That names keep their meaning has the longest argument of
  the project. A layer is *filed* (`Filed`): no key twice, and a key differs from the slug of its spec only if
  that is what a family rewrites it to; `register()` and `register_pricing()` keep that. Then `fork()`: what the
  first *n* turns of its loop have made is the last spec for each slug, in the order in which the slugs
  were first met (`Folded`); since the loop is a recursive function of *n*, `Folded` is carried from *n* to
  *n + 1* by looking at the least *n* that had not. From it, a name that was not misfiled finds the same spec in
  the child as in the parent, by its key, its family, its alias (which claims the last of those who
  declare it, `ClaimMoves`) or not at all. Assumption `CanonicalIsFixed`: what a family rewrites a slug to
  it rewrites no further, as its regular expressions do.
- *Payload.* For `SentIsLegal` the stages of `prepare_payload()` are followed one by one: what each may add, and what the
  later ones may no longer take away. That needs facts about the contracts (`Tidy`: no alias is the name of a
  slot, a default or a rewrite; no converting constraint under a schema; no two constraints on a key), which
  are checked contract by contract against `ModelContracts`; schemas and coercions are checked at each
  contract because their table of types is finite. For `SentIsWanted` the value of one parameter is followed
  instead: after the aliases and the transformer each is what was wished for (`ShapedIsWished`), a coercion
  keeps what it says (`PayloadMeans`), and a connector fills in no more than what nobody set
  (`RequestIsWanted`), given that no name is both replaced and set (`Apart`). A retry does not start from the
  parameters of the first attempt, since Runway's connector notes in them the length it asked for; but told
  that length, it asks for the same (`NotedIsTheSame`). Assumption `RequestsAreKnown`: requests are for models
  that have a contract.
- *SequentialRun*, in five layers, each on those before. `Shape`: the place in the loop fixes what is known of
  the step in hand, and nothing rejected is handed on (`Handed`), which gives `RejectedStaysOut` for every
  later round too. `Account`: a step asks for what the pipeline declares (`Asked`), the call just made
  asked for that (`MadeAsAsked`), and so did the calls behind results and cache (`Truthful`), whichever
  fallback answered. `Ledgers`: a call of this run is in its step's ledger or is the last one. With them
  `RecordsAreTrue`. `Told` says what the observer has been told of each step at each place, for the
  refinement of `RunContract`. For `RerunIsFree`: a step returns the one good call it made
  (`Superseded`), asks the primary model first (`PrimaryFirst`), its inputs in the first run are those its
  upstream steps returned (`FirstAsked`), and the cache has one entry for a key (`Entries`); so, by
  `Free`, a rerun of a clean run looks up the keys that were stored, step after step. This last theorem is about
  providers that leave the step's params alone: the run `recorded_params` shows what becomes of it
  otherwise. Assumptions: those of the module on the shape of a pipeline, and at least one step and round.
- *ObjectSink.* `ManifestComplete` rests on `AllAwaited`: an item about to send its manifest waits for every
  asset of its own that is not stored. That is true of the assets that were transferred eagerly because
  another item can only have taken their transfers, not their ids (`IdsAreOwn`), which is where a batch with both eager
  transfer and a cache fails (run `cached_asset`) and why `ManifestsAreComplete` leaves it out.
  `PlainAwaitsOwn` carries `PlainItemsIndependent`, `ClosedLast` `OpenWhileTransferring`; these hold in every
  mode. Assumption `Settings`: the number of steps is natural, and modes are switches.
- *Connectors.* 28 connectors and tools are proved at once, from seven or so facts about a connector's
  traits (`TraitFacts`), which are checked for each of them in `ConnectorTraits`. `Places` says what is known
  at each place, `AnswerKept` where the answer of a synchronous connector may be lost, `InOrder` that the
  outputs attached are the first ones of the job, `Blame` who may be the cause of a failure, `Accounted` how many
  generations were paid for, `Deadlines` what the table of stall deadlines holds. Assumption `DeadlinesFit`: a
  positive ceiling, and fewer other jobs than the table has room for; with more, jobs evict one another's
  deadlines (section 7).
- *AgentLoop.* An iteration for each run but the last (`OneEach`), what was heard is the loop cut off
  where it stands (`Hearing`), and costs of the iterations and of the runs are one fold, since both
  satisfy the same equation (`CostsAgree`). Assumption `LoopSane`: at least one iteration, natural costs.
- *Custody.* The manifest in memory is hashed as it stands (`MemoryKept`); a document has the hash that its
  writer gave it (`HashIsTheOrigins`), and what differs from the writer's is not covered by a hash or makes it
  fail (`PayloadIsTheOrigins`). `CustodyKeepsTheHash` is an equivalence: such a document verifies exactly if its
  writer hashed the fields that a reader hashes (`HashedAsToday`). For the order of an ingest: sorting by digest gives one order
  where digests differ, and where they do not the assets are alike. Assumption `JobsAreNamed`: no job's id is
  the mark for "none".
- *Rebuild.* A run is what becomes of its pipeline step by step (`Built`); a pipeline built again has, per
  step, the inputs and the model that the manifest tells (`RebuildInv`), and if what is told is enough then the
  least step that is handed something else cannot exist. Assumption `PlansAreCalls`: a plan is a list of calls
  of `step()`, of any length, with any step numbers, those out of range included.
- *AssetStore.* `CasIsContent` needs that a writer knows the digest of its asset before it copies (`Knows`) and that a
  temporary object has the bytes of its asset and no others (`TempIsOwn`). `TempIsTidy` and
  `IndexStays` speak of writers that met no other of the same asset: `Alone` says what that means for all the others and
  `Undisturbed` what such a writer finds where it put it; `SureIsIndexed`, that what a writer was told is in
  the index and that nobody of the same tenant who is about to write found its entry missing. Assumption
  `Sorts`: there is an asset, "nothing there" is no asset, manifest or tenant, manifests have tenants,
  and the budget of faults is natural; assets may have the same bytes.
- *S3Backend.* Who is inside the preflight holds the lock (`OneHolds`) while the region is unverified (`Once`);
  a refusal is kept by who raises the flag next (`SealedAfter`); a verified backend that was not refused
  points to the bucket (`PointsHome`), and whoever is through has seen the flag up (`ThroughVerified`), in any order
  of the three attributes that threads read. With `from_sync()` the three places of a backend may differ: outside
  a correction and its copies they are one (`Straight`), within it they follow its stages (`InPlace`, `Moving`),
  and a copy that is not mixed has the places of its source (`Follows`), and its refusal with its flag (`Refused`,
  `Vouched`). Assumption `Named`: the mark for "none" is neither a thread nor a
  region. `WalkAccounts` has an invariant of its own: a key that nobody else touches is accounted for, in hand, or
  beyond the token and still in the bucket (`OnItsWay`). A listing keeps that because a page holds the least keys after the
  token (`PageIsFirst`); that a finite set of keys has a least and a greatest one (`LeastAndGreatest`) comes
  from the well-foundedness of strict inclusion. It assumes that pages are not empty; batches may be of any
  size, and any request may fail.
- *WebhookNotifier.* For `FlushedByClose`, what was queued early is ahead of every stop marker (`EarlyAhead`), and what is
  behind one came from a thread that was already inside `enqueue()` (`LateBehind`, `Latecomers`). For
  `InOrder`, the queue holds increasing numbers per caller, all above what was posted last and at most those
  given out, and no number is given out twice. Assumption `Bounds`: the bounds are natural numbers.
- *EventStream.* `InOrder` says nothing of what is still queued. `Queued` adds that the queue holds the
  events after those received, without a gap, and the sentinel last exactly when the worker has ended;
  `Counted`, that received, queued and held events are all that were emitted; `OpenMeanwhile`, that
  nobody but the worker closes an emitter whose consumer reads. A step of one stream touches no other
  (`OthersKeep`), because the emitter in a worker's context is its own (`OwnSlot`); so each action is
  proved for its stream alone. Assumptions: the kinds are threads and tasks, at least one event, and
  "no stream" is not a stream.
- *ParquetSink.* Three files and an index that a write cuts short anywhere. `FilesInPlace` says that a
  file lies in the partition of the version that wrote it, `Progress`, what each stage of
  `write_run()` has left behind it, `HomeKnown`, that the index names the one place with a sentinel as
  long as no entry was lost under a move, and `SunkIsLatest`, that what was sunk is what was last asked
  for, in that place, until the next call. `SentinelMeansComplete` needs that a run which is sunk again
  keeps its assets (`Versioned`), or the rows of an older version would stay beside a newer sentinel.
  Assumptions: at least one version, and the marks for "no entry" and "no index" are not partitions.

- *MediaEmbed.* The handlers are functions of a sequence of chunks of any length. What `Without` leaves of one is a
  recursion over its positions; its laws (one part after the other, twice, of what has nothing to take) are carried
  from a sequence to one with a chunk more by looking at the least length that fails (`CountUp`, `BuildUp`), where
  induction over sequences cannot be cited. With them each handler is shown to keep the media and to read what it
  wrote (`PngIsFaithful` and the like, then `EveryHandler`). In the machine a file descends from the first one
  (`Descends`) and what was told of a path is so (`ToldIsSo`). Assumptions `FilesAreMedia`: the file at first has one
  chunk that comes first, at most one that trails, and no manifest yet if it is an MP4 (where one in the middle would
  be cut out and move the rest); `ManifestsAreSome`: a manifest is not an exception.

Some theorems are about properties that no run lists (`OneJobPerAttempt`, `TerminalProgress`,
`PermitsConserved`, `CallsWithinLimit`, `CompletedIsTotal`, `NoStrayCall`, `SingleFlight`,
`FailureKeepsSnapshot`, `NoRetransfer`, `InOrder` of the notifier, and the `TypeOK`s).

Only model-checked:

- the liveness properties (`StepEnds`, `EveryRunEnds`, `BatchEnds`, `EveryoneReturns`), because proofs under
  fairness need ENABLED, which is out of the prover's reach;
- `BilledAsSent`: the strategies of prices on what a connector noted, read and delivered, a finite table per
  contract that TLC goes through for every contract, price and pair of parameters.

Every other property of a passing run is stated by a theorem.

The `TypeOK` of a module without a theorem about it (`ProbeCache`, `S3Backend`, `WebhookNotifier`, `Connectors`,
`MediaEmbed`) is there for the reader; the invariants of these modules say in their own terms what the proofs
need of it, and it held whenever it was checked, but no run lists it.

No module declares a RECURSIVE operator.

## 7. Divergences met on the way

Besides the seven with a run. Where a property has an exception, it is one of these.

Provider step and connectors:

- A first attempt whose `fetch_output()` reports FAILED fires the progress event "succeeded"
  (`providers/base.py:1732`), which is why `TerminalProgress` states only one direction.
- Veo creates its output with `O_EXCL` when there is an `output_dir`
  (`connectors/google/genblaze_google/provider.py:243`): a fetch that failed after it is retried, as
  `docs/features/retry-policy.md` says, and fails for good. Without `output_dir` it attaches the
  video twice.
- NVIDIA's image and audio connectors submit and poll in one `generate()`: when the request was taken (202)
  and the poll fails, the retry pays for another one. `PaidOnce` leaves them out.
- DALL-E leaks its first temporary input when a later one cannot be downloaded; ffmpeg without
  `output_dir` leaves a file per failed attempt.
- GMICloud: more than 512 jobs in flight evict one another's stall deadlines, and a retry resumes the id
  that is wedged. Replicate, Veo, DALL-E and AtlasCloud report success with no outputs. Runway
  records a duration of 5 for a job whose params say none, as after a resume.
- A prompt given in `params` is what is sent and what `estimate_cost()` prices, while `compute_cost()`
  prices `step.prompt`; `Pipeline.estimated_cost()` never sees the prompt. Prices read the raw
  `step.params` (`docs/reference/pricing-recipes.md:567`), so a default that the connector adds is not priced.
- Veo, Decart and Stable Audio send the seed of the step; a `seed` in `params` is dropped without a word.
- The bill reads `step.params` as the caller wrote them, not what was coerced and sent: a length given as text, or
  under another name than the model's, is not priced as it was asked for. `BilledAsSent` speaks of callers who write
  what prices look at as the model has it.
- `bool("false")` is True (Decart's `enhance_prompt`, Luma's `loop`), `int()` makes 8 of 8.5, Veo refuses
  8.0, Sora drops a resolution it cannot map without a word.

Registry and discovery:

- `_DiscoveryCache.get()` may return None when `invalidate()` runs between the unlock and the read
  (`providers/discovery.py:261`); its docstring says never. `validate_model()` ignores the value.
- A price for a name that only an alias or the fallback knows replaces its spec by a bare one; `fork()` files
  specs under `spec.model_id` (`providers/model_registry.py:190-196`, 265), so that a price for a name
  that is not canonical is lost or overwrites another's (against `docs/guides/migrating-to-0.3.md:143`
  and `docs/features/model-registry.md:176`).
- `validate()` of a NATIVE registry answers NOT_FOUND for an alias that `resolve_canonical()` sends under a
  live slug (`docs/features/model-registry.md:398-412`). Six connectors install their own discovery cache
  in a registry that their class shares. A family registered again comes before the aliases.

Runners, templates, agent loop:

- A fail-fast run may hand a permit to a waiter before it notices the failure (`pipeline/pipeline.py:2600`),
  so a step may start, and call its provider, after its sibling failed; `docs/features/pipeline.md:89` reads
  as if it could not. `NoCallAfterObservedFailure` is what does hold.
- `step.queued` comes after `step.started` and may come for a step that is then cancelled
  (`pipeline.py:2415`, 2644, against `docs/features/streaming.md:110`).
- A fallback attempt (`pipeline.py:1310`) and a cache hit complete with another `step_id` than the one
  announced (against `docs/features/streaming.md:110`).
- A replay loses chained inputs where `chain=True` is mixed with `input_from`, and external inputs always (or
  takes them for a chain), against `README.md:31`; a failed run replays only the steps it has; a step that a
  fallback rescued is replayed with that fallback first. A template drops `prompt_visibility`,
  metadata, expected durations and moderation, and sends the text of a `PromptTemplate` that nobody
  rendered.
- The agent loop counts a cached step's cost again and leaves failed attempts out; a hook that absorbs
  the cancellation lets the task go on; iterations are lost when anything raises.

Sinks, storage, webhooks:

- With eager transfer, `write_run()` takes other items' pending transfers and fails on their failures
  (`storage/sink.py:697`, against `docs/features/pipeline.md:113`); `PlainItemsIndependent` is stated
  without eager transfer. Eager transfer also changes the cache key of later steps
  (`pipeline.py:1376`).
- An asset that moderation rejected is uploaded with the run (`storage/sink.py:694`), though never eagerly
  (520).
- Two writers of one asset share a temporary key, and the asset index is tested and written in two
  requests; `CasIsContent` and `IndexStays` say what holds nevertheless, and of whom.
- `ParquetSink` loses a moved run's old rows before it writes the new ones (`sinks/parquet.py:234`);
  an interrupted move can leave rows without a sentinel behind; and the gap documented at
  `sinks/parquet.py:327-339` is the exception in `OneHome`.
- S3: `aget()` and `astream()` skip the preflight; a bucket of one's own region whose credentials are refused
  may be called missing; a transient preflight error loses its `is_retriable`; `exists()` and
  `head()` answer False and None to a 403. `from_sync()` (`connectors/s3/genblaze_s3/async_backend.py:178-193`)
  builds its client and then copies the preflight state without the lock. During a correction of the source it may
  yield a verified copy whose client, and whose durable URLs, are of the old region for good; or one not yet
  verified whose `_region` is already the bucket's, so that its own correction is not tried (`actual != self._region`
  in `_ensure_region_verified()`) and every call is refused. These two are the exceptions for a `mixed` backend in
  `PreflightShields` and `TurnedAwayForCause`; TLC finds both when the exceptions are left out.
- Webhook: an enqueue that raced `close()` leaves its event behind the stop marker, where nobody reads it, and
  so may a late event between two concurrent `close()` calls. `webhooks/notifier.py:30-35` says that
  the oldest event is dropped; the code drops the newest.

Provenance and media:

- An MP4 or WAV whose last chunk is open (size 0, streamed) takes an inline manifest that cannot be read back
  (`media/mp4.py:84`, `media/wav.py:54-61`, 128), one more with every call. A manifest over 16 MB
  is embedded but refused by the readers. Up to 8 trailing bytes are dropped (against the comment at
  `media/mp4.py:93`), and WAV drops every INFO list. A later sidecar leaves an older inline manifest in
  place, which `extract` prefers; `audio/mp4` given by the caller is not found again by content.
- A manifest with assets by a writer of the fields before `video` and `audio` does not verify when it is read
  today: `_migrate_v1_2_to_v1_3()` and the model's defaults add nulls that the hash of 1.0 to 1.3 covers
  (`models/manifest.py:444-457`), although the docstrings of the migrations (424-479) say that `verify()`
  reproduces the original hash. `CustodyKeepsTheHash` says so with its `HashedAsToday`.
- A signature made before the sink's write no longer verifies after it; `sign_manifest()` on a stale
  `canonical_hash` signs the digest it recomputes, so that Mode 2 verifies what `verify_hash()` refuses.
  `to_canonical_json()` fills in a hash that was emptied. NaN and Infinity become null. `transfer_failures` never
  reach a stored manifest.

Tools:

- A dispatch of an untagged ref and a version lowered by hand are outside `PreparedIsPublishable`. A bump
  of a package whose override does not raise its version waits for a commit; `--apply` run again after
  a crash may bump the metapackage twice; pins written `name[extra]>=` are not synced. The only gate
  in `release.yml` is pin parity.
- The head of a component over the cap may come before its own prerequisite in the tail; planning again while
  pull requests are open ignores the files of skipped issues; a single issue over the cap
  yields an empty deferred cluster; nothing stops one valid document from being executed twice.

## 8. Left out, and why

- Wording, logging, metadata, the length of backoffs, request contents, sizes and checksums, file and key
  layout: no property is about them.
- `pattern_safety.py` (whether a regular expression backtracks: string work), prompt templates, schemas and
  TypeScript types (generated data), tracing and the other observability callbacks (output).
- Canonical JSON itself: floats, Unicode and the digest are data; `Custody` takes a hash for what it covers.
- Signed URLs' signatures, read-back through them, multipart uploads, lifecycle rules and object lock of the S3
  backend; `StepCache.clear()`; preflight of a pipeline (it raises before a run or does nothing).
- `validate_chain_input_url()`'s rules for files, coercion to float, strict registries. Concurrent `get()` and
  `register()` on one registry: the alias index is replaced in two assignments that `get()` reads without the
  lock.
- The npm package of the release wave and the remaining scripts under `tools/`.
- The composition of a whole pipeline with real connectors in one state space: the machines are tied by their
  abstract specifications and fairness assumptions instead (section 2).

## 9. Running it

In this directory: `tlc -workers 2 -config MCProvider.cfg MCProvider.tla` and so on, one `.cfg` per run
(`PROJECT.json` pairs them with their modules), and `tlapm ProviderStepProofs.tla`. Each of the five passing
runs takes from one to four minutes, a run with a counterexample some seconds, a proof file
from some seconds to several minutes.
