# Verification of Merino

Merino is Mozilla's service for search suggestions and curated recommendations. The
repository holds two FastAPI services, `merino` and `merino-fleece`, a queue worker that
belongs to the second, the library they share (`merino-common`), and batch jobs.

Almost every answer Merino gives is a pure function of data it keeps in memory. What is
hard is how that data gets there and how search terms leave: tasks that race on one event
loop, threads, conditional requests of which some fail, a cache that serves stale data
while it updates, queues that must drain before the process ends, and a broker that
delivers at least once. This directory models those parts in TLA+, checks them with TLC and
proves with TLAPS, for every value of the constants, each safety property and each refinement
that the runs check.

Contents: 1. the system; 2. the modules and the code; 3. the runs; 4. fairness; 5. the
proofs; 6. where the code and its text disagree; 7. what is not modelled; 8. the plan.

## 1. The system

### Parts with hard behaviour

| Part | State it keeps | Operations | What is hard | What makes it correct |
|---|---|---|---|---|
| `AsyncBatchQueue` (`merino_common/utils`) | queue, shutdown flag, run task, in-flight batch, count of pending items | `put`, `start`, `run`, `stop` | five kinds of tasks race: a getter that has taken an item while the delay or the shutdown fires; a deadline that cancels the run task at any await; callbacks that fail or hang | one batch at a time, nothing lost or reordered, everything flushed by a graceful stop, nothing runs after the end, counters balance |
| Search term submission (`merino/message_handlers/search_terms`, `middleware/logging.py`) | a batch queue, an HTTP client, a Pub/Sub client | `put`, `submit_batch`, `_on_submit_error`, `stop` | a timeout while the other side has already accepted; a backup that fails too; a publish in a thread that outlives its task | no term disappears without being counted, none is doubled except by that timeout |
| Intake and sanitization (`merino-fleece`: endpoint, `handler.py`, `pii`, lifespan) | a batch queue, a detector, a thread pool | `submit_search_terms`, `sanitize_batch`, start-up and teardown | all-or-nothing admission over single `put`s; verdicts per chunk; a teardown that must come after the drain | only cleared terms are logged; a 503 leaves nothing queued |
| Queue worker (`merino_fleece/sanitize/worker`) | stream future, client, stop flags, heartbeat file | `start`, `stop` (in a signal handler), `callback`, `restart`, heartbeat thread | redelivery, stream failures, a signal between any two steps, a thread that looks first and writes later | ack after the last emit, drain on stop, a dead stream shows in the heartbeat, a stop that ends the process |
| AMP exempts (`merino_fleece/sanitize/exempts`) | ETags, keywords per segment, the flat set | `initialize`, cron job, `is_exempt`, `shutdown` | conditional requests, some of which fail | an ETag never vouches for keywords that are not in use; a failure is retried at the next tick |
| AMP provider (`merino/providers/suggest/adm`) | ETags, an index per segment, icons, normalization terms | `initialize`, cron job, `query` | the same, and a rebuild in place that awaits the icons | queries see complete, never older data |
| Games: Particle (`merino/providers/games/particle`, its job) | files of two channels in a bucket, a staging folder, a manifest | the job: fetch, compare, stage, deploy, clean up, store | many requests and no transaction, a publisher that releases or rolls back under way, jobs that die anywhere | a page always has its assets; the stored manifest tells what is served; a failed run is made up for |
| Picture of the day (`merino/providers/rss/wikimedia_potd`, its job) | a directory per day with images and a manifest; the provider's cache | the job; `query` with its refresh in a thread | every step asks for the date again and midnight may come between any two; upload errors are swallowed | manifests point at images that are there, a day's directory is of one picture, the day's picture is served |
| Synced blobs and cohort rankings (`utils/synced_gcs_blob.py`, `curated_recommendations/ml_backends`) | update time of an object; a model, its training run, an LRU cache; rankings and the training run that they are for | two threads that fetch and install field by field; requests that read | reads between two installations, an inference that `cache_clear` overtakes, objects replaced between metadata and content | a cohort meets only rankings of its own training run; the newest object is in use at last |
| Weather (`merino/providers/suggest/weather`) | regions learned and combinations to skip, per process; Redis, shared | reports by geolocation and by key, hourly forecasts | what one request learns steers the next; two caches of different ages; errors that must not be remembered | a client sees its own place's weather, is told "no location" for a reason, and keeps a report no longer than its parts |
| Corpus backends (`merino/curated_recommendations/corpus_backends`) | a cache entry and lock per surface, a breaker per backend | `fetch`, background updates | requests that look before they wait, a lock queue, failures shared by surfaces | one call per expiry, no stampede, no request that hangs or fails without reason |

### How they interact

    browser -> merino /api/v1/suggest -> logging middleware
                                             | put
                                   AsyncBatchQueue --- POST --> merino-fleece endpoint
                                             | on_error              | put (all or none)
                                             v                       v
                                          Pub/Sub              AsyncBatchQueue
                                             |                       | sanitize_batch
                                             v                       v
                                      FleeceQueueWorker     exempts, basic_detect, NER -> log
    MARS --(ETag, If-None-Match)--> AMP provider (merino), AMP exempts (merino-fleece)
    Corpus API --> retry, breaker, stale-while-revalidate --> curated recommendations
    GCS objects --> SyncedGcsBlob threads --> cohort model, rankings --> curated recommendations
    publisher --> Particle job --> bucket --> players;  Wikimedia --> POTD job --> bucket --> merino
    AccuWeather --> pathfinder, Redis --> weather provider

Both services are asyncio programs on one thread, so a step of a model is what a task does
between two awaits. Threads appear in four places: `asyncio.to_thread` around a Pub/Sub
publish or a read of a bucket, the detector's pool, the synced blobs, and the worker.

### The other parts

Provider manager and lifespan, the suggest API with its task runner, the other suggestion
providers, ranking, the other jobs and the wiring are listed in `PROJECT.json`, each with the
reason for its status. Section 8 says which of them come next.

## 2. The modules

| Module | What it is | Uses |
|---|---|---|
| `BatchQueue` | what a batch queue promises | |
| `AsyncBatchQueue` | the queue as its tasks run it | |
| `AsyncBatchQueueProofs` | theorems | `MCAsyncBatchQueue`, `BatchQueue` |
| `SearchTermsPipeline` | submission, backup, intake, sanitization, both shutdowns | two instances of `BatchQueue` |
| `FleeceQueueWorker` | the Pub/Sub worker | |
| `SearchTermsProofs` | theorems | `SearchTermsPipeline`, `FleeceQueueWorker` |
| `Mars` | the MARS API: versions, ETags, 304, failures (external) | |
| `AmpExempt`, `MarsBackend` | the two clients of MARS | `Mars` |
| `AmpExemptProofs`, `MarsBackendProofs` | theorems | the `MC` modules of the two, `VersionedFeed` |
| `VersionedFeed` | what a copy of published data promises its readers | |
| `CorpusCache` | decorator chain of a corpus backend | `VersionedFeed` |
| `ParticleUpdate`, `ParticleUpdateProofs` | the job that copies a game, its publisher and the bucket; theorems | |
| `PictureOfTheDay`, `PictureOfTheDayProofs` | the upload job around midnight and the provider that serves it; theorems | |
| `SyncedGcsBlob` | a thread that follows one object in GCS | |
| `CohortRanking` | the cohort model, the rankings and a request that uses both | two instances of `SyncedGcsBlob` |
| `CuratedRecommendationsProofs` | theorems | `CohortRanking`, `CorpusCache`, `VersionedFeed` |
| `Weather`, `WeatherProofs` | the pathfinder, reports and hourly forecasts of one process; theorems | |
| `MC...` | the module for TLC, with the refinement mapping where there is one | |

The definitions that every specification has (`Init`, `Next`, `Spec`, `TypeOK`, ...) begin with
`Worker` in `FleeceQueueWorker` and with `Cache` in `CorpusCache`, so that one module of proofs can
extend two components.

`PROJECT.json` maps every definition to the lines it stands for. The correspondence in
short:

**AsyncBatchQueue.** `pc` is the await at which `run()` is suspended: `wait` (in
`_wait_for_batch`), `join` and `drain` (`await in_flight`, in the loop and after it),
`flush` (`_process` inside `_flush_all`), `unwind` (the `finally` of `run()`). The operators
`LoopHead`, `Launch`, `Collected` and `Flush` are the stretches of code between two awaits;
an action is the event that resumes a task. Items are the numbers of the `put` calls. The
collection delay and the deadline of `stop` may elapse at any time. `stop` may be called
several times, forced or not. A callback returns, raises or hangs.

**SearchTermsPipeline.** Each queue is an instance of `BatchQueue`, so that its actions
(`Accept`, `Hand`, `Settle`, `Close`, `Finish`, `Abandon`) happen together with what the
callback does. `Accept` for the intake queue is written out in `Receive`, because the
endpoint queues a whole submission in one step. `BatchQueue` does not say how much of what
waits is still in the `asyncio.Queue`; `Remaining` lets `remaining_capacity()` be anything
that is consistent with it. The texts are abstract: `Email` and `Person` are the terms on
which the two detectors fire. The exempts are whatever the refresh left (`Covered`). The
network loses submissions and delivers them late. A deadline cancels a callback but not the
thread that it waits for: `late` holds the terms of a publish, `inPool` a chunk in the detector's
pool, that go on after their callback is gone.

**FleeceQueueWorker.** One action per step of `start()`, of the heartbeat thread and of
`callback`; `Stop` happens between any two steps of the main thread, as a Python signal
handler does. A term that cannot be sanitized or emitted raises: a `ValidationError` falls into the `except`
of `callback`, which takes the submission for an invalid one and acknowledges it
(`DropAsInvalid`); anything else leaves the callback (`CallbackRaises`). The Pub/Sub client is
external: a callback that raises nacks its message and fails the stream, `cancel()` closes it, and with `await_callbacks_on_shutdown` both wait for
the callbacks that run.

**AmpExempt, MarsBackend.** A document is its version and what its body is good for; the
keywords or the index built from it are that version. A request (`Get`) is answered in one
step and the rest of the coroutine runs in another, so the requests of the segments
interleave with each other and with publications. `due` is `_should_fetch()`. In `MarsBackend`
the icons are a map that only grows, by those of the indexes that a fetch has built, so `icons` is
a set of pairs of segment and version; the normalization terms are taken from all indexes at the
end of each fetch; and queries read the indexes in place (`Served`), while the icons are awaited
too, once a first fetch has ended (`shared`).

**CorpusCache.** A request is `fetching`, `sleeping` (the 0.1 s for a background update to
begin), `waiting` for the lock, `returned` or `failed`, which is its `stage`; its background update is a `job`. The
lock is asyncio's: `waiters` is its queue and `locked()` is false between a release and the
turn of the next waiter. All attempts of `@retry` are one fetch, since the lock and the
breaker see only its outcome. The breaker is the `circuitbreaker` library's (external).

**ParticleUpdate.** A channel's files are a page, whose name all versions share, and an asset
whose name carries a hash: the two kinds of names that make a deployment order matter. The
bucket root and the staging folder map a name to the version its content is of. One action
per request: fetch the remote manifest, read the stored one, download and stage a file, move
a file, clean up, store the manifest. Each may fail, and the job may die before any of them
(`Crash`); `Publish` changes one channel, forwards or backwards, at any time. `drift` is a
history variable that names why the stored manifest may not tell what is served.

**PictureOfTheDay.** A picture, a description and an image are the day they belong to;
`today` moves on between any two steps. `thumb` and `image` of a manifest are the directories
that its URLs point into, so that "points at an image of another day" can be said. The
provider is its cache and, for each request, the thread that reads the bucket.

**SyncedGcsBlob, CohortRanking.** An object is the number of its publication. `_update_task`
is three steps (`Reload`, `Download`, the end of the callback), and the callbacks of
`GcsInterestCohortModel` and `GcsMLRecs` are one step per field that they assign, since they
run in threads next to the event loop. The request is cut at every place where it reads what
the threads write; `lru_cache` is modelled by what it does (look up, infer, insert, clear), so
that an inference may insert after the clear.

**Weather.** A request is at a combination of country, region and name (`Combo`); `cache` and
`location` are the two awaits of `explore`'s probe. `Compass`, `SetRegion`, `Visit` and
`TryNext` are the pathfinder. `located` is what AccuWeather knows, any set. Redis is an
environment: whatever the script is asked may be there or not, with any TTL that is left. After
the location is known a request changes nothing that others read, and the rest of
`make_weather_report` is one step with all its outcomes. A request that is answered keeps what its
answer was about for one state, and is then forgotten (`After`): "missing" its combination, a
report its TTL, the parts that the cache keeps for less (`outlived`) and whether a part was gone or
had no time left (`cut`). `unread` is a history variable: the combinations that AccuWeather knows
but answered in a form which `process_location_response` makes nothing of.

### Abstract specifications

* `BatchQueue`: accepted items are handed over in order, one batch of at most
  `MaxBatchSize` at a time; it ends with nothing left or, after it was closed, early.
  `AsyncBatchQueue` implements it (`ImplementsBatchQueue`; a theorem), which is what allows the
  pipeline to use it in place of the detailed queue.
* `VersionedFeed`: for every key, readers see a published version and never an older one
  than before. The exempts, the AMP indexes, the corpus cache and the cohort model with its
  rankings each implement it (`ImplementsFeed`), with different code: a flat set swapped as a
  whole, indexes rebuilt in place, entries behind a lock, fields assigned by a thread. For
  each of them it is a theorem.
* `SyncedGcsBlob` is used the other way round, as a component: `CohortRanking` conjoins the
  actions of two instances with what their callbacks do.

## 3. The runs

| Run | Question | Bounds |
|---|---|---|
| `queue` | In every interleaving: is the accounting exact, is the queue a `BatchQueue` (order, serial batches, flush), do overlapping stops come back, does nothing outlive them, and is everything handed over otherwise? | batches of 2, queue of 2, 5 puts, two stops, with `on_error` |
| `worker` | Is no message lost but for a `ValidationError`, are callbacks drained, does the heartbeat go stale, does a stop end a running stream? | one message that may raise, one invalid, 2 terms, 3 streams, 2 deliveries |
| `worker_stop` | (violation) Does every stop end the worker? | one message, 2 streams |
| `amp_exempt` | Can an ETag pin a segment; is a failed one retried; do readers see a feed? | 2 segments, 2 versions, 1 failed request, every kind of body |
| `mars_backend` | Are the indexes that queries read complete, but for those just rebuilt, and never older; what exactly can an ETag pin; is a failure retried? | the same, and bodies from which no index can be built |
| `mars_backend_pinned` | (violation) Does "all segments answered 304" mean the content is cached? | 2 segments, 1 version, 1 failure |
| `corpus_cache` | One call per expiry, failures only for a reason, a bounded herd, progress, a feed | 2 surfaces, 2 concurrent requests, threshold 2, 2 versions |
| `pipeline` | Is nothing lost silently or doubled, is only what was cleared logged, are clients and detector there as long as batches use them, do both services stop? | 3 terms (one with an at sign, one naming a person that may be exempt, one plain), batches of 2, intake queue of 2 |
| `particle` | Is the game always complete, how far may the stored manifest be from what is served, does the job catch up? | 2 channels, 2 versions, 2 publications, 3 failures or deaths |
| `cohort_ranking` | Does a cohort meet only rankings of its own training run; is the last publication in use at last? | 2 publications of each object, good, unusable or too big; 1 failed download |
| `picture_of_the_day` | Do manifests point at images that are there, is a directory of one picture, is the day's picture served at last? | 2 days, 2 concurrent requests, 2 failures, deaths or restarts |
| `weather` | Whose weather is served, why is a client told there is none, how long is a report kept? | 4 places (a city with a suffix and its namesake in another region; two cities of one name in a country without a rule), every subset of a country's combinations known, 2 concurrent requests, TTLs up to 3, a day of 3; one country at a time |

Why the bounds are enough:

* Queue: the run loop holds at most one batch in flight and one being collected. With 5 puts a
  full batch is in flight while the queue fills up and `put` is rejected, batches are full and
  partial, and a flush hands over several, one after the other. Two stops meet every pair of
  phases. What needs more puts than that, the bound on the backlog (`BoundedBacklog`), is
  proved for all of them.
* Worker: three streams give two reconnects, so that a callback of an old stream can outlive
  a reconnect; two deliveries give a redelivery of a message half emitted.
* MARS clients: what one segment does depends on the others only through "some failed" and
  "all are unchanged", for which two are enough. Two versions distinguish an ETag that is
  behind, current or ahead of the data. One failed request exhausts the interesting orders
  of success and failure in one fetch; retries after it must then succeed.
* Cache: two requests meet on one surface (first and next, two updates, holder and waiter)
  or fail on two surfaces at once. A slot is used again as soon as its request and update
  have ended, so histories are not bounded by the number of requests. `burst` and `calls`
  count only to one above their bound.
* Particle: the two channels differ only in which comes first, so two versions of each and two
  publications give an upgrade or a rollback of either, before, during and after a run. Three
  faults leave a channel halfway, make the repair fail too, and lose the manifest.
* Cohort ranking: two publications are the fewest with "old" and "new"; requests beyond the one
  that is followed show only through the cache, whose entry is any that an earlier request left.
* Picture of the day: one midnight is all that a job can straddle twice; two faults let both the
  job and its successor fail, or a job die and the server restart. Two requests let an old
  answer overtake a new one.
* Weather: a name with a suffix and the same name without it are the only ways in which two
  cities of a country with a rule can meet; two cities of one name share what is learned in a
  country without one. Nothing that is learned or skipped of a country is read for another, so a
  behaviour is followed only while it is about one of them (`OneCountry`). Two requests
  interleave their probes; histories are unbounded, since a request's slot is used again. The
  configured TTLs are 1 and 2, so that what is left of a part is below, at and above them, and
  the longest is a whole day, of which `timedelta.seconds` returns 0. All of it is proved for
  any places, any TTLs and any day, too.
* Pipeline: three terms in batches of two give one full and one partial submission, and more
  terms than the intake queue holds. Merino's own queue has room for all terms: rejection by
  `put` is covered by the queue's runs.

Deadlock is checked for `particle`, `cohort_ranking`, `picture_of_the_day` and `weather`, where
cron jobs tick and requests come for ever. `CHECK_DEADLOCK FALSE` is set for the others, which
may come to rest: a stopped queue, a worker that has returned, a service that is down; and an
instance whose bounded numbers of puts, versions or failures are used up has nothing more to do.

The properties are aimed at the hazards of `PROJECT.json`, and each has a mutant there: a
plausible slip in the code (a dropped test, a missing wait, a flag set too early) under which
the run fails. The mutated definition stands directly before the one it replaces, with the
word "Mutant" in the comment. Where the code does not guard against a hazard, the property names
the state it leads to as an exception and says that nothing else is affected: a job that runs
overnight (`OnePictureADay`), a request that an installation falls into, a model whose load failed and
an inference that `cache_clear` overtook (`CohortFitsRankings`), an index whose icons are awaited
(`IndexComplete`), a `ValidationError` while sanitizing (`AckedWasEmitted`). Section 6 lists them.

## 4. Fairness

No specification assumes more than the code's scheduler, timers and timeouts give:

* Queue: ready tasks are stepped and the deadline of `stop` fires (`Scheduling`). Nobody has
  to call anything, and callbacks may hang: `StopReturns` holds for hung callbacks. Only
  `HandedOver` assumes that they return (`CallbacksReturn`), as the docstring asks.
* Worker: threads run, callbacks end, a cancelled stream closes. Nothing says that the stream
  ever fails, that messages are delivered or that a stop is called.
* MARS clients: the loop runs what is ready and every request ends (the HTTP client has a
  timeout). The cron job ticks; nothing says that the resync interval passes, which is what
  makes `RetriedUntilHealthy` say that the retry is early.
* Cache: tasks run, fetches end, entries expire, the recovery timeout passes. `CatchesUp` is
  also about the world: requests for each surface keep coming, and a fetch made again and
  again succeeds at last. Both are strong fairness, because a fetch is not always possible
  (the breaker may be open, the slots may be busy). `CatchesUp` is conditional on the
  breaker staying closed at last.
* Particle and picture of the day: cron starts the job again and again, every request ends, and
  (for the picture) requests keep coming and their threads end. Weak fairness of the job as a
  whole: nothing says that a request succeeds, but the bounded number of faults runs out, which
  stands for "failures end at last".
* Cohort ranking: both cron jobs tick and their threads run; nothing is assumed of requests.
* Weather has no liveness: whether a location is found is AccuWeather's affair.
* Pipeline: both event loops run, callbacks end since their HTTP calls have timeouts, and the
  lifespan goes on once the queue has ended. No fairness for the network, for stops or for
  deadlines.

## 5. What is proved

`AsyncBatchQueueProofs` proves, for every `MaxBatchSize <= MaxQueueSize`, every number of
puts and every set of stoppers, with or without `on_error`:

| Theorem | Statement |
|---|---|
| `Inductive` | `Spec => []IndInv` |
| `TypeCorrect` | types; in particular `_pending_item_count` never goes below zero |
| `SerialBatches` | callbacks of two batches never run at once |
| `NothingOutlives` | once the run task has ended, no callback is running or will start |
| `ItemsBalance` | accepted = settled + queued + pending + held by the getter |
| `BacklogBounded` | at most `MaxQueueSize + 2 MaxBatchSize` accepted items are unsettled |
| `DropsWithinOne` | what one `stop` that timed out records as dropped is what was left, but for at most one item |
| `ImplementsQueue` | every behaviour is one of `BatchQueue` |

The only assumption is `SizesAssumption`: sizes are positive, a batch fits the queue (the
constructor raises otherwise). None of the invariants is inductive alone. That
`_pending_item_count` stays a natural number needs that it is exact (`PendingExact`), which
needs to know which batch is unsettled at which await (`BatchesShape`) and what the locals
hold there (`RunShape`): for example, that a live batch is always the last one, that it is
`in_flight` unless `run()` is flushing, and that a getter that is done holds one item only
while `run()` waits. `IndInv` is their conjunction; TLC checks it in the run `queue`, and the
proof has a lemma for each operation (`PutInv`, `WaitInv`, `CallbackInv`, `StopInv`, ...) and
one for each stretch of `run()` that several actions share (`LoopHeadInv`, `FlushInv`, ...).

`Serial` follows from `BatchesShape` (a live batch is the last), `NoOutlive` from the same
(a live batch excludes `done`), `BoundedBacklog` from `Balance`, `PendingExact` and the sizes
in the shape. `DropsWithinOne` needs two more facts: what a `stop` has done shows in `shutdown` and
in the task (`StopsInv`), and the drop recorded by the only one that timed out equals what is
still queued or pending, since nothing moves after the end (`DropInv`); the difference to the
promise is the item that the getter held.

The refinement is proved step by step. Its invariant is the order (`OrderInv`): unless `run()` was
abandoned, `accepted` is `handed`, then the items of a last batch that has not started, then the
batch being collected, the item that was taken, and the queue, in that order; and an abandoned
`run()` implies `shutdown`, which is what `Abandon` demands. For each stretch of `run()` a lemma says
which of four things the abstract queue sees: nothing, `Hand`, `Settle` or the end (`FlushOrder`,
`LoopHeadOrder`, `LaunchOrder`, `CollectedOrder`); `StretchMaps`, `SettleMaps` and `StutterMaps` turn
that into a step of `BatchQueue`, and there is one lemma per action (`...Refines`).

`Serial` and `BoundedBacklog` are not among the properties of the run: the order
and the serial batches are part of the refinement that it checks.

The other seven proof modules prove every invariant and every refinement that their components'
runs check, for all values of the constants, and type correctness (`TypeCorrect`,
`WorkerTypeCorrect`, `CacheTypeCorrect`; in `MarsBackendProofs` the types are part of `IndInv`):

| Module | Theorem | Statement |
|---|---|---|
| `SearchTermsProofs` | `OnlyCleared` | a logged term passed both detectors, or an exempt covered it when it was consulted |
| | `AllOrNone` | what merino-fleece has queued is backed up or counted as failed only if the submitter gave up without an answer |
| | `NothingDropped` | a term that Merino's queue settled is queued, backed up, held back or counted, unless the deadline abandoned the queue |
| | `ClosedAfterUse` | no client, detector or exempt is closed while a batch uses it, nor the detector's pool under a chunk that outlives its batch |
| | `AckedAfterEmitting` | a valid message is acknowledged only when each of its terms was emitted, or its last callback caught a `ValidationError` among them |
| | `Drains` | `start()` returns from a cancelled stream only when its callbacks are done |
| | `GoesStale` | the heartbeat is refreshed at most once after its stream has ended |
| `AmpExemptProofs` | `NotPinned` | a conditional request never vouches for keywords newer than those in use |
| | `Feeds` | the flat set of keywords implements `VersionedFeed` |
| `MarsBackendProofs` | `Complete` | every index that queries read has its icons and its normalization terms, during the wait for icons too, but for one that the waiting fetch has just rebuilt |
| | `ThrownAway` | an ETag runs ahead of the index only for a version that was downloaded and thrown away |
| | `Feeds` | the indexes implement `VersionedFeed` |
| `CuratedRecommendationsProofs` | `CohortsFit` | a cohort is used only with rankings of the training run that computed it, unless something was installed while the request was under way |
| | `CacheIsFresh` | between installations, the LRU cache holds cohorts of the model in place, but for an inference that `cache_clear` overtook |
| | `BlobsImplementFeed` | model and rankings implement `VersionedFeed` |
| | `CalledOnce` | the backend is called at most once for each expiry of an entry |
| | `FailsForAReason` | a request fails only when a fetch for its surface failed or was refused since it began |
| | `NoHerd` | the failures within a recovery timeout are fewer than threshold plus surfaces |
| | `CacheImplementsFeed` | the entries implement `VersionedFeed` |
| `PictureOfTheDayProofs` | `ImagesConfirmed` | a manifest points at images that are in the bucket |
| | `DirectoryOfADay` | a day's directory is of that day's picture, unless a job ran into it overnight |
| `ParticleUpdateProofs` | `Playable` | for the two channels, of a page and an asset each: a page has its asset, but while its files are moved or when that was cut short |
| | `StoredDescribes` | between runs the stored manifest tells what is served, but for the three named ways to drift |
| `WeatherProofs` | `OwnWeather` | the weather served is that of the client's own country and city, in a region that fits: its own, or, where no rule determines it, one in which AccuWeather knows a city of that name |
| | `MissingHasAReason` | "no location" is answered only on account of the combination the request came to, in a region that fits its place, which the source lists, AccuWeather does not know, or answered unreadably |
| | `NotKeptLonger` | a report outlives a part of it in the cache only when a part was gone or had no time left, and then by no more than the configured TTL |
| | `TypeCorrect` | types of `Weather` |

The assumptions are that the bounds are numbers (`CohortRankingAssumption`,
`ParticleAssumption`, `PotdAssumption`, `MarsAssumption`); for the pipeline, that the sizes are positive
and the kinds of terms are terms (`PipelineAssumption`); for the worker, that an invalid message or
one that may raise is a message, and the bounds are positive (`WorkerAssumption`); for the
corpus cache, that surfaces and requests are finite and not empty and the threshold is positive
(`CorpusCacheAssumption`); and, for `Weather`, the types of its tables
(`WeatherAssumption`: there is a place, a place has a name, the tables are about the places).
The bounds occur in the guards only, so the theorems hold for any number of publications,
failures and days. What makes each invariant inductive:

* `SearchTermsPipeline`: terms are queued and handed over by number, and Merino's queue agrees with
  its callback on whether there is a batch (`QueueInv`); while a submission may still be rejected
  nothing of it is queued, and one that was rejected is not on its way any more (`SentOnce`); a
  batch whose callback is done is accounted for before it is settled (`Accounted`); what is cleared
  but not yet logged may be logged (`ClearedInv`); a service is taken down only after its consumer
  has ended, which it does not while its callback runs (`UpInv`). The terms of a batch are an
  interval of numbers (`BatchInNumbers`), which turns the sequences into arithmetic.
* `FleeceQueueWorker`: what a callback has emitted so far, or dropped (`CallbacksInv`), that no callback is of a
  stream that is yet to come, so that a new stream starts drained (`StreamInv`), and that a thread
  which wrote after the end of the stream has to look again first (`HeartbeatInv`).
* `CorpusCache`: who holds a lock fetches a version that is not older than the entry (`VersionsInv`);
  the call for an expired entry is the one under way or there was none (`CallsInv`); each task is
  queued once, for the lock of its own surface (`HoldersInv`, `QueuedInv`, `JobsInv`); whoever waits for
  a value without having seen a failure has a fetch under way, or an update that is created or
  queued ahead (`ReasonInv`), which is what joining and leaving the lock's queue have to keep
  (`AheadJoins`, `AheadLeaves`); failures and fetches in flight together are bounded (`BreakerInv`).
* `AmpExempt`, `MarsBackend`: tasks run only inside a fetch (`TasksInFetch`), what a task has
  received is at least as new as what readers see (`Newer`), and what an ETag stands for at every
  moment rather than when it is sent (`Vouched`): what is in use or what the segment's task has
  returned and, in `MarsBackend`, which stores the ETag early, possibly a version thrown away. There,
  an index that is not one of those just rebuilt has its icons and terms at every moment, also
  before anything is served (`IconsInv`).
* `CohortRanking`: what the threads hold at each of their steps (`ThreadsHold`), which training
  run the rankings in place name (`RunOfRecs`), whose cohort may be in the cache (`CacheFresh`),
  and, as long as nothing disturbs the request, that the fields it reads stand still (`Steady`)
  and what it has found belongs together (`Found`). For the feed: the object in place is never
  newer than the one being fetched.
* `PictureOfTheDay`: what a job has uploaded when it comes to the next step (`Confirmed`), that
  the item of a job that did not run overnight is of today (`ItemOfToday`), and what the images
  in a directory are of before there is a manifest (`ImagesOfTheDay`).
* `ParticleUpdate`: channels in order (`InOrder`), what is staged or moved when `todo` is left
  (`Progress`), that updated channels are served (`UpdatedServed`), and `StoredIsServed` at every
  moment rather than between runs (`StoredOrDrifting`).
* `Weather`: nothing is learned of countries with a rule, and elsewhere only where AccuWeather
  knows the city (`LearnedInv`); what is skipped is not known, or listed, or was answered unreadably
  (`SkipInv`); and a look-up is at one of its client's combinations, in a region that fits
  (`RequestInv`, `FitsIn`).

Only model-checked: liveness, which is out of the prover's reach under fairness (`StopReturns`,
`HandedOver`, `StopMidStream`, `RetriedUntilHealthy`, `EveryRequestEnds`, `CatchesUp`,
`AcceptedIsSettled`, `FleeceShutsDown`, `ManifestCatchesUp`, `LatestIsInstalled`, `TodaysIsServed`), and
the two counterexamples. ENABLED and induction over data are out of reach as well: that a recursive
function computes what it should for every input cannot be proved, and no theorem needs it. No module uses a
RECURSIVE operator. The `TypeOK` of a module is a theorem and not among the properties of its run,
but for the queue, whose `IndInv` contains it.

## 6. Where the code and its text disagree

Two runs end in a counterexample on purpose; `PROJECT.json` quotes the lines.

* `worker_stop`: a SIGTERM during the reconnect delay is lost. `start()` looks at `_stopping`
  before the delay only, and then opens a new stream. `StopMidStream` is what holds.
* `mars_backend_pinned`: `get_suggestion_data` stores the ETag before the body is used and
  before its siblings have succeeded. When one of them fails, the next fetch is answered 304
  for documents that never reached an index. `OnlyThrownAwayIsPinned` delimits the damage;
  the exempts in merino-fleece store the ETag late and satisfy `NeverPinned`.

Seen while modelling, and kept in the models as the code has it:

* Queue: `dropped.count` misses the item that the getter had taken when the deadline cancelled
  `run()` (`DroppedWithinOne` says that this one item is all that one expired `stop` can miss),
  and two expired stops count the same items twice.
* Worker: the `try` of `callback` (`worker.py:28-38`) covers sanitizing and emitting as well as the
  validation of the message, and the sanitizer builds a pydantic model (`sanitizer.py`). A
  `ValidationError` raised there is logged as "Dropping invalid message" and the message is
  acknowledged with the terms that were left. `AckedWasEmitted` names that as the one exception.
* Intake: the comment in `search_terms.py:75-78` expects that "concurrent requests can pass" the
  capacity check "and then compete for the same slots", and that the loop then degrades "to a
  partial enqueue". There is no await between the check (62-63) and the last `put`, and one event
  loop, so no other request comes in between; `remaining_capacity()` never reports more than there
  is. What is left is a queue that is closed, which rejects the first term. `RejectedIsNotQueued`
  says that nothing of a submission answered by 503 is queued.
* Corpus cache: the comment in `caching.py:151-160` says that a request finds no value "if the update
  is still in progress" and that "an error will continue to be raised here" while it executes. The
  update that a request creates queues for the lock during the request's sleep of 0.1 s, and the
  request then waits for that lock, so it reads the value only after the update has ended.
  `FailedForAReason` says that it fails only when a fetch did. (However long the loop is blocked, a
  task that is ready before a timer fires runs first.)
* Merino's shutdown: when the deadline of the queue cancels a backup, the thread that waits for the
  publish and the publisher's request go on (`pubsub.py:63-69`), and `stop()` closes their client
  under them (`handler.py:84-86`); what they carry may or may not arrive, and is not counted.
  `MerinoDeadline` keeps it in `late`; `NothingClosedInUse` is about the callbacks of the queue, and
  in merino-fleece also about the thread, for which `shutdown_executor` waits.
* AMP provider: while a fetch awaits the icons (`mars.py:157-172`), queries read the indexes that it
  has just rebuilt, without their icons and with the normalization terms of the older ones.
  `IndexComplete` names these and no others.
* `ScheduledSurfaceBackend.fetch` has no circuit breaker, although the breaker's docstring
  (`circuitbreaker.py:28-30`) puts it on both corpus backends; `HerdIsBounded` is about the
  sections backend.
* Particle: after a run in which one channel was updated and the other failed, the manifest of
  both is stored (`provider.py:125`), so the failed channel is left behind until its publisher
  releases again (`drift = "left"`).
* Cohort model: it is not installed "atomically" as its docstring says. The metadata of a model
  that fails to load stays, and the load is tried again only when the object changes or the
  process restarts; before the first load has finished a request may meet a model without
  `_training_run_id`; an inference may insert into the LRU cache after `cache_clear`.
* Picture of the day: `upload_content` swallows errors, so a manifest that could not be
  overwritten goes unnoticed; a job that runs over midnight leaves the old picture under the new
  day, and the next job keeps the images that it finds there.
* Weather: `explore` announces "for each candidate until a valid result (path) is found"
  (`pathfinder.py:626`), but returns at the first candidate that is to be skipped (660-663). If
  AccuWeather knows a city only without its suffix, the name with the suffix is skipped after
  its first look-up, and every later request of the process is told that there is no location.
  `MissingForAReason` is what holds.
* Weather: in countries without a rule, cities of one name share the region that the first of
  them taught, so `ServedIsItsOwn` and `MissingForAReason` let the region be that of a namesake
  there (`Fits`). When one part of a report is gone or has no time left, the other's TTL starts
  again from the configured one, whatever is left of it in the cache; `cache_ttl.seconds` leaves out
  whole days. `KeptNoLonger` names the first as the one exception.
* Weather: an answer of 200 that `process_location_response` cannot read gives None
  (`utils.py:118-119`, `backend.py:384-386`), and the combination is then skipped until the process
  restarts (859-865), although the comment there (864) speaks of one that "did not provide a
  location". In `MissingForAReason` these are the combinations in `unread`.
* Weather: errors of the look-up upstream are swallowed (`return None`), so they do not drive the
  circuit breaker as the docstring of `query` says.

## 7. What is not modelled

* Time is only order: a delay, deadline or interval may elapse at any moment. Properties that
  need durations (that a retry comes within a minute) are out of scope.
* Cancellation of an HTTP request's own task by its client, in the corpus cache.
* Callbacks of the batch queue that raise `CancelledError` by themselves.
* `on_error` of the intake queue: merino-fleece gives none.
* What texts contain: detectors, normalization, GraphQL and JSON parsing are constant sets or
  kinds of bodies.
* In the AMP provider: queries, Thompson sampling, the engagement blob.
* In the weather provider: location completion, which keeps no state; the circuit breaker, which
  only keeps requests from beginning; which of Redis' entries exist, which is left open.
* In curated recommendations: the numbers. The LinTS and local models are vectors and
  probabilities; only which model and which rankings are used is modelled.
* `synced_gcs_blob_v2.py`, which nothing in the repository uses.
* Most of the repository's lines are tables (domain categories, airlines, tickers, custom
  domains), parsing, and requests to one service whose answer is passed on. They keep no state
  that a step could leave wrong, and a model of them would restate them.
* The parts listed as `not_modelled` in `PROJECT.json`, with the reasons given there.

## 8. The plan

Done, in the order of importance: the batch queue with its abstract specification and proofs;
the worker; the two MARS clients; the pipeline; the corpus cache; the Particle job; synced blobs
and the cohort rankings; the picture of the day; the weather provider; the proofs of the safety
properties, refinements and types of all of them.

Next modules:

1. `Lifespan`: `main.py` and both handlers. Start-up in order, cleanup in reverse, a failure at
   any point. Property: what was started is stopped, and a queue is drained, whatever raises.
2. `SuggestRequest`: `task_runner.gather`, timeouts and provider failures in one request.
3. The LinTS interest model next to the cohort model: its comment promises an atomic install,
   which holds for the first load only.

Next proofs, after those modules and their runs: the safety properties of `Lifespan` (that what was
started is stopped is an invariant over the order of start-up) and `SuggestRequest`, and that a
third blob next to the cohort model implements `VersionedFeed` as the two do.
