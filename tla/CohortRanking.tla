---------------------------- MODULE CohortRanking ------------------------------
(***************************************************************************)
(* How a curated recommendations request gets a cohort and rankings that      *)
(* belong together.  Two synced blobs feed it: the cohort model               *)
(* (GcsInterestCohortModel) and the rankings by cohort (GcsMLRecs), which     *)
(* name the training run of the model that their cohorts are from.  The       *)
(* threads of the blobs install new data field by field while the event loop  *)
(* serves requests.  A cohort is told apart by the model that computed it;    *)
(* there is one vector of interests, and one model_id, which requests have.   *)
(*                                                                         *)
(* One request is followed at a time: what happens to it between two awaits   *)
(* is not interleaved with other requests, and afterwards it depends on the   *)
(* rankings only.  The cache keeps what earlier requests left.               *)
(***************************************************************************)
EXTENDS Naturals, FiniteSets

CONSTANTS
    MaxVersion,   \* bound: publications of the model and of the rankings
    MaxFaults     \* bound: requests to GCS that fail

ASSUME CohortRankingAssumption ==
    /\ MaxVersion \in Nat \ {0} /\ MaxFaults \in Nat

(* The training run of a published model is its number; None is no run.       *)
None == 0

Runs == 1..MaxVersion

VARIABLES
    mObject, mKind, mUpdated, mTask, mSeen, mData, mDataKind,   \* the blob of the model
    rObject, rKind, rUpdated, rTask, rSeen, rData, rDataKind,   \* the blob of the rankings
    runOf,           \* the training run that published rankings name
    installed,       \* fields that the callback of the model has installed
    configured,      \* _model_id and _num_bits are those of the requests
    trainingRun,     \* _training_run_id, None for no such attribute
    model,           \* _cohort_model, None for no such attribute
    lru,             \* the lru_cache: empty or one cohort
    rInstalled,      \* fields that the callback of the rankings has installed
    recsRun,         \* cohort_training_run_id
    recs,            \* _cache, None before the first
    pc,              \* idle, asked, lookup, infer, insert, sections, ranked, raised
    run,             \* cohort_model_training_run_id
    cohort,          \* interests.cohort: the model that computed it, or None
    used,            \* the rankings that the cohort was looked up in
    faults,          \* requests to GCS that failed
    overtaken,       \* history: the cache was cleared during the inference
    stale,           \* history: the entry of the cache is from such an inference
    disturbed        \* history: why the answer to the request may be inconsistent

mBlob == <<mObject, mKind, mUpdated, mTask, mSeen, mData, mDataKind>>
rBlob == <<rObject, rKind, rUpdated, rTask, rSeen, rData, rDataKind>>
modelVars == <<installed, configured, trainingRun, model>>
lruVars == <<lru, overtaken, stale>>
recsVars == <<rInstalled, recsRun, recs>>
requestVars == <<pc, run, cohort, used>>
vars == <<mBlob, rBlob, runOf, modelVars, lruVars, recsVars, requestVars, faults, disturbed>>

(* Both have a size limit; an object above it is enough for one of them.      *)
Model == INSTANCE SyncedGcsBlob WITH object <- mObject, kind <- mKind,
    last_updated <- mUpdated, task <- mTask, seen <- mSeen, data <- mData, dataKind <- mDataKind,
    Kinds <- {"good", "bad"}

Rankings == INSTANCE SyncedGcsBlob WITH object <- rObject, kind <- rKind,
    last_updated <- rUpdated, task <- rTask, seen <- rSeen, data <- rData, dataKind <- rDataKind,
    Kinds <- {"good", "bad", "big"}

Init ==
    /\ Model!Init /\ Rankings!Init
    /\ runOf = [v \in Runs |-> None]
    /\ installed = 0 /\ configured = FALSE /\ trainingRun = None /\ model = None
    /\ lru = {} /\ overtaken = FALSE /\ stale = FALSE
    /\ rInstalled = 0 /\ recsRun = None /\ recs = None
    /\ pc = "idle" /\ run = None /\ cohort = None /\ used = None
    /\ faults = 0 /\ disturbed = FALSE

-----------------------------------------------------------------------------
(* The two jobs that train.  Rankings may name no run, or one whose model is  *)
(* not there yet.  "bad" are tensors that load_state_dict refuses, and a      *)
(* payload that does not parse.                                              *)
PublishModel ==
    /\ Model!Publish
    /\ UNCHANGED <<rBlob, runOf, modelVars, lruVars, recsVars, requestVars, faults, disturbed>>

PublishRankings ==
    /\ Rankings!Publish
    /\ \E t \in Runs \cup {None} : runOf' = [runOf EXCEPT ![rObject + 1] = t]
    /\ UNCHANGED <<mBlob, modelVars, lruVars, recsVars, requestVars, faults, disturbed>>

Fails(replaced) ==
    IF replaced THEN UNCHANGED faults ELSE faults < MaxFaults /\ faults' = faults + 1

(* The part of the cron jobs that SyncedGcsBlob has.                         *)
ModelFetch ==
    /\ \/ Model!Reload /\ UNCHANGED faults
       \/ Model!Download /\ UNCHANGED faults
       \/ Model!DownloadFails /\ Fails(Model!Replaced)
    /\ UNCHANGED <<rBlob, runOf, modelVars, lruVars, recsVars, requestVars, disturbed>>

RankingsFetch ==
    /\ \/ Rankings!Reload /\ UNCHANGED faults
       \/ Rankings!Download /\ UNCHANGED faults
       \/ Rankings!DownloadFails /\ Fails(Rankings!Replaced)
    /\ UNCHANGED <<mBlob, runOf, modelVars, lruVars, recsVars, requestVars, disturbed>>

(* A field is written while a request is under way.                          *)
Disturb == disturbed' = (disturbed \/ pc \notin {"idle", "ranked", "raised"})

-----------------------------------------------------------------------------
(* GcsInterestCohortModel._fetch_binary_callback: what each field is written  *)
(* with, in this order: _model_id and _num_bits, _training_run_id,            *)
(* _cohort_model; then the cache is cleared.                                 *)
Installing(n) == mTask = "callback" /\ installed = n

InstallMetadata ==
    /\ Installing(0)
    /\ installed' = 1 /\ configured' = TRUE
    /\ Disturb
    /\ UNCHANGED <<mBlob, rBlob, runOf, trainingRun, model, lruVars, recsVars, requestVars, faults>>

InstallRun ==
    /\ Installing(1)
    /\ installed' = 2 /\ trainingRun' = mData
    /\ Disturb
    /\ UNCHANGED <<mBlob, rBlob, runOf, configured, model, lruVars, recsVars, requestVars, faults>>

(* load_state_dict raises: logged, and the callback returns.                  *)
LoadFails ==
    /\ Installing(2) /\ mDataKind = "bad"
    /\ Model!CallbackReturns /\ installed' = 0
    /\ Disturb
    /\ UNCHANGED <<rBlob, runOf, configured, trainingRun, model, lruVars, recsVars, requestVars, faults>>

SetModel ==
    /\ Installing(2) /\ mDataKind # "bad"
    /\ installed' = 3 /\ model' = mData
    /\ Disturb
    /\ UNCHANGED <<mBlob, rBlob, runOf, configured, trainingRun, lruVars, recsVars,
                   requestVars, faults>>

ClearCache ==
    /\ Installing(3)
    /\ Model!CallbackReturns /\ installed' = 0
    /\ lru' = {} /\ stale' = FALSE
    /\ overtaken' = (pc = "insert")
    /\ Disturb
    /\ UNCHANGED <<rBlob, runOf, configured, trainingRun, model, recsVars, requestVars, faults>>

(* GcsMLRecs._fetch_callback: nothing is installed of a payload that does not *)
(* parse; else cohort_training_run_id, then _cache.                           *)
RankingsUnusable ==
    /\ rTask = "callback" /\ rInstalled = 0 /\ rDataKind = "bad"
    /\ Rankings!CallbackRaises
    /\ UNCHANGED <<mBlob, runOf, modelVars, lruVars, recsVars, requestVars, faults, disturbed>>

InstallRecsRun ==
    /\ rTask = "callback" /\ rInstalled = 0 /\ rDataKind # "bad"
    /\ rInstalled' = 1 /\ recsRun' = runOf[rData]
    /\ Disturb
    /\ UNCHANGED <<mBlob, rBlob, runOf, modelVars, lruVars, recs, requestVars, faults>>

InstallRecs ==
    /\ rTask = "callback" /\ rInstalled = 1
    /\ Rankings!CallbackReturns
    /\ rInstalled' = 0 /\ recs' = rData
    /\ Disturb
    /\ UNCHANGED <<mBlob, runOf, modelVars, lruVars, recsRun, requestVars, faults>>

-----------------------------------------------------------------------------
(* fetch: the run of the rankings in use.  A request is disturbed from the    *)
(* start while an install is under way, and by a model that did not load:     *)
(* its run is in place, and the model before it.                             *)
Begin ==
    /\ pc \in {"idle", "ranked", "raised"}
    /\ pc' = "asked" /\ run' = recsRun /\ cohort' = None /\ used' = None
    /\ disturbed' = (installed # 0 \/ rInstalled # 0 \/ trainingRun # model)
    /\ UNCHANGED <<mBlob, rBlob, runOf, modelVars, lruVars, recsVars, faults>>

(* Whether the model may serve rankings of run t.  Mutant: any run.           *)
AnyRun(t) == TRUE

SameRun(t) == t = None \/ trainingRun = t

(* The checks of get_cohort_for_interests.  _training_run_id is missing at    *)
(* first, which nothing catches.                                             *)
Ask ==
    /\ pc = "asked"
    /\ pc' = IF ~configured THEN "sections"
             ELSE IF run # None /\ trainingRun = None THEN "raised"
             ELSE IF SameRun(run) THEN "lookup" ELSE "sections"
    /\ UNCHANGED <<mBlob, rBlob, runOf, modelVars, lruVars, recsVars, run, cohort, used,
                   faults, disturbed>>

(* lru_cache: a hit, or _get_cohort_for_normalized_interests is called.        *)
Lookup ==
    /\ pc = "lookup"
    /\ IF lru = {} THEN pc' = "infer" /\ UNCHANGED <<cohort, disturbed>>
       ELSE /\ pc' = "sections"
            /\ cohort' \in lru
            /\ disturbed' = (disturbed \/ stale)
    /\ UNCHANGED <<mBlob, rBlob, runOf, modelVars, lruVars, recsVars, run, used, faults>>

(* The model is read; without one the error is caught and the result is None. *)
Infer ==
    /\ pc = "infer"
    /\ pc' = "insert" /\ cohort' = model
    /\ UNCHANGED <<mBlob, rBlob, runOf, modelVars, lruVars, recsVars, run, used, faults, disturbed>>

Insert ==
    /\ pc = "insert"
    /\ pc' = "sections"
    /\ lru' = {cohort} /\ stale' = overtaken /\ overtaken' = FALSE
    /\ UNCHANGED <<mBlob, rBlob, runOf, modelVars, recsVars, run, cohort, used, faults, disturbed>>

(* The sections have come; ContextualRanker looks the cohort up.             *)
Rank ==
    /\ pc = "sections"
    /\ pc' = "ranked" /\ used' = recs
    /\ UNCHANGED <<mBlob, rBlob, runOf, modelVars, lruVars, recsVars, run, cohort, faults, disturbed>>

-----------------------------------------------------------------------------
ModelThread == ModelFetch \/ InstallMetadata \/ InstallRun \/ LoadFails \/ SetModel \/ ClearCache

RankingsThread == RankingsFetch \/ RankingsUnusable \/ InstallRecsRun \/ InstallRecs

Serve == Begin \/ Ask \/ Lookup \/ Infer \/ Insert \/ Rank

Next ==
    \/ PublishModel \/ PublishRankings
    \/ ModelThread \/ RankingsThread \/ Serve

Spec == Init /\ [][Next]_vars

(* Both cron jobs tick for ever and their threads run.                       *)
FairSpec == Spec /\ WF_vars(ModelThread) /\ WF_vars(RankingsThread)

-----------------------------------------------------------------------------
TypeOK ==
    /\ Model!TypeOK /\ Rankings!TypeOK
    /\ runOf \in [Runs -> Runs \cup {None}]
    /\ installed \in 0..3 /\ rInstalled \in 0..1 /\ configured \in BOOLEAN
    /\ {trainingRun, model, recsRun, recs, run, cohort, used} \subseteq Runs \cup {None}
    /\ lru \subseteq Runs \cup {None} /\ Cardinality(lru) <= 1
    /\ {overtaken, stale, disturbed} \subseteq BOOLEAN
    /\ pc \in {"idle", "asked", "lookup", "infer", "insert", "sections", "ranked", "raised"}
    /\ faults \in 0..MaxFaults

(* "Requires Model ID to match, and also checks training_run_id"              *)
(* (gcs_interest_cohort_model.py:127): a cohort is used with rankings whose   *)
(* training run computed it.  What can break it is named: an install while    *)
(* the request is under way, a model that did not load, and a cache entry     *)
(* whose inference was overtaken by cache_clear.                             *)
CohortFitsRankings ==
    pc = "ranked" /\ run # None /\ cohort # None /\ ~disturbed =>
        cohort = run /\ runOf[used] = run

(* The cache never holds a cohort of another model than the one in place once *)
(* an install is over, but for an inference that cache_clear overtook.        *)
CacheFollowsModel == installed = 0 /\ ~stale => lru \subseteq {model}

(* When nothing is published any more, what was published last is in use,     *)
(* unless it is unusable: failed downloads are made up for, even those of an  *)
(* object that was replaced under way.                                       *)
LatestIsInstalled ==
    <>[](/\ mObject # 0 /\ mKind = "good" => model = mObject /\ trainingRun = mObject
         /\ rObject # 0 /\ rKind = "good" => recs = rObject /\ recsRun = runOf[rObject])
=============================================================================
