----------------------------- MODULE CorpusCache ------------------------------
(***************************************************************************)
(* The decorator chain of SectionsBackend.fetch(): retry, circuit breaker     *)
(* and stale_while_revalidate.  One event loop runs the requests and the      *)
(* background updates that they create; a step of this module is what a task  *)
(* does between two awaits.  The breaker is one per backend, the cache entry  *)
(* and its asyncio.Lock one per surface.                                     *)
(*                                                                         *)
(* A request slot is used again once its request and update have ended, so    *)
(* the number of requests is not bounded, only how many run at once.          *)
(***************************************************************************)
EXTENDS Naturals, Sequences, FiniteSets

CONSTANTS
    Surfaces,     \* the cache keys: fetch is called with a SurfaceId
    Requests,     \* slots of concurrent requests
    Threshold,    \* corpus_api.circuit_breaker_failure_threshold
    MaxPublished  \* bound of the model: versions published

ASSUME CorpusCacheAssumption ==
    /\ IsFiniteSet(Surfaces) /\ Surfaces # {}
    /\ IsFiniteSet(Requests) /\ Requests # {}
    /\ Threshold \in Nat \ {0} /\ MaxPublished \in Nat \ {0}

VARIABLES
    known,      \* the keys of cache_obj
    cached,     \* entry.value: a version of the surface, 0 for None
    fresh,      \* the entries whose expiration is ahead
    holder,     \* entry.lock: the task that holds it
    waiters,    \* entry.lock: the tasks that wait for it
    surface,    \* the surface that a request is for
    stage,      \* a request: fetching, sleeping, waiting, returned or failed
    job,        \* its background update: none, created, waiting or fetching
    asked,      \* the version when the fetch under the lock began
    failures,   \* of the breaker, up to Threshold
    opened,     \* the breaker's recovery timeout has not passed
    published,  \* the version that the corpus API has, of every surface
    calls,      \* history: fetches of an entry with a value since it expired
    burst,      \* history: failed fetches since the API answered, or a quiet time
    unlucky     \* history: requests that a fetch for their surface failed under

lockVars == <<holder, waiters>>
fetchVars == <<asked, calls>>
breakerVars == <<failures, opened, burst>>
entryVars == <<known, cached, fresh>>
cacheVars == <<entryVars, lockVars, surface, stage, job, fetchVars, breakerVars,
               published, unlucky>>

Request(r) == <<"request", r>>
Update(r) == <<"update", r>>
Free == <<"free">>

CacheInit ==
    /\ known = {} /\ fresh = {}
    /\ cached = [k \in Surfaces |-> 0]
    /\ holder = [k \in Surfaces |-> Free]
    /\ waiters = [k \in Surfaces |-> <<>>]
    /\ surface \in [Requests -> Surfaces]
    /\ stage = [r \in Requests |-> "returned"]
    /\ job = [r \in Requests |-> "none"]
    /\ asked = [k \in Surfaces |-> 0]
    /\ failures = 0 /\ opened = FALSE
    /\ published = 1
    /\ calls = [k \in Surfaces |-> 0] /\ burst = 0 /\ unlucky = {}

-----------------------------------------------------------------------------
(* asyncio.Lock: locked() is false between a release and the turn of the      *)
(* first waiter, but who comes in between waits behind it.                   *)

Locked(k) == holder[k] # Free

Available(k) == ~Locked(k) /\ waiters[k] = <<>>

(* A task that cannot have the lock at once queues up, and takes its turn.    *)
Enqueue(t, k) ==
    /\ ~Available(k)
    /\ waiters' = [waiters EXCEPT ![k] = Append(@, t)]

TakesTurn(t, k) ==
    /\ ~Locked(k) /\ waiters[k] # <<>> /\ Head(waiters[k]) = t
    /\ waiters' = [waiters EXCEPT ![k] = Tail(@)]

-----------------------------------------------------------------------------
(* The fetch, from the breaker inwards.                                      *)

(* The requests that a failure for surface k is a reason to fail.            *)
Depending(k) == {r \in Requests : surface[r] = k /\ stage[r] \in {"sleeping", "waiting"}}

(* The call of func while the breaker is closed.                             *)
FetchBegins(t, k) ==
    /\ holder' = [holder EXCEPT ![k] = t]
    /\ asked' = [asked EXCEPT ![k] = published]
    /\ calls' = IF cached[k] > 0 /\ calls[k] < 2 THEN [calls EXCEPT ![k] = @ + 1] ELSE calls

(* What a failed update does to the expiration of the entry.                  *)
Extended(k) == IF cached[k] > 0 THEN fresh \cup {k} ELSE fresh

(* The value that remains after an error.  Mutant: the entry is cleared.      *)
ClearedAfterError(k) == 0

ValueAfterError(k) == cached[k]

-----------------------------------------------------------------------------
(* _get_or_update_cache.                                                     *)

Arrives(r, k) ==
    /\ stage[r] \in {"returned", "failed"} /\ job[r] = "none"
    /\ surface' = [surface EXCEPT ![r] = k]

(* The first request for the surface fetches while it holds the lock; the     *)
(* fallback of an open breaker raises.                                       *)
FirstRequest(r, k) ==
    /\ Arrives(r, k) /\ k \notin known
    /\ known' = known \cup {k}
    /\ IF opened
       THEN /\ stage' = [stage EXCEPT ![r] = "failed"]
            /\ unlucky' = unlucky \cup {r}
            /\ UNCHANGED <<holder, fetchVars>>
       ELSE /\ stage' = [stage EXCEPT ![r] = "fetching"]
            /\ unlucky' = unlucky \ {r}
            /\ FetchBegins(Request(r), k)
    /\ UNCHANGED <<cached, fresh, waiters, job, breakerVars, published>>

(* Another request returns what there is, and may create an update.          *)
NextRequest(r, k) ==
    /\ Arrives(r, k) /\ k \in known
    /\ job' = IF k \notin fresh /\ ~Locked(k) THEN [job EXCEPT ![r] = "created"] ELSE job
    /\ stage' = [stage EXCEPT ![r] = IF cached[k] > 0 THEN "returned" ELSE "sleeping"]
    /\ unlucky' = unlucky \ {r}
    /\ UNCHANGED <<entryVars, lockVars, fetchVars, breakerVars, published>>

(* Under the lock, without a fetch.                                          *)
Outcome(r) == IF cached[surface[r]] > 0 THEN "returned" ELSE "failed"

(* When the 0.1 s have passed: the event loop has started the update by then. *)
(* Mutant: there is no sleep.                                                *)
NoSleep(r) == TRUE

SleptEnough(r) == job[r] # "created"

SleepEnds(r) ==
    LET k == surface[r] IN
    /\ stage[r] = "sleeping" /\ SleptEnough(r)
    /\ \/ Available(k) /\ stage' = [stage EXCEPT ![r] = Outcome(r)] /\ UNCHANGED waiters
       \/ Enqueue(Request(r), k) /\ stage' = [stage EXCEPT ![r] = "waiting"]
    /\ UNCHANGED <<entryVars, holder, surface, job, fetchVars, breakerVars, published, unlucky>>

GetsLock(r) ==
    /\ stage[r] = "waiting" /\ TakesTurn(Request(r), surface[r])
    /\ stage' = [stage EXCEPT ![r] = Outcome(r)]
    /\ UNCHANGED <<entryVars, holder, surface, job, fetchVars, breakerVars, published, unlucky>>

-----------------------------------------------------------------------------
(* _update_cache.                                                            *)

(* The second look at the entry, under the lock.  Mutants: there is none; a   *)
(* value is enough.                                                          *)
NeverUpToDate(k) == FALSE

AnyValue(k) == cached[k] > 0

UpToDate(k) == k \in fresh /\ cached[k] > 0

UnderLock(r, k) ==
    \/ /\ UpToDate(k)
       /\ job' = [job EXCEPT ![r] = "none"]
       /\ UNCHANGED <<fresh, cached, holder, fetchVars, unlucky>>
    \/ /\ ~UpToDate(k) /\ opened
       /\ job' = [job EXCEPT ![r] = "none"]
       /\ fresh' = Extended(k)
       /\ cached' = [cached EXCEPT ![k] = ValueAfterError(k)]
       /\ unlucky' = unlucky \cup Depending(k)
       /\ UNCHANGED <<holder, fetchVars>>
    \/ /\ ~UpToDate(k) /\ ~opened
       /\ job' = [job EXCEPT ![r] = "fetching"]
       /\ FetchBegins(Update(r), k)
       /\ UNCHANGED <<fresh, cached, unlucky>>

UpdateStarts(r) ==
    LET k == surface[r] IN
    /\ job[r] = "created"
    /\ \/ Available(k) /\ UnderLock(r, k) /\ UNCHANGED waiters
       \/ /\ Enqueue(Update(r), k) /\ job' = [job EXCEPT ![r] = "waiting"]
          /\ UNCHANGED <<cached, fresh, holder, fetchVars, unlucky>>
    /\ UNCHANGED <<known, surface, stage, breakerVars, published>>

UpdateGetsLock(r) ==
    /\ job[r] = "waiting" /\ TakesTurn(Update(r), surface[r])
    /\ UnderLock(r, surface[r])
    /\ UNCHANGED <<known, surface, stage, breakerVars, published>>

-----------------------------------------------------------------------------
(* The end of a fetch, however many attempts @retry makes: only the outcome of *)
(* the last one leaves it, and the lock is kept until then.                  *)

(* Who holds the lock after an exception has left the `async with`.  Mutant:   *)
(* it is only released after a result.                                       *)
StillHeld(k) == holder[k]

Released(k) == Free

TaskEnds(t, outcome) ==
    LET r == t[2] IN
    \/ t = Request(r) /\ stage' = [stage EXCEPT ![r] = outcome] /\ UNCHANGED job
    \/ t = Update(r) /\ job' = [job EXCEPT ![r] = "none"] /\ UNCHANGED stage

FetchSucceeds(k) ==
    /\ Locked(k)
    /\ TaskEnds(holder[k], "returned")
    /\ \E v \in asked[k]..published : cached' = [cached EXCEPT ![k] = v]
    /\ fresh' = fresh \cup {k}
    /\ holder' = [holder EXCEPT ![k] = Free]
    /\ failures' = 0 /\ opened' = FALSE /\ burst' = 0
    /\ asked' = [asked EXCEPT ![k] = 0]
    /\ UNCHANGED <<known, waiters, surface, calls, published, unlucky>>

Raises(k) ==
    LET t == holder[k] IN
    /\ TaskEnds(t, "failed")
    /\ \/ /\ t = Update(t[2])
          /\ fresh' = Extended(k)
          /\ cached' = [cached EXCEPT ![k] = ValueAfterError(k)]
       \/ t = Request(t[2]) /\ UNCHANGED <<cached, fresh>>
    /\ unlucky' = unlucky \cup Depending(k) \cup {t[2]}
    /\ holder' = [holder EXCEPT ![k] = Released(k)]
    /\ asked' = [asked EXCEPT ![k] = 0]
    /\ UNCHANGED <<known, waiters, surface, calls, published>>

(* The failures of the breaker after an error of EXPECTED_EXCEPTION.  Mutant: *)
(* the error is not one of those.                                            *)
NotExpected(n) == 0

Counted(n) == IF n < Threshold THEN n + 1 ELSE n

(* The last attempt ends in an HTTPError or CorpusGraphQLError.              *)
FetchFails(k) ==
    /\ Locked(k)
    /\ Raises(k)
    /\ failures' = Counted(failures) /\ opened' = (failures' >= Threshold)
    /\ burst' = IF burst < Threshold + Cardinality(Surfaces) THEN burst + 1 ELSE burst

(* An answer that cannot be parsed is not retried; it closes the breaker.     *)
AnswerUnusable(k) ==
    /\ Locked(k)
    /\ Raises(k)
    /\ failures' = 0 /\ opened' = FALSE /\ burst' = 0

-----------------------------------------------------------------------------
Expire(k) ==
    /\ k \in fresh
    /\ fresh' = fresh \ {k}
    /\ calls' = [calls EXCEPT ![k] = 0]
    /\ UNCHANGED <<known, cached, lockVars, surface, stage, job, asked, breakerVars,
                   published, unlucky>>

(* circuit_breaker_recover_timeout_sec pass: the breaker is half-open, and one *)
(* more failure opens it.                                                    *)
RecoveryTimeout ==
    /\ opened \/ burst > 0
    /\ opened' = FALSE /\ burst' = 0
    /\ UNCHANGED <<entryVars, lockVars, surface, stage, job, fetchVars, failures,
                   published, unlucky>>

Publish ==
    /\ published < MaxPublished
    /\ published' = published + 1
    /\ UNCHANGED <<entryVars, lockVars, surface, stage, job, fetchVars, breakerVars, unlucky>>

Arrival(k) == \E r \in Requests : FirstRequest(r, k) \/ NextRequest(r, k)

RequestRuns(r) == SleepEnds(r) \/ GetsLock(r)

UpdateRuns(r) == UpdateStarts(r) \/ UpdateGetsLock(r)

FetchEnds(k) == FetchSucceeds(k) \/ FetchFails(k) \/ AnswerUnusable(k)

CacheNext ==
    \/ \E k \in Surfaces : Arrival(k) \/ FetchEnds(k) \/ Expire(k)
    \/ \E r \in Requests : RequestRuns(r) \/ UpdateRuns(r)
    \/ RecoveryTimeout \/ Publish

CacheSpec == CacheInit /\ [][CacheNext]_cacheVars

(* The event loop runs every task, the HTTP client times out, time passes.    *)
FairLoop ==
    /\ \A r \in Requests : WF_cacheVars(RequestRuns(r)) /\ WF_cacheVars(UpdateRuns(r))
    /\ \A k \in Surfaces : WF_cacheVars(FetchEnds(k)) /\ WF_cacheVars(Expire(k))
    /\ WF_cacheVars(RecoveryTimeout)

(* Requests for every surface keep arriving, and a fetch that is made again    *)
(* and again succeeds at last.                                               *)
FairWorld == \A k \in Surfaces : SF_cacheVars(Arrival(k)) /\ SF_cacheVars(FetchSucceeds(k))

CacheFairSpec == CacheSpec /\ FairLoop /\ FairWorld

-----------------------------------------------------------------------------
Tasks == {Request(r) : r \in Requests} \cup {Update(r) : r \in Requests}

CacheTypeOK ==
    /\ known \subseteq Surfaces
    /\ cached \in [Surfaces -> 0..MaxPublished]
    /\ fresh \subseteq {k \in known : cached[k] > 0}
    /\ holder \in [Surfaces -> Tasks \cup {Free}]
    /\ waiters \in [Surfaces -> Seq(Tasks)]
    /\ surface \in [Requests -> Surfaces]
    /\ stage \in [Requests -> {"fetching", "sleeping", "waiting", "returned", "failed"}]
    /\ job \in [Requests -> {"none", "created", "waiting", "fetching"}]
    /\ asked \in [Surfaces -> 0..MaxPublished]
    /\ failures \in 0..Threshold /\ opened \in BOOLEAN
    /\ published \in 1..MaxPublished
    /\ calls \in [Surfaces -> 0..2] /\ unlucky \subseteq Requests
    /\ burst \in 0..Threshold + Cardinality(Surfaces)

(* "only one additional background update" (test_caching 159-179) and "rate-   *)
(* limit retries to once per TTL window" (228): however many requests find an *)
(* entry expired, and whether or not the update succeeds, the backend is      *)
(* called at most once before the entry expires again.                       *)
OneCallPerExpiry == \A k \in Surfaces : calls[k] <= 1

(* A request fails only when, after it arrived, a fetch for its surface failed *)
(* or the breaker refused one; never because it looked before the update ran. *)
(* The comment on the raise (caching 151-160) says otherwise, that it is also  *)
(* reached "if the update is still in progress", while which "an error will    *)
(* continue to be raised here": but the raise is inside `async with             *)
(* entry.lock` (145), which waits for the update that holds the lock or is     *)
(* ahead in its queue.                                                     *)
FailedForAReason == \A r \in Requests : stage[r] = "failed" => r \in unlucky

(* "intended to avoid a thundering herd problem" (circuitbreaker 24-40): within *)
(* a recovery timeout the backend sees at most the failures that open the     *)
(* breaker and those already in flight, one a surface.                       *)
HerdIsBounded == burst < Threshold + Cardinality(Surfaces)

(* Readers never see a surface go back to an older version, nor lose it: stale *)
(* data is better than no data.                                              *)
CacheFeed == INSTANCE VersionedFeed WITH
    Keys <- Surfaces, served <- cached, published <- [k \in Surfaces |-> published]

ImplementsFeed == CacheFeed!Spec

(* Every request ends: no failure leaves the lock held.                      *)
EveryRequestEnds ==
    \A r \in Requests :
        stage[r] \in {"fetching", "sleeping", "waiting"} ~> stage[r] \in {"returned", "failed"}

(* Once the breaker stays closed, what the API publishes is served at last: no *)
(* surface is stuck with a cold entry or an old version.                     *)
CatchesUp ==
    <>[]~opened => published = MaxPublished ~> \A k \in Surfaces : cached[k] = MaxPublished
=============================================================================
