--------------------- MODULE CuratedRecommendationsProofs ----------------------
(***************************************************************************)
(* Proofs about CohortRanking, for every number of publications and faults,   *)
(* and about CorpusCache, for every number of surfaces, of concurrent         *)
(* requests and of versions, and every threshold of the breaker.              *)
(***************************************************************************)
EXTENDS CohortRanking, CorpusCache, FiniteSetTheorems, SequenceTheorems, TLAPS

(* The types that the proofs need.                                           *)
Types ==
    /\ {mObject, mData, rObject, rData, trainingRun, model, recsRun, recs,
        run, cohort, used} \subseteq 0..MaxVersion
    /\ runOf \in [Runs -> 0..MaxVersion]
    /\ lru \subseteq 0..MaxVersion

(* What the threads hold: an object that was published, and not before what  *)
(* is in use.                                                                *)
ThreadsHold ==
    /\ mTask # "sleeping" => mObject >= 1
    /\ model <= mObject
    /\ mTask = "callback" => mData \in 1..mObject /\ model <= mData
    /\ rTask # "sleeping" => rObject >= 1
    /\ recs <= rObject
    /\ rTask = "callback" => rData \in 1..rObject /\ recs <= rData

(* The run of the rankings is that of their data, but between two writes.     *)
RunOfRecs ==
    /\ rInstalled \in {0, 1}
    /\ rInstalled = 1 => rTask = "callback" /\ recsRun = runOf[rData]
    /\ rInstalled = 0 => recsRun = IF recs = None THEN None ELSE runOf[recs]

(* The cache and the inference under way follow the model, but between its    *)
(* installation and cache_clear.                                             *)
CacheFresh ==
    installed # 3 => /\ ~stale => lru \subseteq {model}
                     /\ pc = "insert" /\ ~overtaken => cohort = model

(* Nothing was installed since the start of a request that is not disturbed.  *)
Steady ==
    pc \in {"asked", "lookup", "infer", "insert", "sections"} =>
        /\ installed = 0 /\ rInstalled = 0
        /\ trainingRun = model /\ run = recsRun

(* What such a request has found so far.                                     *)
Found ==
    /\ pc \in {"asked", "lookup", "infer"} => cohort = None
    /\ pc \in {"lookup", "infer", "insert"} /\ run # None => trainingRun = run
    /\ pc = "insert" => cohort = model
    /\ pc \in {"sections", "ranked"} /\ run # None /\ cohort # None => cohort = run
    /\ pc = "ranked" /\ run # None => used \in 1..rObject /\ runOf[used] = run

IndInv ==
    /\ Types /\ ThreadsHold /\ RunOfRecs /\ CacheFresh
    /\ ~disturbed => Steady /\ Found

-----------------------------------------------------------------------------
(* Nothing is loaded and no thread runs.                                      *)
LEMMA InitInv == Init => IndInv
  BY CohortRankingAssumption
     DEF CohortRankingAssumption, Init, Model!Init, Rankings!Init, IndInv, Types, ThreadsHold,
         RunOfRecs, CacheFresh, Steady, Found, None, Runs

(* The jobs write only what is published, which no thread has read yet.       *)
LEMMA PublishInv ==
  ASSUME IndInv, PublishModel \/ PublishRankings
  PROVE  IndInv'
<1> USE CohortRankingAssumption
    DEF CohortRankingAssumption, None, Runs, IndInv, mBlob, rBlob, modelVars, lruVars,
        recsVars, requestVars, Disturb
<1>1. CASE PublishModel
  <2>1. /\ mObject < MaxVersion /\ mObject' = mObject + 1
        /\ UNCHANGED <<mTask, mData, rBlob, runOf, modelVars, lruVars, recsVars,
                       requestVars, disturbed>>
    BY <1>1 DEF PublishModel, Model!Publish, Model!taskVars
  <2> USE <2>1
  <2>2. Types'
    BY DEF Types
  <2>3. ThreadsHold'
    BY DEF Types, ThreadsHold
  <2>4. RunOfRecs'
    BY DEF Types, ThreadsHold, RunOfRecs
  <2>5. CacheFresh'
    BY DEF CacheFresh
  <2>6. ~disturbed' => Steady' /\ Found'
    BY DEF Steady, Found
  <2> QED BY <2>2, <2>3, <2>4, <2>5, <2>6 DEF IndInv
<1>2. CASE PublishRankings
  <2>1. /\ rObject < MaxVersion /\ rObject' = rObject + 1
        /\ \E t \in Runs \cup {None} : runOf' = [runOf EXCEPT ![rObject + 1] = t]
        /\ UNCHANGED <<rTask, rData, mBlob, modelVars, lruVars, recsVars,
                       requestVars, disturbed>>
    BY <1>2 DEF PublishRankings, Rankings!Publish, Rankings!taskVars
  <2> USE <2>1
  <2>2. Types'
    <3>1. PICK t \in Runs \cup {None} : runOf' = [runOf EXCEPT ![rObject + 1] = t]
      BY <2>1
    <3>2. runOf' \in [Runs -> 0..MaxVersion]
      BY <3>1 DEF Types
    <3> QED BY <3>2 DEF Types
  <2>3. ThreadsHold'
    BY DEF Types, ThreadsHold
  <2>4. RunOfRecs'
    <3>1. \A v \in 1..rObject : runOf'[v] = runOf[v]
      BY DEF Types
    <3>2. /\ recs # None => recs \in 1..rObject
          /\ rTask = "callback" => rData \in 1..rObject
      BY DEF Types, ThreadsHold
    <3> QED BY <3>1, <3>2 DEF RunOfRecs
  <2>5. CacheFresh'
    BY DEF CacheFresh
  <2>6. ~disturbed' => Steady' /\ Found'
    BY DEF Types, Steady, Found
  <2> QED BY <2>2, <2>3, <2>4, <2>5, <2>6 DEF IndInv
<1> QED BY <1>1, <1>2

(* A step of the thread that loads the model (_fetch_binary_callback, 49-76). *)
LEMMA ModelThreadInv ==
  ASSUME IndInv, ModelThread
  PROVE  IndInv'
<1> USE CohortRankingAssumption
    DEF CohortRankingAssumption, None, Runs, IndInv, mBlob, rBlob, modelVars, lruVars,
        recsVars, requestVars, Disturb
<1>1. CASE ModelFetch
  <2>1. /\ mTask # "callback" /\ mObject' = mObject
        /\ \/ mTask' = "metadata" /\ mObject # 0 /\ mData' = mData
           \/ mTask' = "callback" /\ mTask = "metadata" /\ mData' = mObject
           \/ mTask' = "sleeping" /\ mData' = 0
        /\ UNCHANGED <<rBlob, runOf, modelVars, lruVars, recsVars, requestVars, disturbed>>
    BY <1>1 DEF ModelFetch, Model!Reload, Model!Download, Model!DownloadFails, Model!Ends, Model!objectVars
  <2> USE <2>1
  <2>2. Types' /\ ThreadsHold' /\ RunOfRecs'
    BY DEF Types, ThreadsHold, RunOfRecs
  <2>3. CacheFresh' /\ (~disturbed' => Steady' /\ Found')
    BY DEF CacheFresh, Steady, Found
  <2> QED BY <2>2, <2>3 DEF IndInv
<1>2. CASE InstallMetadata
  <2>1. /\ installed = 0 /\ installed' = 1 /\ Disturb
        /\ UNCHANGED <<mBlob, rBlob, runOf, trainingRun, model, lruVars, recsVars, requestVars>>
    BY <1>2 DEF InstallMetadata, Installing
  <2> USE <2>1
  <2>2. Types'
    BY DEF Types
  <2>3. ThreadsHold'
    BY DEF Types, ThreadsHold
  <2>4. RunOfRecs'
    BY DEF Types, ThreadsHold, RunOfRecs
  <2>5. CacheFresh'
    BY DEF CacheFresh
  <2>6. ~disturbed' => Steady' /\ Found'
    BY DEF Steady, Found
  <2> QED BY <2>2, <2>3, <2>4, <2>5, <2>6 DEF IndInv
<1>3. CASE InstallRun
  <2>1. /\ installed = 1 /\ installed' = 2 /\ mTask = "callback"
        /\ trainingRun' = mData /\ Disturb
        /\ UNCHANGED <<mBlob, rBlob, runOf, model, lruVars, recsVars, requestVars>>
    BY <1>3 DEF InstallRun, Installing
  <2> USE <2>1
  <2>2. Types'
    BY DEF Types
  <2>3. ThreadsHold'
    BY DEF Types, ThreadsHold
  <2>4. RunOfRecs'
    BY DEF Types, ThreadsHold, RunOfRecs
  <2>5. CacheFresh'
    BY DEF CacheFresh
  <2>6. ~disturbed' => Steady' /\ Found'
    BY DEF Steady, Found
  <2> QED BY <2>2, <2>3, <2>4, <2>5, <2>6 DEF IndInv
<1>4. CASE LoadFails
  <2>1. /\ installed = 2 /\ installed' = 0 /\ Disturb
        /\ mTask' = "sleeping" /\ mData' = 0 /\ mObject' = mObject
        /\ UNCHANGED <<rBlob, runOf, trainingRun, model, lruVars, recsVars, requestVars>>
    BY <1>4 DEF LoadFails, Installing, Model!CallbackReturns, Model!Ends, Model!objectVars
  <2> USE <2>1
  <2>2. Types'
    BY DEF Types
  <2>3. ThreadsHold'
    BY DEF Types, ThreadsHold
  <2>4. RunOfRecs'
    BY DEF Types, ThreadsHold, RunOfRecs
  <2>5. CacheFresh'
    BY DEF CacheFresh
  <2>6. ~disturbed' => Steady' /\ Found'
    BY DEF Steady, Found
  <2> QED BY <2>2, <2>3, <2>4, <2>5, <2>6 DEF IndInv
<1>5. CASE SetModel
  <2>1. /\ installed = 2 /\ installed' = 3 /\ mTask = "callback"
        /\ model' = mData /\ Disturb
        /\ UNCHANGED <<mBlob, rBlob, runOf, trainingRun, lruVars, recsVars, requestVars>>
    BY <1>5 DEF SetModel, Installing
  <2> USE <2>1
  <2>2. Types'
    BY DEF Types
  <2>3. ThreadsHold'
    BY DEF Types, ThreadsHold
  <2>4. RunOfRecs'
    BY DEF Types, ThreadsHold, RunOfRecs
  <2>5. CacheFresh'
    BY DEF CacheFresh
  <2>6. ~disturbed' => Steady' /\ Found'
    BY DEF Steady, Found
  <2> QED BY <2>2, <2>3, <2>4, <2>5, <2>6 DEF IndInv
<1>6. CASE ClearCache
  <2>1. /\ installed = 3 /\ installed' = 0 /\ Disturb
        /\ lru' = {} /\ overtaken' = (pc = "insert")
        /\ mTask' = "sleeping" /\ mData' = 0 /\ mObject' = mObject
        /\ UNCHANGED <<rBlob, runOf, trainingRun, model, recsVars, requestVars>>
    BY <1>6 DEF ClearCache, Installing, Model!CallbackReturns, Model!Ends, Model!objectVars
  <2> USE <2>1
  <2>2. Types'
    BY DEF Types
  <2>3. ThreadsHold'
    BY DEF Types, ThreadsHold
  <2>4. RunOfRecs'
    BY DEF Types, ThreadsHold, RunOfRecs
  <2>5. CacheFresh'
    BY DEF CacheFresh
  <2>6. ~disturbed' => Steady' /\ Found'
    BY DEF Steady, Found
  <2> QED BY <2>2, <2>3, <2>4, <2>5, <2>6 DEF IndInv
<1> QED BY <1>1, <1>2, <1>3, <1>4, <1>5, <1>6 DEF ModelThread

(* A step of the thread that loads the rankings (_fetch_callback, 53-68).     *)
LEMMA RankingsThreadInv ==
  ASSUME IndInv, RankingsThread
  PROVE  IndInv'
<1> USE CohortRankingAssumption
    DEF CohortRankingAssumption, None, Runs, IndInv, mBlob, rBlob, modelVars, lruVars,
        recsVars, requestVars, Disturb
<1>1. CASE RankingsFetch
  <2>1. /\ rTask # "callback" /\ rObject' = rObject
        /\ \/ rTask' = "metadata" /\ rObject # 0 /\ rData' = rData
           \/ rTask' = "callback" /\ rTask = "metadata" /\ rData' = rObject
           \/ rTask' = "sleeping" /\ rData' = 0
        /\ UNCHANGED <<mBlob, runOf, modelVars, lruVars, recsVars, requestVars, disturbed>>
    BY <1>1 DEF RankingsFetch, Rankings!Reload, Rankings!Download, Rankings!DownloadFails,
            Rankings!Ends, Rankings!objectVars
  <2> USE <2>1
  <2>2. Types' /\ ThreadsHold' /\ RunOfRecs'
    BY DEF Types, ThreadsHold, RunOfRecs
  <2>3. CacheFresh' /\ (~disturbed' => Steady' /\ Found')
    BY DEF CacheFresh, Steady, Found
  <2> QED BY <2>2, <2>3 DEF IndInv
<1>2. CASE RankingsUnusable
  <2>1. /\ rInstalled = 0
        /\ rTask' = "sleeping" /\ rData' = 0 /\ rObject' = rObject
        /\ UNCHANGED <<mBlob, runOf, modelVars, lruVars, recsVars, requestVars, disturbed>>
    BY <1>2 DEF RankingsUnusable, Rankings!CallbackRaises, Rankings!Ends, Rankings!objectVars
  <2> USE <2>1
  <2>2. Types' /\ ThreadsHold' /\ RunOfRecs'
    BY DEF Types, ThreadsHold, RunOfRecs
  <2>3. CacheFresh' /\ (~disturbed' => Steady' /\ Found')
    BY DEF CacheFresh, Steady, Found
  <2> QED BY <2>2, <2>3 DEF IndInv
<1>3. CASE InstallRecsRun
  <2>1. /\ rTask = "callback" /\ rInstalled' = 1
        /\ recsRun' = runOf[rData] /\ Disturb
        /\ UNCHANGED <<mBlob, rBlob, runOf, modelVars, lruVars, recs, requestVars>>
    BY <1>3 DEF InstallRecsRun
  <2> USE <2>1
  <2>2. Types' /\ ThreadsHold' /\ RunOfRecs'
    BY DEF Types, ThreadsHold, RunOfRecs
  <2>3. CacheFresh' /\ (~disturbed' => Steady' /\ Found')
    BY DEF CacheFresh, Steady, Found
  <2> QED BY <2>2, <2>3 DEF IndInv
<1>4. CASE InstallRecs
  <2>1. /\ rTask = "callback" /\ rInstalled = 1 /\ rInstalled' = 0
        /\ recs' = rData /\ Disturb
        /\ rTask' = "sleeping" /\ rData' = 0 /\ rObject' = rObject
        /\ UNCHANGED <<mBlob, runOf, modelVars, lruVars, recsRun, requestVars>>
    BY <1>4 DEF InstallRecs, Rankings!CallbackReturns, Rankings!Ends, Rankings!objectVars
  <2> USE <2>1
  <2>2. Types' /\ ThreadsHold' /\ RunOfRecs'
    BY DEF Types, ThreadsHold, RunOfRecs
  <2>3. CacheFresh' /\ (~disturbed' => Steady' /\ Found')
    BY DEF CacheFresh, Steady, Found
  <2> QED BY <2>2, <2>3 DEF IndInv
<1> QED BY <1>1, <1>2, <1>3, <1>4 DEF RankingsThread

(* A step of a request (provider.py:147-171, ranker 103-114).                 *)
LEMMA ServeInv ==
  ASSUME IndInv, Serve
  PROVE  IndInv'
<1> USE CohortRankingAssumption
    DEF CohortRankingAssumption, None, Runs, IndInv, mBlob, rBlob, modelVars, lruVars,
        recsVars, requestVars, Disturb
<1>1. CASE Begin
  <2>1. /\ pc' = "asked" /\ run' = recsRun /\ cohort' = None /\ used' = None
        /\ disturbed' = (installed # 0 \/ rInstalled # 0 \/ trainingRun # model)
        /\ UNCHANGED <<mBlob, rBlob, runOf, modelVars, lruVars, recsVars>>
    BY <1>1 DEF Begin
  <2> USE <2>1
  <2>2. Types' /\ ThreadsHold' /\ RunOfRecs'
    BY DEF Types, ThreadsHold, RunOfRecs
  <2>3. CacheFresh' /\ (~disturbed' => Steady' /\ Found')
    BY DEF CacheFresh, Steady, Found
  <2> QED BY <2>2, <2>3 DEF IndInv
<1>2. CASE Ask
  <2>1. /\ pc = "asked"
        /\ \/ pc' = "lookup" /\ (run = None \/ trainingRun = run)
           \/ pc' \in {"sections", "raised"}
        /\ UNCHANGED <<mBlob, rBlob, runOf, modelVars, lruVars, recsVars,
                       run, cohort, used, disturbed>>
    BY <1>2 DEF Ask, SameRun
  <2> USE <2>1
  <2>2. Types' /\ ThreadsHold' /\ RunOfRecs'
    BY DEF Types, ThreadsHold, RunOfRecs
  <2>3. CacheFresh' /\ (~disturbed' => Steady' /\ Found')
    BY DEF CacheFresh, Steady, Found
  <2> QED BY <2>2, <2>3 DEF IndInv
<1>3. CASE Lookup
  <2>1. /\ pc = "lookup"
        /\ \/ pc' = "infer" /\ UNCHANGED <<cohort, disturbed>>
           \/ pc' = "sections" /\ cohort' \in lru /\ disturbed' = (disturbed \/ stale)
        /\ UNCHANGED <<mBlob, rBlob, runOf, modelVars, lruVars, recsVars, run, used>>
    BY <1>3 DEF Lookup
  <2> USE <2>1
  <2>2. Types'
    BY DEF Types
  <2>3. ThreadsHold'
    BY DEF Types, ThreadsHold
  <2>4. RunOfRecs'
    BY DEF Types, ThreadsHold, RunOfRecs
  <2>5. CacheFresh'
    BY DEF CacheFresh
  <2>6. ~disturbed' => Steady' /\ Found'
    <3>1. ~disturbed' => ~disturbed
      BY Zenon
    <3>2. pc' = "sections" /\ ~disturbed' => cohort' \in lru /\ ~stale
      BY DEF Found
    <3> QED BY <3>1, <3>2 DEF CacheFresh, Steady, Found
  <2> QED BY <2>2, <2>3, <2>4, <2>5, <2>6 DEF IndInv
<1>4. CASE Infer
  <2>1. /\ pc = "infer" /\ pc' = "insert" /\ cohort' = model
        /\ UNCHANGED <<mBlob, rBlob, runOf, modelVars, lruVars, recsVars, run, used, disturbed>>
    BY <1>4 DEF Infer
  <2> USE <2>1
  <2>2. Types' /\ ThreadsHold' /\ RunOfRecs'
    BY DEF Types, ThreadsHold, RunOfRecs
  <2>3. CacheFresh' /\ (~disturbed' => Steady' /\ Found')
    BY DEF CacheFresh, Steady, Found
  <2> QED BY <2>2, <2>3 DEF IndInv
<1>5. CASE Insert
  <2>1. /\ pc = "insert" /\ pc' = "sections"
        /\ lru' = {cohort} /\ stale' = overtaken
        /\ UNCHANGED <<mBlob, rBlob, runOf, modelVars, recsVars, run, cohort, used, disturbed>>
    BY <1>5 DEF Insert
  <2> USE <2>1
  <2>2. Types' /\ ThreadsHold' /\ RunOfRecs'
    BY DEF Types, ThreadsHold, RunOfRecs
  <2>3. CacheFresh' /\ (~disturbed' => Steady' /\ Found')
    BY DEF CacheFresh, Steady, Found
  <2> QED BY <2>2, <2>3 DEF IndInv
<1>6. CASE Rank
  <2>1. /\ pc = "sections" /\ pc' = "ranked" /\ used' = recs
        /\ UNCHANGED <<mBlob, rBlob, runOf, modelVars, lruVars, recsVars, run, cohort, disturbed>>
    BY <1>6 DEF Rank
  <2> USE <2>1
  <2>2. Types' /\ ThreadsHold' /\ RunOfRecs'
    BY DEF Types, ThreadsHold, RunOfRecs
  <2>3. CacheFresh' /\ (~disturbed' => Steady' /\ Found')
    BY DEF CacheFresh, Types, ThreadsHold, RunOfRecs, Steady, Found
  <2> QED BY <2>2, <2>3 DEF IndInv
<1> QED BY <1>1, <1>2, <1>3, <1>4, <1>5, <1>6 DEF Serve

-----------------------------------------------------------------------------
(* The inductive invariant holds in every reachable state of every instance.  *)
THEOREM Inductive == Spec => []IndInv
<1>1. IndInv /\ [Next]_vars => IndInv'
  <2> SUFFICES ASSUME IndInv, [Next]_vars PROVE IndInv'
    OBVIOUS
  <2>1. CASE UNCHANGED vars
    BY <2>1 DEF vars, mBlob, rBlob, modelVars, lruVars, recsVars, requestVars, IndInv, Types,
                ThreadsHold, RunOfRecs, CacheFresh, Steady, Found
  <2> QED BY <2>1, PublishInv, ModelThreadInv, RankingsThreadInv, ServeInv DEF Next
<1> QED BY <1>1, InitInv, PTL DEF Spec

(* A cohort is used only with rankings whose training run computed it         *)
(* (get_cohort_for_interests, 127 and 147-148), unless something was          *)
(* installed under way or a model did not load.                              *)
THEOREM CohortsFit == Spec => []CohortFitsRankings
<1>1. IndInv => CohortFitsRankings
  BY DEF IndInv, Found, CohortFitsRankings
<1> QED BY <1>1, Inductive, PTL

(* The cache never keeps a cohort of a replaced model (cache_clear, 74), but   *)
(* for an inference that it overtook.                                        *)
THEOREM CacheIsFresh == Spec => []CacheFollowsModel
<1>1. IndInv => CacheFollowsModel
  BY DEF IndInv, CacheFresh, CacheFollowsModel
<1> QED BY <1>1, Inductive, PTL

(* The two blobs, what is installed of them and the request keep their types:  *)
(* in particular the LRU cache holds one cohort at most.                     *)
THEOREM TypeCorrect == Spec => []TypeOK
<1> DEFINE Threads == /\ mKind \in {"good", "bad"} /\ mDataKind \in {"good", "bad"}
                      /\ rKind \in {"good", "bad", "big"} /\ rDataKind \in {"good", "bad", "big"}
                      /\ mUpdated \in 0..MaxVersion /\ mSeen \in 0..MaxVersion
                      /\ rUpdated \in 0..MaxVersion /\ rSeen \in 0..MaxVersion
                      /\ mTask \in {"sleeping", "metadata", "callback"}
                      /\ rTask \in {"sleeping", "metadata", "callback"}
           Flags ==   /\ configured \in BOOLEAN /\ overtaken \in BOOLEAN
                      /\ stale \in BOOLEAN /\ disturbed \in BOOLEAN
           Rest ==    /\ installed \in 0..3 /\ rInstalled \in 0..1
                      /\ lru = {} \/ \E c \in 0..MaxVersion : lru = {c}
                      /\ pc \in {"idle", "asked", "lookup", "infer", "insert", "sections", "ranked", "raised"}
                      /\ faults \in 0..MaxFaults
<1>0. MaxVersion \in Nat \ {0} /\ MaxFaults \in Nat
  BY CohortRankingAssumption DEF CohortRankingAssumption
<1>1. Init => Threads /\ Flags /\ Rest
  <2>1. Init => Flags
    BY DEF Init
  <2>2. Init => Threads /\ Rest
    BY <1>0 DEF Init, Model!Init, Rankings!Init
  <2> QED BY <2>1, <2>2
<1> USE DEF mBlob, rBlob, modelVars, lruVars, recsVars, requestVars, Disturb
<1>2. ASSUME IndInv, Threads, [Next]_vars PROVE Threads'
  <2>1. mObject \in 0..MaxVersion /\ rObject \in 0..MaxVersion
    BY <1>2 DEF IndInv, Types
  <2>2. CASE PublishModel \/ PublishRankings
    BY <1>2, <2>2 DEF PublishModel, PublishRankings, Model!Publish, Rankings!Publish,
       Model!taskVars, Rankings!taskVars
  <2>3. CASE ModelFetch
    BY <1>0, <1>2, <2>1, <2>3 DEF ModelFetch, Model!Reload, Model!Download, Model!DownloadFails,
       Model!Ends, Model!Stamped, Model!objectVars
  <2>4. CASE RankingsFetch
    BY <1>0, <1>2, <2>1, <2>4 DEF RankingsFetch, Rankings!Reload, Rankings!Download,
       Rankings!DownloadFails, Rankings!Ends, Rankings!Stamped, Rankings!objectVars
  <2>5. CASE LoadFails \/ ClearCache
    BY <1>0, <1>2, <2>5 DEF LoadFails, ClearCache, Model!CallbackReturns, Model!Ends, Model!Stamped,
       Model!objectVars
  <2>6. CASE RankingsUnusable \/ InstallRecs
    BY <1>0, <1>2, <2>6 DEF RankingsUnusable, InstallRecs, Rankings!CallbackReturns,
       Rankings!CallbackRaises, Rankings!Ends, Rankings!Stamped, Rankings!objectVars
  <2>7. CASE InstallMetadata \/ InstallRun \/ SetModel \/ InstallRecsRun \/ Serve \/ UNCHANGED vars
    BY <1>2, <2>7 DEF InstallMetadata, InstallRun, SetModel, InstallRecsRun, Serve, Begin, Ask,
       Lookup, Infer, Insert, Rank, vars
  <2> QED BY <1>2, <2>2, <2>3, <2>4, <2>5, <2>6, <2>7 DEF Next, ModelThread, RankingsThread
<1>3. ASSUME IndInv, Rest, [Next]_vars PROVE Rest'
  <2>1. cohort \in 0..MaxVersion
    BY <1>3 DEF IndInv, Types
  <2>2. CASE PublishModel \/ PublishRankings \/ UNCHANGED vars
    BY <1>3, <2>2 DEF PublishModel, PublishRankings, vars
  <2>3. CASE ModelThread
    BY <1>0, <1>3, <2>3 DEF ModelThread, ModelFetch, Fails, InstallMetadata, InstallRun, LoadFails,
       SetModel, ClearCache
  <2>4. CASE RankingsThread
    BY <1>0, <1>3, <2>4 DEF RankingsThread, RankingsFetch, Fails, RankingsUnusable, InstallRecsRun,
       InstallRecs
  <2>5. CASE Serve
    BY <1>3, <2>1, <2>5 DEF Serve, Begin, Ask, Lookup, Infer, Insert, Rank
  <2> QED BY <1>3, <2>2, <2>3, <2>4, <2>5 DEF Next
<1>4. ASSUME Flags, [Next]_vars PROVE Flags'
  BY <1>4 DEF Next, PublishModel, PublishRankings, vars, ModelThread, ModelFetch, InstallMetadata,
     InstallRun, LoadFails, SetModel, ClearCache, RankingsThread, RankingsFetch, RankingsUnusable,
     InstallRecsRun, InstallRecs, Serve, Begin, Ask, Lookup, Infer, Insert, Rank
<1>5. IndInv /\ Threads /\ Flags /\ Rest => TypeOK
  <2> SUFFICES ASSUME IndInv, Threads, Flags, Rest PROVE TypeOK
    OBVIOUS
  <2>1. Cardinality(lru) <= 1
    BY FS_EmptySet, FS_Singleton
  <2>2. 0..MaxVersion = Runs \cup {None}
    BY <1>0 DEF Runs, None
  <2> QED BY <2>1, <2>2 DEF IndInv, Types, TypeOK, Model!TypeOK, Rankings!TypeOK
<1> HIDE DEF Threads, Flags, Rest
<1> QED BY <1>1, <1>2, <1>3, <1>4, <1>5, Inductive, PTL DEF Spec

-----------------------------------------------------------------------------
(* The model and the rankings as feeds.                                      *)
Blobs == {"model", "rankings"}

Published == [b \in Blobs |-> IF b = "model" THEN mObject ELSE rObject]

Served == [b \in Blobs |-> IF b = "model" THEN model ELSE recs]

BlobFeed == INSTANCE VersionedFeed WITH Keys <- Blobs, published <- Published, served <- Served

(* Nothing is published and nothing served at first.                          *)
LEMMA BlobFeedInit == Init => BlobFeed!Init
  BY DEF Init, Model!Init, Rankings!Init, BlobFeed!Init, Blobs, Published, Served, None

(* A publication is a publication of one of the two feeds.                    *)
LEMMA BlobFeedPublish ==
  ASSUME IndInv, PublishModel \/ PublishRankings
  PROVE  BlobFeed!Publish
<1>1. /\ mObject' \in {mObject, mObject + 1} /\ rObject' \in {rObject, rObject + 1}
      /\ model' = model /\ recs' = recs
  BY DEF PublishModel, PublishRankings, Model!Publish, Rankings!Publish, Model!taskVars,
         Rankings!taskVars, mBlob, rBlob, modelVars, recsVars
<1> QED BY <1>1 DEF BlobFeed!Publish, Blobs, Published, Served

(* An installation never takes a feed back to an older version.               *)
LEMMA BlobFeedRefresh ==
  ASSUME IndInv, ModelThread \/ RankingsThread \/ Serve \/ UNCHANGED vars
  PROVE  BlobFeed!Refresh
<1>1. /\ mObject' = mObject /\ rObject' = rObject
      /\ model' = model \/ (mTask = "callback" /\ model' = mData)
      /\ recs' = recs \/ (rTask = "callback" /\ recs' = rData)
  BY DEF ModelThread, RankingsThread, Serve, ModelFetch, InstallMetadata, InstallRun, LoadFails,
         SetModel, ClearCache, RankingsFetch, RankingsUnusable, InstallRecsRun, InstallRecs,
         Begin, Ask, Lookup, Infer, Insert, Rank, Installing, vars, mBlob, rBlob, modelVars,
         recsVars, Model!Reload, Model!Download, Model!DownloadFails, Model!CallbackReturns,
         Model!Ends, Model!objectVars, Rankings!Reload, Rankings!Download,
         Rankings!DownloadFails, Rankings!CallbackReturns, Rankings!CallbackRaises,
         Rankings!Ends, Rankings!objectVars
<1>2. model' \in model..mObject /\ recs' \in recs..rObject
  BY <1>1, CohortRankingAssumption DEF IndInv, Types, ThreadsHold, CohortRankingAssumption
<1> QED BY <1>1, <1>2 DEF BlobFeed!Refresh, Blobs, Published, Served

(* Whatever fails and however often, the model and the rankings in use were   *)
(* published and are never followed by older ones (_update_task, 134-150).    *)
THEOREM BlobsImplementFeed == Spec => BlobFeed!Spec
<1>1. IndInv /\ [Next]_vars => [BlobFeed!Next]_<<Published, Served>>
  BY BlobFeedPublish, BlobFeedRefresh DEF Next, BlobFeed!Next
<1> QED BY <1>1, BlobFeedInit, Inductive, PTL DEF Spec, BlobFeed!Spec
-----------------------------------------------------------------------------
(* The corpus cache: the parts of its inductive invariant.                     *)

(* Who holds the lock of an entry fetches a version that is not older than it, *)
(* and the first request fetches for an entry without a value.                *)
VersionsInv ==
    \A k \in Surfaces :
        /\ cached[k] <= published
        /\ k \notin known => cached[k] = 0 /\ ~Locked(k)
        /\ Locked(k) => k \notin fresh /\ asked[k] \in 1..published /\ cached[k] <= asked[k]
        /\ \A r \in Requests : holder[k] = Request(r) => cached[k] = 0

(* The call of an expired entry is the one under way, or there was none.       *)
CallsInv ==
    \A k \in Surfaces :
        /\ calls[k] <= 1
        /\ cached[k] = 0 => calls[k] = 0
        /\ k \notin fresh /\ ~Locked(k) => calls[k] = 0

(* A task that holds a lock fetches, one that is queued waits, both for the    *)
(* lock of its surface, and it is queued once.                               *)
HoldersInv ==
    \A k \in Surfaces, r \in Requests :
        /\ holder[k] = Request(r) => stage[r] = "fetching" /\ surface[r] = k
        /\ holder[k] = Update(r) => job[r] = "fetching" /\ surface[r] = k

QueuedInv ==
    \A k \in Surfaces : \A i \in DOMAIN waiters[k] :
        /\ \A r \in Requests :
            /\ waiters[k][i] = Request(r) => stage[r] = "waiting" /\ surface[r] = k
            /\ waiters[k][i] = Update(r) => job[r] = "waiting" /\ surface[r] = k
        /\ \A j \in DOMAIN waiters[k] : waiters[k][i] = waiters[k][j] => i = j

(* An update is made for an entry, and has started when its request waits for  *)
(* the lock.                                                                 *)
JobsInv ==
    \A r \in Requests :
        /\ job[r] # "none" => surface[r] \in known
        /\ stage[r] = "waiting" => job[r] # "created"

(* An update is queued, before the request if that is.                        *)
UpdateAhead(r) ==
    LET q == waiters[surface[r]] IN
    \E i \in DOMAIN q : /\ \E x \in Requests : q[i] = Update(x)
                        /\ \A j \in DOMAIN q : q[j] = Request(r) => i < j

(* Whoever waits for a value and has seen no failure comes after a fetch: it is *)
(* under way, or an update is created or queued ahead that will make it.      *)
ReasonInv ==
    \A r \in Requests \ unlucky :
        /\ stage[r] # "failed"
        /\ stage[r] \in {"sleeping", "waiting"} /\ cached[surface[r]] = 0 =>
             Locked(surface[r]) \/ job[r] = "created" \/ UpdateAhead(r)

(* The failures that are left to come are those in flight.                    *)
InFlight == {k \in Surfaces : Locked(k)}

BreakerInv ==
    /\ opened => /\ failures = Threshold
                 /\ burst + Cardinality(InFlight) < Threshold + Cardinality(Surfaces)
    /\ ~opened => burst <= failures /\ burst < Threshold

CacheInv == /\ CacheTypeOK /\ VersionsInv /\ CallsInv /\ HoldersInv /\ QueuedInv /\ JobsInv
            /\ ReasonInv /\ BreakerInv

-----------------------------------------------------------------------------
(* Tasks are told apart.                                                     *)
LEMMA TaskFacts ==
  /\ \A r : Request(r) # Free /\ Update(r) # Free /\ Request(r)[2] = r /\ Update(r)[2] = r
  /\ \A r, x : Request(r) # Update(x)
  /\ \A r, x : Request(r) = Request(x) => r = x
  /\ \A r, x : Update(r) = Update(x) => r = x
<1>1. \A r : Len(Request(r)) = 2 /\ Len(Update(r)) = 2 /\ Len(Free) = 1
  BY DEF Request, Update, Free
<1>2. \A r : Request(r)[2] = r /\ Update(r)[2] = r /\ Request(r)[1] = "request" /\ Update(r)[1] = "update"
  BY DEF Request, Update
<1>3. \A r : Request(r) # Free /\ Update(r) # Free
  BY <1>1
<1>4. \A r, x : Request(r) # Update(x)
  BY <1>2
<1> QED BY <1>2, <1>3, <1>4

(* Whoever holds a lock or is queued for it is the request or the update of a  *)
(* slot.                                                                     *)
LEMMA HolderFacts ==
  ASSUME CacheTypeOK, NEW k \in Surfaces
  PROVE  /\ Locked(k) => \E r \in Requests : holder[k] = Request(r) \/ holder[k] = Update(r)
         /\ waiters[k] \in Seq(Tasks)
         /\ published \in Nat /\ cached[k] \in Nat /\ asked[k] \in Nat
<1>1. MaxPublished \in Nat \ {0}
  BY CorpusCacheAssumption DEF CorpusCacheAssumption
<1>2. holder[k] \in Tasks \cup {Free}
  BY DEF CacheTypeOK
<1>3. Locked(k) => \E r \in Requests : holder[k] = Request(r) \/ holder[k] = Update(r)
  BY <1>2 DEF Tasks, Locked
<1> QED BY <1>1, <1>3 DEF CacheTypeOK

(* Nothing is cached.                                                        *)
LEMMA CacheInitInv == CacheInit => CacheInv
<1> SUFFICES ASSUME CacheInit PROVE CacheInv
  OBVIOUS
<1>0. /\ MaxPublished \in Nat \ {0} /\ Threshold \in Nat \ {0}
      /\ IsFiniteSet(Surfaces) /\ Cardinality(Surfaces) \in Nat
      /\ Surfaces # {}
  BY CorpusCacheAssumption, FS_CardinalityType DEF CorpusCacheAssumption
<1>1. \A k \in Surfaces : ~Locked(k) /\ waiters[k] = <<>>
  BY DEF CacheInit, Locked
<1>2. \A k \in Surfaces, r \in Requests : holder[k] # Request(r) /\ holder[k] # Update(r)
  BY <1>1, TaskFacts DEF Locked
<1>3. CacheTypeOK
  <2>1. <<>> \in Seq(Tasks)
    OBVIOUS
  <2>2. holder \in [Surfaces -> Tasks \cup {Free}]
    BY DEF CacheInit
  <2>3. waiters \in [Surfaces -> Seq(Tasks)]
    BY <2>1 DEF CacheInit
  <2>4. failures \in 0..Threshold /\ burst \in 0..Threshold + Cardinality(Surfaces)
    BY <1>0 DEF CacheInit
  <2>5. published \in 1..MaxPublished /\ cached \in [Surfaces -> 0..MaxPublished] /\ asked \in [Surfaces -> 0..MaxPublished]
    BY <1>0 DEF CacheInit
  <2>6. known \subseteq Surfaces /\ fresh \subseteq {k \in known : cached[k] > 0} /\ unlucky \subseteq Requests
    BY DEF CacheInit
  <2>7. stage \in [Requests -> {"fetching", "sleeping", "waiting", "returned", "failed"}]
    BY DEF CacheInit
  <2>8. job \in [Requests -> {"none", "created", "waiting", "fetching"}]
    BY DEF CacheInit
  <2>9. calls \in [Surfaces -> 0..2] /\ surface \in [Requests -> Surfaces]
    BY DEF CacheInit
  <2>10. opened \in BOOLEAN
    BY Zenon DEF CacheInit
  <2> QED BY <2>2, <2>3, <2>4, <2>5, <2>6, <2>7, <2>8, <2>9, <2>10 DEF CacheTypeOK
<1>4. VersionsInv /\ CallsInv
  BY <1>0, <1>1, <1>2 DEF CacheInit, VersionsInv, CallsInv
<1>5. HoldersInv /\ QueuedInv /\ JobsInv
  BY <1>1, <1>2 DEF CacheInit, HoldersInv, QueuedInv, JobsInv
<1>6. ReasonInv
  BY DEF CacheInit, ReasonInv
<1>7. BreakerInv
  BY <1>0 DEF CacheInit, BreakerInv
<1> QED BY <1>3, <1>4, <1>5, <1>6, <1>7 DEF CacheInv

-----------------------------------------------------------------------------
(* What an action does, in the terms of the invariant.  A request comes, with  *)
(* or without a fetch.                                                       *)
LEMMA ArrivalFacts ==
  ASSUME CacheInv, NEW k \in Surfaces, Arrival(k)
  PROVE  \E r \in Requests :
           /\ stage[r] \in {"returned", "failed"} /\ job[r] = "none"
           /\ surface' = [surface EXCEPT ![r] = k]
           /\ UNCHANGED <<cached, fresh, waiters, breakerVars, published>>
           /\ \/ /\ k \notin known /\ known' = known \cup {k} /\ opened /\ UNCHANGED job
                 /\ stage' = [stage EXCEPT ![r] = "failed"] /\ unlucky' = unlucky \cup {r}
                 /\ UNCHANGED <<holder, fetchVars>>
              \/ /\ k \notin known /\ known' = known \cup {k} /\ ~opened /\ UNCHANGED job
                 /\ stage' = [stage EXCEPT ![r] = "fetching"] /\ unlucky' = unlucky \ {r}
                 /\ FetchBegins(Request(r), k)
              \/ /\ k \in known /\ UNCHANGED <<known, holder, fetchVars>>
                 /\ job' = IF k \notin fresh /\ ~Locked(k) THEN [job EXCEPT ![r] = "created"] ELSE job
                 /\ stage' = [stage EXCEPT ![r] = IF cached[k] > 0 THEN "returned" ELSE "sleeping"]
                 /\ unlucky' = unlucky \ {r}
<1>1. PICK r \in Requests : FirstRequest(r, k) \/ NextRequest(r, k)
  BY DEF Arrival
<1>2. CASE FirstRequest(r, k)
  BY <1>2 DEF FirstRequest, Arrives
<1>3. CASE NextRequest(r, k)
  BY <1>3 DEF NextRequest, Arrives, entryVars, lockVars
<1> QED BY <1>1, <1>2, <1>3

(* A request that waited looks again.                                         *)
LEMMA RequestFacts ==
  ASSUME CacheInv, NEW r \in Requests, RequestRuns(r)
  PROVE  /\ UNCHANGED <<entryVars, holder, surface, job, fetchVars, breakerVars, published, unlucky>>
         /\ \/ /\ stage[r] = "sleeping" /\ job[r] # "created" /\ Available(surface[r])
               /\ stage' = [stage EXCEPT ![r] = Outcome(r)] /\ UNCHANGED waiters
            \/ /\ stage[r] = "sleeping" /\ job[r] # "created" /\ Enqueue(Request(r), surface[r])
               /\ stage' = [stage EXCEPT ![r] = "waiting"]
            \/ /\ stage[r] = "waiting" /\ TakesTurn(Request(r), surface[r])
               /\ stage' = [stage EXCEPT ![r] = Outcome(r)]
  BY DEF RequestRuns, SleepEnds, GetsLock, SleptEnough

(* An update comes to the lock, or waits for it.                              *)
LEMMA UpdateFacts ==
  ASSUME CacheInv, NEW r \in Requests, UpdateRuns(r)
  PROVE  /\ UNCHANGED <<known, surface, stage, breakerVars, published>>
         /\ \/ /\ job[r] = "created" /\ Available(surface[r]) /\ UNCHANGED waiters
               /\ UnderLock(r, surface[r])
            \/ /\ job[r] = "waiting" /\ TakesTurn(Update(r), surface[r])
               /\ UnderLock(r, surface[r])
            \/ /\ job[r] = "created" /\ Enqueue(Update(r), surface[r])
               /\ job' = [job EXCEPT ![r] = "waiting"]
               /\ UNCHANGED <<cached, fresh, holder, fetchVars, unlucky>>
  BY DEF UpdateRuns, UpdateStarts, UpdateGetsLock

(* A fetch ends, that of a request or that of an update.                      *)
LEMMA FetchFacts ==
  ASSUME CacheInv, NEW k \in Surfaces, FetchEnds(k)
  PROVE  \E r \in Requests, outcome \in {"returned", "failed"} :
           /\ Locked(k) /\ holder[k] \in {Request(r), Update(r)}
           /\ \/ holder[k] = Request(r) /\ stage' = [stage EXCEPT ![r] = outcome] /\ UNCHANGED job
              \/ holder[k] = Update(r) /\ job' = [job EXCEPT ![r] = "none"] /\ UNCHANGED stage
           /\ holder' = [holder EXCEPT ![k] = Free]
           /\ asked' = [asked EXCEPT ![k] = 0]
           /\ UNCHANGED <<known, waiters, surface, calls, published>>
           /\ \/ /\ outcome = "returned"
                 /\ \E v \in asked[k]..published : cached' = [cached EXCEPT ![k] = v]
                 /\ fresh' = fresh \cup {k}
                 /\ UNCHANGED unlucky
              \/ /\ outcome = "failed"
                 /\ UNCHANGED cached
                 /\ \/ holder[k] = Request(r) /\ UNCHANGED fresh
                    \/ holder[k] = Update(r) /\ fresh' = Extended(k)
                 /\ unlucky' = unlucky \cup Depending(k) \cup {r}
           /\ \/ /\ failures' = 0 /\ opened' = FALSE /\ burst' = 0
              \/ /\ outcome = "failed"
                 /\ failures' = Counted(failures) /\ opened' = (failures' >= Threshold)
                 /\ burst' = IF burst < Threshold + Cardinality(Surfaces) THEN burst + 1 ELSE burst
<1>1. Locked(k)
  BY DEF FetchEnds, FetchSucceeds, FetchFails, AnswerUnusable
<1>2. PICK r \in Requests : holder[k] = Request(r) \/ holder[k] = Update(r)
  BY <1>1, HolderFacts DEF CacheInv
<1>3. holder[k][2] = r /\ Request(r) # Update(r)
  BY <1>2, TaskFacts
<1>4. cached \in [Surfaces -> 0..MaxPublished]
  BY DEF CacheInv, CacheTypeOK
<1>5. CASE FetchSucceeds(k)
  <2>1. \/ holder[k] = Request(r) /\ stage' = [stage EXCEPT ![r] = "returned"] /\ UNCHANGED job
        \/ holder[k] = Update(r) /\ job' = [job EXCEPT ![r] = "none"] /\ UNCHANGED stage
    BY <1>2, <1>3, <1>5 DEF FetchSucceeds, TaskEnds
  <2> QED BY <1>1, <1>2, <1>5, <2>1 DEF FetchSucceeds
<1>6. CASE FetchFails(k) \/ AnswerUnusable(k)
  <2>1. Raises(k)
    BY <1>6 DEF FetchFails, AnswerUnusable
  <2>2. \/ holder[k] = Request(r) /\ stage' = [stage EXCEPT ![r] = "failed"] /\ UNCHANGED job
        \/ holder[k] = Update(r) /\ job' = [job EXCEPT ![r] = "none"] /\ UNCHANGED stage
    BY <1>2, <1>3, <2>1 DEF Raises, TaskEnds
  <2>3. UNCHANGED cached
    BY <1>4, <2>1 DEF Raises, ValueAfterError
  <2>4. \/ holder[k] = Request(r) /\ UNCHANGED fresh
        \/ holder[k] = Update(r) /\ fresh' = Extended(k)
    <3>1. CASE holder[k] = Update(holder[k][2]) /\ fresh' = Extended(k)
      BY <1>3, <3>1
    <3>2. CASE holder[k] = Request(holder[k][2]) /\ UNCHANGED <<cached, fresh>>
      BY <1>3, <3>2
    <3> QED BY <2>1, <3>1, <3>2 DEF Raises
  <2>5. /\ holder' = [holder EXCEPT ![k] = Free] /\ asked' = [asked EXCEPT ![k] = 0]
        /\ unlucky' = unlucky \cup Depending(k) \cup {r}
        /\ UNCHANGED <<known, waiters, surface, calls, published>>
    BY <1>3, <2>1 DEF Raises, Released
  <2>6. \/ /\ failures' = 0 /\ opened' = FALSE /\ burst' = 0
        \/ /\ failures' = Counted(failures) /\ opened' = (failures' >= Threshold)
           /\ burst' = IF burst < Threshold + Cardinality(Surfaces) THEN burst + 1 ELSE burst
    BY <1>6 DEF FetchFails, AnswerUnusable
  <2> QED BY <1>1, <1>2, <2>2, <2>3, <2>4, <2>5, <2>6
<1> QED BY <1>5, <1>6 DEF FetchEnds

-----------------------------------------------------------------------------
(* The types of the counters, which no two actions change alike.              *)
LEMMA Bounds ==
  ASSUME CacheInv
  PROVE  /\ MaxPublished \in Nat \ {0} /\ Threshold \in Nat \ {0}
         /\ IsFiniteSet(Surfaces) /\ Cardinality(Surfaces) \in Nat
         /\ failures \in 0..Threshold /\ burst \in 0..Threshold + Cardinality(Surfaces)
         /\ published \in 1..MaxPublished
  BY CorpusCacheAssumption, FS_CardinalityType DEF CorpusCacheAssumption, CacheInv, CacheTypeOK

(* A fetch begins under a free lock.                                          *)
LEMMA FetchBeginsTypes ==
  ASSUME CacheInv, NEW k \in Surfaces, NEW t \in Tasks, FetchBegins(t, k)
  PROVE  /\ holder' \in [Surfaces -> Tasks \cup {Free}]
         /\ asked' \in [Surfaces -> 0..MaxPublished]
         /\ calls' \in [Surfaces -> 0..2]
<1>1. /\ holder' = [holder EXCEPT ![k] = t] /\ asked' = [asked EXCEPT ![k] = published]
      /\ calls' = IF cached[k] > 0 /\ calls[k] < 2 THEN [calls EXCEPT ![k] = @ + 1] ELSE calls
  BY DEF FetchBegins
<1>2. published \in 0..MaxPublished
  BY Bounds
<1>3. calls' \in [Surfaces -> 0..2]
  <2>1. calls \in [Surfaces -> 0..2]
    BY DEF CacheInv, CacheTypeOK
  <2>2. CASE calls' = calls
    BY <2>1, <2>2
  <2>3. CASE calls[k] < 2 /\ calls' = [calls EXCEPT ![k] = @ + 1]
    BY <2>1, <2>3
  <2> QED BY <1>1, <2>2, <2>3
<1> QED BY <1>1, <1>2, <1>3 DEF CacheInv, CacheTypeOK

LEMMA QueueTypes ==
  ASSUME CacheTypeOK, NEW k \in Surfaces, NEW t \in Tasks, Enqueue(t, k) \/ TakesTurn(t, k)
  PROVE  waiters' \in [Surfaces -> Seq(Tasks)]
<1>1. waiters \in [Surfaces -> Seq(Tasks)]
  BY DEF CacheTypeOK
<1>2. CASE Enqueue(t, k)
  BY <1>1, <1>2 DEF Enqueue
<1>3. CASE TakesTurn(t, k)
  <2>1. Tail(waiters[k]) \in Seq(Tasks)
    BY <1>1, <1>3 DEF TakesTurn
  <2> QED BY <1>1, <1>3, <2>1 DEF TakesTurn
<1> QED BY <1>2, <1>3

LEMMA CacheTypes == CacheInv /\ [CacheNext]_cacheVars => CacheTypeOK'
<1> SUFFICES ASSUME CacheInv, [CacheNext]_cacheVars PROVE CacheTypeOK'
  OBVIOUS
<1>0. CacheTypeOK
  BY DEF CacheInv
<1>1. ASSUME NEW k \in Surfaces, Arrival(k) PROVE CacheTypeOK'
  <2>1. PICK r \in Requests :
           /\ stage[r] \in {"returned", "failed"} /\ job[r] = "none"
           /\ surface' = [surface EXCEPT ![r] = k]
           /\ UNCHANGED <<cached, fresh, waiters, breakerVars, published>>
           /\ known' = known \cup {k}
           /\ \/ job' = job
              \/ job' = [job EXCEPT ![r] = "created"]
           /\ \E s \in {"failed", "fetching", "returned", "sleeping"} : stage' = [stage EXCEPT ![r] = s]
           /\ unlucky' \in {unlucky \cup {r}, unlucky \ {r}}
           /\ UNCHANGED <<holder, fetchVars>> \/ FetchBegins(Request(r), k)
    <3> QED BY <1>1, ArrivalFacts
  <2>2. Request(r) \in Tasks
    BY DEF Tasks
  <2>3. /\ holder' \in [Surfaces -> Tasks \cup {Free}] /\ asked' \in [Surfaces -> 0..MaxPublished]
        /\ calls' \in [Surfaces -> 0..2]
    BY <1>0, <2>1, <2>2, FetchBeginsTypes DEF fetchVars, CacheTypeOK
  <2>4. unlucky' \subseteq Requests /\ job' \in [Requests -> {"none", "created", "waiting", "fetching"}]
    BY <1>0, <2>1 DEF CacheTypeOK
  <2>5. stage' \in [Requests -> {"fetching", "sleeping", "waiting", "returned", "failed"}]
    BY <1>0, <2>1 DEF CacheTypeOK
  <2>6. surface' \in [Requests -> Surfaces] /\ known' \subseteq Surfaces
    BY <1>0, <2>1 DEF CacheTypeOK
  <2>7. fresh' \subseteq {x \in known' : cached'[x] > 0}
    BY <1>0, <2>1 DEF CacheTypeOK
  <2> QED BY <1>0, <2>1, <2>3, <2>4, <2>5, <2>6, <2>7 DEF breakerVars, CacheTypeOK
<1>2. ASSUME NEW r \in Requests, RequestRuns(r) PROVE CacheTypeOK'
  <2>0. surface[r] \in Surfaces /\ Request(r) \in Tasks
    BY <1>0 DEF CacheTypeOK, Tasks
  <2>1. waiters' \in [Surfaces -> Seq(Tasks)]
    <3>1. UNCHANGED waiters \/ Enqueue(Request(r), surface[r]) \/ TakesTurn(Request(r), surface[r])
      BY <1>2, RequestFacts
    <3> QED BY <1>0, <2>0, <3>1, QueueTypes DEF CacheTypeOK
  <2>2. stage' \in [Requests -> {"fetching", "sleeping", "waiting", "returned", "failed"}]
    <3>1. Outcome(r) \in {"returned", "failed"}
      BY DEF Outcome
    <3>2. \E o \in {"returned", "failed", "waiting"} : stage' = [stage EXCEPT ![r] = o]
      BY <1>2, <3>1, RequestFacts
    <3> QED BY <1>0, <3>2 DEF CacheTypeOK
  <2>3. UNCHANGED <<entryVars, holder, surface, job, fetchVars, breakerVars, published, unlucky>>
    BY <1>2, RequestFacts
  <2> QED BY <1>0, <2>1, <2>2, <2>3 DEF CacheTypeOK, entryVars, fetchVars, breakerVars
<1>3. ASSUME NEW r \in Requests, UpdateRuns(r) PROVE CacheTypeOK'
  <2> DEFINE k == surface[r]
  <2>0. k \in Surfaces /\ Update(r) \in Tasks
    BY <1>0 DEF CacheTypeOK, Tasks
  <2>1. waiters' \in [Surfaces -> Seq(Tasks)]
    <3>1. UNCHANGED waiters \/ Enqueue(Update(r), k) \/ TakesTurn(Update(r), k)
      BY <1>3, UpdateFacts
    <3> HIDE DEF k
    <3> QED BY <1>0, <2>0, <3>1, QueueTypes DEF CacheTypeOK
  <2>2. /\ UNCHANGED <<known, surface, stage, breakerVars, published>>
        /\ \E j \in {"none", "waiting", "fetching"} : job' = [job EXCEPT ![r] = j]
        /\ UNCHANGED <<holder, fetchVars>> \/ FetchBegins(Update(r), k)
        /\ UNCHANGED unlucky \/ unlucky' = unlucky \cup Depending(k)
        /\ UNCHANGED fresh \/ fresh' = Extended(k)
        /\ UNCHANGED cached
    <3>1. [cached EXCEPT ![k] = ValueAfterError(k)] = cached
      BY <1>0, <2>0 DEF CacheTypeOK, ValueAfterError
    <3> QED BY <1>3, <3>1, UpdateFacts DEF UnderLock
  <2>3. k \in known
    BY <1>3, UpdateFacts DEF CacheInv, JobsInv
  <2> HIDE DEF k
  <2>4. /\ holder' \in [Surfaces -> Tasks \cup {Free}] /\ asked' \in [Surfaces -> 0..MaxPublished]
        /\ calls' \in [Surfaces -> 0..2]
    BY <1>0, <2>0, <2>2, FetchBeginsTypes DEF fetchVars, CacheTypeOK
  <2>5. unlucky' \subseteq Requests
    BY <1>0, <2>2 DEF CacheTypeOK, Depending
  <2>6. job' \in [Requests -> {"none", "created", "waiting", "fetching"}]
    BY <1>0, <2>2 DEF CacheTypeOK
  <2>7. fresh' \subseteq {x \in known : cached[x] > 0}
    BY <1>0, <2>2, <2>3 DEF CacheTypeOK, Extended
  <2> QED BY <1>0, <2>1, <2>2, <2>4, <2>5, <2>6, <2>7 DEF CacheTypeOK, breakerVars
<1>4. ASSUME NEW k \in Surfaces, FetchEnds(k) PROVE CacheTypeOK'
  <2>1. PICK r \in Requests, outcome \in {"returned", "failed"} :
           /\ Locked(k) /\ holder[k] \in {Request(r), Update(r)}
           /\ UNCHANGED job \/ job' = [job EXCEPT ![r] = "none"]
           /\ UNCHANGED stage \/ stage' = [stage EXCEPT ![r] = outcome]
           /\ holder' = [holder EXCEPT ![k] = Free]
           /\ asked' = [asked EXCEPT ![k] = 0]
           /\ UNCHANGED <<known, waiters, surface, calls, published>>
           /\ \/ /\ \E v \in asked[k]..published : cached' = [cached EXCEPT ![k] = v]
                 /\ fresh' = fresh \cup {k}
              \/ UNCHANGED cached /\ fresh' \in {fresh, Extended(k)}
           /\ unlucky' \in {unlucky, unlucky \cup Depending(k) \cup {r}}
           /\ \/ failures' = 0 /\ opened' = FALSE /\ burst' = 0
              \/ /\ failures' = Counted(failures) /\ opened' = (failures' >= Threshold)
                 /\ burst' = IF burst < Threshold + Cardinality(Surfaces) THEN burst + 1 ELSE burst
    <3> QED BY <1>4, FetchFacts
  <2>2. k \in known /\ asked[k] \in 1..published
    BY <2>1 DEF CacheInv, VersionsInv
  <2>3. failures' \in 0..Threshold /\ burst' \in 0..Threshold + Cardinality(Surfaces)
    BY <2>1, Bounds DEF Counted
  <2>4. opened' \in BOOLEAN
    <3>1. opened' = FALSE \/ opened' = (failures' >= Threshold)
      BY <2>1, Zenon
    <3>2. (failures' >= Threshold) \in BOOLEAN
      OBVIOUS
    <3> QED BY <3>1, <3>2, Zenon
  <2>5. cached' \in [Surfaces -> 0..MaxPublished] /\ fresh' \subseteq {x \in known : cached'[x] > 0}
    <3>1. CASE UNCHANGED cached /\ fresh' \in {fresh, Extended(k)}
      BY <1>0, <2>2, <3>1 DEF CacheTypeOK, Extended
    <3>2. ASSUME NEW v \in asked[k]..published, cached' = [cached EXCEPT ![k] = v], fresh' = fresh \cup {k}
          PROVE  cached' \in [Surfaces -> 0..MaxPublished] /\ fresh' \subseteq {x \in known : cached'[x] > 0}
      <4>1. v \in 1..MaxPublished
        BY <2>2, Bounds
      <4> QED BY <1>0, <2>2, <3>2, <4>1 DEF CacheTypeOK
    <3> QED BY <2>1, <3>1, <3>2
  <2>6. /\ holder' \in [Surfaces -> Tasks \cup {Free}] /\ asked' \in [Surfaces -> 0..MaxPublished]
        /\ unlucky' \subseteq Requests
    BY <1>0, <2>1, Bounds DEF CacheTypeOK, Depending
  <2>7. job' \in [Requests -> {"none", "created", "waiting", "fetching"}]
    BY <1>0, <2>1 DEF CacheTypeOK
  <2>8. stage' \in [Requests -> {"fetching", "sleeping", "waiting", "returned", "failed"}]
    BY <1>0, <2>1 DEF CacheTypeOK
  <2> QED BY <1>0, <2>1, <2>3, <2>4, <2>5, <2>6, <2>7, <2>8 DEF CacheTypeOK
<1>5. ASSUME NEW k \in Surfaces, Expire(k) PROVE CacheTypeOK'
  BY <1>0, <1>5 DEF Expire, CacheTypeOK, lockVars, breakerVars
<1>6. CASE RecoveryTimeout
  <2>1. opened' \in BOOLEAN
    BY <1>6, Zenon DEF RecoveryTimeout
  <2>2. burst' \in 0..Threshold + Cardinality(Surfaces)
    BY <1>6, Bounds DEF RecoveryTimeout
  <2>3. UNCHANGED <<entryVars, lockVars, surface, stage, job, fetchVars, failures, published, unlucky>>
    BY <1>6 DEF RecoveryTimeout
  <2> QED BY <1>0, <2>1, <2>2, <2>3 DEF CacheTypeOK, entryVars, lockVars, fetchVars
<1>7. CASE Publish
  BY <1>0, <1>7, Bounds DEF Publish, CacheTypeOK, entryVars, lockVars, fetchVars, breakerVars
<1>8. CASE UNCHANGED cacheVars
  BY <1>0, <1>8 DEF cacheVars, CacheTypeOK, entryVars, lockVars, fetchVars, breakerVars
<1> QED BY <1>1, <1>2, <1>3, <1>4, <1>5, <1>6, <1>7, <1>8 DEF CacheNext

-----------------------------------------------------------------------------
(* A fetch begins under a free lock for an entry that is not up to date.       *)
LEMMA FetchBeginsInv ==
  ASSUME CacheInv, NEW k \in Surfaces, NEW t \in Tasks, FetchBegins(t, k),
         ~Locked(k), k \notin fresh, known' = known \cup {k},
         \A r \in Requests : t = Request(r) => cached[k] = 0,
         UNCHANGED <<cached, fresh, published>>
  PROVE  VersionsInv' /\ CallsInv'
<1>0. CacheTypeOK /\ VersionsInv /\ CallsInv /\ published \in 1..MaxPublished /\ MaxPublished \in Nat
  BY Bounds DEF CacheInv
<1>1. t # Free
  BY TaskFacts DEF Tasks
<1>2. /\ holder' = [holder EXCEPT ![k] = t] /\ asked' = [asked EXCEPT ![k] = published]
      /\ calls' = IF cached[k] > 0 /\ calls[k] < 2 THEN [calls EXCEPT ![k] = @ + 1] ELSE calls
  BY DEF FetchBegins
<1>3. calls[k] = 0
  BY <1>0 DEF CallsInv
<1>4. holder'[k] = t /\ asked'[k] = published /\ \A x \in Surfaces \ {k} : holder'[x] = holder[x] /\ asked'[x] = asked[x]
  BY <1>0, <1>2 DEF CacheTypeOK
<1>5. /\ calls'[k] \in {0, 1} /\ (cached[k] = 0 => calls'[k] = 0)
      /\ \A x \in Surfaces \ {k} : calls'[x] = calls[x]
  BY <1>0, <1>2, <1>3 DEF CacheTypeOK
<1>6. \A x \in Surfaces : cached[x] \in Nat
  BY <1>0 DEF CacheTypeOK
<1>7. VersionsInv'
  BY <1>0, <1>1, <1>4, <1>6 DEF VersionsInv, Locked
<1>8. CallsInv'
  BY <1>0, <1>1, <1>4, <1>5 DEF CallsInv, Locked
<1> QED BY <1>7, <1>8

(* Only FetchBegins and the end of a fetch disturb the versions and the calls. *)
LEMMA CacheVersions == CacheInv /\ [CacheNext]_cacheVars => VersionsInv' /\ CallsInv'
<1> SUFFICES ASSUME CacheInv, [CacheNext]_cacheVars PROVE VersionsInv' /\ CallsInv'
  OBVIOUS
<1>0. CacheTypeOK /\ VersionsInv /\ CallsInv /\ published \in 1..MaxPublished /\ MaxPublished \in Nat
  BY Bounds DEF CacheInv
<1>1. ASSUME NEW k \in Surfaces, Arrival(k) PROVE VersionsInv' /\ CallsInv'
  <2>1. PICK r \in Requests :
           /\ UNCHANGED <<cached, fresh, published>> /\ known' = known \cup {k}
           /\ \/ UNCHANGED <<holder, fetchVars>>
              \/ k \notin known /\ FetchBegins(Request(r), k)
    BY <1>1, ArrivalFacts
  <2>2. CASE UNCHANGED <<holder, fetchVars>>
    BY <1>0, <2>1, <2>2 DEF VersionsInv, CallsInv, Locked, fetchVars
  <2>3. CASE k \notin known /\ FetchBegins(Request(r), k)
    <3>1. cached[k] = 0 /\ ~Locked(k) /\ k \notin fresh /\ Request(r) \in Tasks
      BY <1>0, <2>3 DEF VersionsInv, CacheTypeOK, Tasks
    <3> QED BY <2>1, <2>3, <3>1, FetchBeginsInv
  <2> QED BY <2>1, <2>2, <2>3
<1>2. ASSUME NEW r \in Requests, RequestRuns(r) PROVE VersionsInv' /\ CallsInv'
  BY <1>0, <1>2, RequestFacts DEF VersionsInv, CallsInv, Locked, entryVars, fetchVars
<1>3. ASSUME NEW r \in Requests, UpdateRuns(r) PROVE VersionsInv' /\ CallsInv'
  <2> DEFINE k == surface[r]
  <2>1. k \in Surfaces /\ Update(r) \in Tasks /\ \A x \in Requests : Update(r) # Request(x)
    BY <1>0, TaskFacts DEF CacheTypeOK, Tasks
  <2>2. k \in known
    BY <1>3, UpdateFacts DEF CacheInv, JobsInv
  <2>3. /\ UNCHANGED <<known, published>>
        /\ \/ UNCHANGED <<cached, fresh, holder, fetchVars>>
           \/ ~Locked(k) /\ UnderLock(r, k)
    BY <1>3, UpdateFacts DEF Available, TakesTurn
  <2>4. CASE UNCHANGED <<cached, fresh, holder, fetchVars>>
    BY <1>0, <2>3, <2>4 DEF VersionsInv, CallsInv, Locked, fetchVars
  <2>5. CASE /\ ~Locked(k) /\ fresh' = Extended(k) /\ UNCHANGED <<cached, holder, fetchVars>>
    <3>1. \A x \in Surfaces : x # k => (x \in fresh' <=> x \in fresh)
      BY <2>5 DEF Extended
    <3>2. calls[k] <= 1 /\ (cached[k] = 0 => calls[k] = 0) /\ (k \notin fresh' => calls[k] = 0)
      BY <1>0, <2>1, <2>5 DEF CallsInv, Extended
    <3> HIDE DEF k
    <3> QED BY <1>0, <2>1, <2>3, <2>5, <3>1, <3>2 DEF VersionsInv, CallsInv, Locked, fetchVars
  <2>6. CASE ~Locked(k) /\ ~UpToDate(k) /\ FetchBegins(Update(r), k) /\ UNCHANGED <<cached, fresh>>
    <3>1. k \notin fresh
      BY <1>0, <2>1, <2>6 DEF UpToDate, CacheTypeOK
    <3>2. known' = known \cup {k}
      BY <2>2, <2>3
    <3> HIDE DEF k
    <3> QED BY <2>1, <2>3, <2>6, <3>1, <3>2, FetchBeginsInv
  <2>7. [cached EXCEPT ![k] = ValueAfterError(k)] = cached
    BY <1>0, <2>1 DEF CacheTypeOK, ValueAfterError
  <2> HIDE DEF k
  <2> QED BY <2>3, <2>4, <2>5, <2>6, <2>7 DEF UnderLock
<1>4. ASSUME NEW k \in Surfaces, FetchEnds(k) PROVE VersionsInv' /\ CallsInv'
  <2>1. PICK r \in Requests, outcome \in {"returned", "failed"} :
           /\ Locked(k) /\ holder[k] \in {Request(r), Update(r)}
           /\ holder' = [holder EXCEPT ![k] = Free]
           /\ asked' = [asked EXCEPT ![k] = 0]
           /\ UNCHANGED <<known, calls, published>>
           /\ \/ /\ \E v \in asked[k]..published : cached' = [cached EXCEPT ![k] = v]
                 /\ fresh' = fresh \cup {k}
              \/ /\ UNCHANGED cached
                 /\ \/ holder[k] = Request(r) /\ UNCHANGED fresh
                    \/ holder[k] = Update(r) /\ fresh' = Extended(k)
    BY <1>4, FetchFacts
  <2>2. /\ ~Locked(k)' /\ \A x \in Surfaces \ {k} : holder'[x] = holder[x] /\ asked'[x] = asked[x]
        /\ \A x \in Requests : holder'[k] # Request(x)
    BY <1>0, <2>1, TaskFacts DEF CacheTypeOK, Locked
  <2>3. k \in known /\ k \notin fresh /\ asked[k] \in 1..published /\ calls[k] <= 1
        /\ \A x \in Requests : holder[k] = Request(x) => cached[k] = 0
    BY <1>0, <2>1 DEF VersionsInv, CallsInv
  <2>4. ASSUME NEW v \in asked[k]..published, cached' = [cached EXCEPT ![k] = v], fresh' = fresh \cup {k}
        PROVE  VersionsInv' /\ CallsInv'
    <3>1. v \in 1..published /\ cached'[k] = v /\ \A x \in Surfaces \ {k} : cached'[x] = cached[x]
      BY <1>0, <2>3, <2>4 DEF CacheTypeOK
    <3>2. VersionsInv'
      BY <1>0, <2>1, <2>2, <2>3, <2>4, <3>1 DEF VersionsInv, Locked
    <3>3. CallsInv'
      BY <1>0, <2>1, <2>2, <2>3, <2>4, <3>1 DEF CallsInv, Locked
    <3> QED BY <3>2, <3>3
  <2>5. CASE UNCHANGED <<cached, fresh>> /\ holder[k] = Request(r)
    BY <1>0, <2>1, <2>2, <2>3, <2>5 DEF VersionsInv, CallsInv, Locked
  <2>6. CASE UNCHANGED cached /\ fresh' = Extended(k) /\ holder[k] = Update(r)
    <3>1. \A x \in Surfaces \ {k} : x \in fresh' <=> x \in fresh
      BY <2>6 DEF Extended
    <3>2. k \notin fresh' => cached[k] = 0
      BY <1>0, <2>6 DEF CacheTypeOK, Extended
    <3> QED BY <1>0, <2>1, <2>2, <2>3, <2>6, <3>1, <3>2 DEF VersionsInv, CallsInv, Locked
  <2> QED BY <2>1, <2>4, <2>5, <2>6
<1>5. ASSUME NEW k \in Surfaces, Expire(k) PROVE VersionsInv' /\ CallsInv'
  <2>1. calls' = [calls EXCEPT ![k] = 0] /\ fresh' = fresh \ {k} /\ k \in fresh
        /\ UNCHANGED <<known, cached, holder, asked, published>>
    BY <1>5 DEF Expire, lockVars
  <2> QED BY <1>0, <2>1 DEF VersionsInv, CallsInv, Locked, CacheTypeOK
<1>6. CASE RecoveryTimeout
  BY <1>0, <1>6 DEF RecoveryTimeout, VersionsInv, CallsInv, Locked, entryVars, lockVars, fetchVars
<1>7. CASE Publish
  <2>1. \A x \in Surfaces : cached[x] \in Nat /\ asked[x] \in Nat
    BY <1>0 DEF CacheTypeOK
  <2> QED BY <1>0, <1>7, <2>1 DEF Publish, VersionsInv, CallsInv, Locked, entryVars, lockVars, fetchVars
<1>8. CASE UNCHANGED cacheVars
  BY <1>0, <1>8 DEF cacheVars, VersionsInv, CallsInv, Locked, entryVars, lockVars, fetchVars
<1> QED BY <1>1, <1>2, <1>3, <1>4, <1>5, <1>6, <1>7, <1>8 DEF CacheNext

-----------------------------------------------------------------------------
(* The queue of a lock grows at its end and shrinks at its head.              *)
LEMMA EnqueueFacts ==
  ASSUME CacheTypeOK, NEW k \in Surfaces, NEW t \in Tasks, Enqueue(t, k)
  PROVE  LET n == Len(waiters[k]) IN
         /\ n \in Nat /\ DOMAIN waiters[k] = 1..n /\ DOMAIN waiters'[k] = 1..n + 1
         /\ waiters'[k][n + 1] = t /\ \A i \in 1..n : waiters'[k][i] = waiters[k][i]
         /\ \A x \in Surfaces \ {k} : waiters'[x] = waiters[x]
<1>1. waiters \in [Surfaces -> Seq(Tasks)] /\ waiters[k] \in Seq(Tasks)
  BY DEF CacheTypeOK
<1>2. waiters'[k] = Append(waiters[k], t) /\ \A x \in Surfaces \ {k} : waiters'[x] = waiters[x]
  BY <1>1 DEF Enqueue
<1> QED BY <1>1, <1>2

LEMMA TakesTurnFacts ==
  ASSUME CacheTypeOK, NEW k \in Surfaces, NEW t \in Tasks, TakesTurn(t, k)
  PROVE  LET n == Len(waiters[k]) IN
         /\ n \in Nat \ {0} /\ DOMAIN waiters[k] = 1..n /\ DOMAIN waiters'[k] = 1..n - 1
         /\ waiters[k][1] = t /\ \A i \in 1..n - 1 : waiters'[k][i] = waiters[k][i + 1]
         /\ \A x \in Surfaces \ {k} : waiters'[x] = waiters[x]
<1>1. waiters \in [Surfaces -> Seq(Tasks)] /\ waiters[k] \in Seq(Tasks) /\ waiters[k] # <<>>
  BY DEF CacheTypeOK, TakesTurn
<1>2. /\ waiters'[k] = Tail(waiters[k]) /\ Head(waiters[k]) = t
      /\ \A x \in Surfaces \ {k} : waiters'[x] = waiters[x]
  BY <1>1 DEF TakesTurn
<1> QED BY <1>1, <1>2

(* The queue when a task has joined it, or left it.                           *)
LEMMA JoinsQueue ==
  ASSUME CacheInv, NEW k \in Surfaces, NEW t \in Tasks, Enqueue(t, k),
         \A i \in DOMAIN waiters[k] : waiters[k][i] # t,
         UNCHANGED surface,
         \A r \in Requests : t = Request(r) => stage'[r] = "waiting" /\ surface[r] = k,
         \A r \in Requests : t = Update(r) => job'[r] = "waiting" /\ surface[r] = k,
         \A r \in Requests : stage[r] = "waiting" => stage'[r] = "waiting",
         \A r \in Requests : job[r] = "waiting" => job'[r] = "waiting"
  PROVE  QueuedInv'
<1>1. SUFFICES ASSUME NEW x \in Surfaces, NEW i \in DOMAIN waiters'[x]
               PROVE  /\ \A r \in Requests :
                          /\ waiters'[x][i] = Request(r) => stage'[r] = "waiting" /\ surface'[r] = x
                          /\ waiters'[x][i] = Update(r) => job'[r] = "waiting" /\ surface'[r] = x
                      /\ \A j \in DOMAIN waiters'[x] : waiters'[x][i] = waiters'[x][j] => i = j
  BY DEF QueuedInv
<1>2. CacheTypeOK /\ QueuedInv
  BY DEF CacheInv
<1>3. CASE x # k
  BY <1>2, <1>3, EnqueueFacts DEF QueuedInv
<1>4. CASE x = k
  <2> DEFINE n == Len(waiters[k])
  <2>1. /\ n \in Nat /\ DOMAIN waiters[k] = 1..n /\ DOMAIN waiters'[k] = 1..n + 1
        /\ waiters'[k][n + 1] = t /\ \A j \in 1..n : waiters'[k][j] = waiters[k][j]
    BY <1>2, EnqueueFacts
  <2> HIDE DEF n
  <2> QED BY <1>2, <1>4, <2>1 DEF QueuedInv
<1> QED BY <1>3, <1>4

LEMMA LeavesQueue ==
  ASSUME CacheInv, NEW k \in Surfaces, NEW t \in Tasks, TakesTurn(t, k),
         UNCHANGED surface,
         \A r \in Requests : t # Request(r) /\ stage[r] = "waiting" => stage'[r] = "waiting",
         \A r \in Requests : t # Update(r) /\ job[r] = "waiting" => job'[r] = "waiting"
  PROVE  QueuedInv'
<1>1. SUFFICES ASSUME NEW x \in Surfaces, NEW i \in DOMAIN waiters'[x]
               PROVE  /\ \A r \in Requests :
                          /\ waiters'[x][i] = Request(r) => stage'[r] = "waiting" /\ surface'[r] = x
                          /\ waiters'[x][i] = Update(r) => job'[r] = "waiting" /\ surface'[r] = x
                      /\ \A j \in DOMAIN waiters'[x] : waiters'[x][i] = waiters'[x][j] => i = j
  BY DEF QueuedInv
<1>2. CacheTypeOK /\ QueuedInv
  BY DEF CacheInv
<1> DEFINE n == Len(waiters[k])
<1>3. /\ n \in Nat \ {0} /\ DOMAIN waiters[k] = 1..n /\ DOMAIN waiters'[k] = 1..n - 1
      /\ waiters[k][1] = t /\ \A j \in 1..n - 1 : waiters'[k][j] = waiters[k][j + 1]
      /\ \A y \in Surfaces \ {k} : waiters'[y] = waiters[y]
  BY <1>2, TakesTurnFacts
<1> HIDE DEF n
<1>4. CASE x # k
  <2>1. waiters'[x] = waiters[x]
    BY <1>3, <1>4
  <2>2. waiters[x][i] # t
    <3>1. PICK r \in Requests : t = Request(r) \/ t = Update(r)
      BY DEF Tasks
    <3>2. surface[r] = k
      BY <1>2, <1>3, <3>1 DEF QueuedInv
    <3> QED BY <1>2, <1>4, <2>1, <3>1, <3>2 DEF QueuedInv
  <2> QED BY <1>2, <2>1, <2>2 DEF QueuedInv
<1>5. CASE x = k
  <2>1. i \in 1..n - 1 /\ i + 1 \in 1..n /\ 1 \in 1..n /\ waiters'[x][i] = waiters[k][i + 1]
    BY <1>3, <1>5
  <2>2. waiters[k][i + 1] # t
    BY <1>2, <1>3, <2>1 DEF QueuedInv
  <2>3. \A r \in Requests :
          /\ waiters'[x][i] = Request(r) => stage'[r] = "waiting" /\ surface'[r] = x
          /\ waiters'[x][i] = Update(r) => job'[r] = "waiting" /\ surface'[r] = x
    BY <1>2, <1>3, <1>5, <2>1, <2>2 DEF QueuedInv
  <2>4. ASSUME NEW j \in DOMAIN waiters'[x], waiters'[x][i] = waiters'[x][j]
        PROVE  i = j
    <3>1. j \in 1..n - 1 /\ j + 1 \in 1..n /\ waiters'[x][j] = waiters[k][j + 1]
      BY <1>3, <1>5, <2>4
    <3>2. \A a, b \in 1..n : waiters[k][a] = waiters[k][b] => a = b
      BY <1>2, <1>3 DEF QueuedInv
    <3>3. i + 1 = j + 1
      BY <2>1, <2>4, <3>1, <3>2
    <3> QED BY <2>1, <3>1, <3>3
  <2> QED BY <2>3, <2>4
<1> QED BY <1>4, <1>5

-----------------------------------------------------------------------------
LEMMA CacheTasks == CacheInv /\ [CacheNext]_cacheVars => HoldersInv' /\ QueuedInv' /\ JobsInv'
<1> SUFFICES ASSUME CacheInv, [CacheNext]_cacheVars PROVE HoldersInv' /\ QueuedInv' /\ JobsInv'
  OBVIOUS
<1>0. CacheTypeOK /\ HoldersInv /\ QueuedInv /\ JobsInv
  BY DEF CacheInv
<1>1. ASSUME NEW k \in Surfaces, Arrival(k) PROVE HoldersInv' /\ QueuedInv' /\ JobsInv'
  <2>1. PICK r \in Requests :
           /\ stage[r] \in {"returned", "failed"} /\ job[r] = "none"
           /\ surface' = [surface EXCEPT ![r] = k]
           /\ UNCHANGED waiters /\ known' = known \cup {k}
           /\ \/ UNCHANGED job
              \/ job' = [job EXCEPT ![r] = "created"]
           /\ \/ /\ UNCHANGED <<holder, fetchVars>>
                 /\ \E s \in {"failed", "returned", "sleeping"} : stage' = [stage EXCEPT ![r] = s]
              \/ /\ FetchBegins(Request(r), k) /\ stage' = [stage EXCEPT ![r] = "fetching"]
    BY <1>1, ArrivalFacts
  <2>2. \A x \in Requests \ {r} : stage'[x] = stage[x] /\ job'[x] = job[x] /\ surface'[x] = surface[x]
    BY <1>0, <2>1 DEF CacheTypeOK
  <2>3. surface'[r] = k /\ stage'[r] # "waiting"
    BY <1>0, <2>1 DEF CacheTypeOK
  <2>4. \A x \in Surfaces : holder[x] # Request(r) /\ holder[x] # Update(r)
    BY <1>0, <2>1 DEF HoldersInv
  <2>5. HoldersInv'
    <3>1. CASE UNCHANGED holder
      BY <1>0, <2>2, <2>4, <3>1 DEF HoldersInv
    <3>2. CASE FetchBegins(Request(r), k) /\ stage' = [stage EXCEPT ![r] = "fetching"]
      <4>1. holder'[k] = Request(r) /\ \A x \in Surfaces \ {k} : holder'[x] = holder[x]
        BY <1>0, <3>2 DEF FetchBegins, CacheTypeOK
      <4>2. stage'[r] = "fetching"
        BY <1>0, <3>2 DEF CacheTypeOK
      <4> QED BY <1>0, <2>2, <2>3, <2>4, <4>1, <4>2, TaskFacts DEF HoldersInv
    <3> QED BY <2>1, <3>1, <3>2
  <2>6. QueuedInv'
    <3>1. \A x \in Surfaces : \A i \in DOMAIN waiters[x] : waiters[x][i] # Request(r) /\ waiters[x][i] # Update(r)
      BY <1>0, <2>1 DEF QueuedInv
    <3> QED BY <1>0, <2>1, <2>2, <3>1 DEF QueuedInv
  <2>7. JobsInv'
    BY <1>0, <2>1, <2>2, <2>3 DEF JobsInv
  <2> QED BY <2>5, <2>6, <2>7
<1>2. ASSUME NEW r \in Requests, RequestRuns(r) PROVE HoldersInv' /\ QueuedInv' /\ JobsInv'
  <2> DEFINE k == surface[r]
  <2>0. k \in Surfaces /\ Request(r) \in Tasks
    BY <1>0 DEF CacheTypeOK, Tasks
  <2>1. UNCHANGED <<known, holder, surface, job>>
    BY <1>2, RequestFacts DEF entryVars
  <2>2. /\ stage[r] \in {"sleeping", "waiting"}
        /\ stage'[r] = "waiting" => job[r] # "created"
        /\ \A x \in Requests \ {r} : stage'[x] = stage[x]
    <3>1. Outcome(r) # "waiting"
      BY DEF Outcome
    <3> QED BY <1>0, <1>2, <3>1, RequestFacts DEF CacheTypeOK
  <2>3. HoldersInv'
    BY <1>0, <2>1, <2>2 DEF HoldersInv
  <2>4. JobsInv'
    BY <1>0, <2>1, <2>2 DEF JobsInv
  <2>5. CASE stage[r] = "sleeping" /\ UNCHANGED waiters
    BY <1>0, <2>1, <2>2, <2>3, <2>4, <2>5 DEF QueuedInv
  <2>6. CASE stage[r] = "sleeping" /\ Enqueue(Request(r), k) /\ stage' = [stage EXCEPT ![r] = "waiting"]
    <3>1. \A i \in DOMAIN waiters[k] : waiters[k][i] # Request(r)
      BY <1>0, <2>0, <2>6 DEF QueuedInv
    <3>2. stage'[r] = "waiting"
      BY <1>0, <2>6 DEF CacheTypeOK
    <3>3. /\ \A x \in Requests : Request(r) = Request(x) => stage'[x] = "waiting" /\ surface[x] = k
          /\ \A x \in Requests : Request(r) # Update(x)
      BY <3>2, TaskFacts
    <3>4. \A x \in Requests : stage[x] = "waiting" => stage'[x] = "waiting"
      BY <2>2, <3>2
    <3> HIDE DEF k
    <3> QED BY <2>0, <2>1, <2>3, <2>4, <2>6, <3>1, <3>3, <3>4, JoinsQueue
  <2>7. CASE TakesTurn(Request(r), k)
    <3>1. /\ \A x \in Requests : Request(r) # Request(x) /\ stage[x] = "waiting" => stage'[x] = "waiting"
          /\ \A x \in Requests : Request(r) # Update(x) /\ job[x] = "waiting" => job'[x] = "waiting"
      BY <2>1, <2>2
    <3> HIDE DEF k
    <3> QED BY <2>0, <2>1, <2>3, <2>4, <2>7, <3>1, LeavesQueue
  <2>8. QueuedInv'
    BY <1>2, <2>5, <2>6, <2>7, RequestFacts
  <2> QED BY <2>3, <2>4, <2>8
<1>3. ASSUME NEW r \in Requests, UpdateRuns(r) PROVE HoldersInv' /\ QueuedInv' /\ JobsInv'
  <2> DEFINE k == surface[r]
  <2>0. k \in Surfaces /\ Update(r) \in Tasks
    BY <1>0 DEF CacheTypeOK, Tasks
  <2>1. UNCHANGED <<known, surface, stage>>
    BY <1>3, UpdateFacts
  <2>2. /\ job[r] \in {"created", "waiting"} /\ job'[r] # "created"
        /\ \A x \in Requests \ {r} : job'[x] = job[x]
    BY <1>0, <1>3, UpdateFacts DEF UnderLock, CacheTypeOK
  <2>3. HoldersInv'
    <3>1. \A x \in Surfaces : holder[x] # Update(r)
      BY <1>0, <2>2 DEF HoldersInv
    <3>2. CASE UNCHANGED holder
      BY <1>0, <2>1, <2>2, <3>1, <3>2 DEF HoldersInv
    <3>3. CASE FetchBegins(Update(r), k) /\ job' = [job EXCEPT ![r] = "fetching"]
      <4>1. holder'[k] = Update(r) /\ \A x \in Surfaces \ {k} : holder'[x] = holder[x]
        BY <1>0, <2>0, <3>3 DEF FetchBegins, CacheTypeOK
      <4>2. job'[r] = "fetching"
        BY <1>0, <3>3 DEF CacheTypeOK
      <4> HIDE DEF k
      <4>3. surface[r] = k
        BY DEF k
      <4> QED BY <1>0, <2>0, <2>1, <2>2, <3>1, <4>1, <4>2, <4>3, TaskFacts DEF HoldersInv
    <3> QED BY <1>3, <3>2, <3>3, UpdateFacts DEF UnderLock
  <2>4. JobsInv'
    BY <1>0, <2>1, <2>2 DEF JobsInv
  <2>5. CASE job[r] = "created" /\ UNCHANGED waiters
    BY <1>0, <2>1, <2>2, <2>3, <2>4, <2>5 DEF QueuedInv
  <2>6. CASE job[r] = "created" /\ Enqueue(Update(r), k) /\ job' = [job EXCEPT ![r] = "waiting"]
    <3>1. \A i \in DOMAIN waiters[k] : waiters[k][i] # Update(r)
      BY <1>0, <2>0, <2>6 DEF QueuedInv
    <3>2. job'[r] = "waiting"
      BY <1>0, <2>6 DEF CacheTypeOK
    <3>3. /\ \A x \in Requests : Update(r) = Update(x) => job'[x] = "waiting" /\ surface[x] = k
          /\ \A x \in Requests : Update(r) # Request(x)
      BY <3>2, TaskFacts
    <3>4. \A x \in Requests : job[x] = "waiting" => job'[x] = "waiting"
      BY <2>2, <3>2
    <3> HIDE DEF k
    <3> QED BY <2>0, <2>1, <2>3, <2>4, <2>6, <3>1, <3>3, <3>4, JoinsQueue
  <2>7. CASE TakesTurn(Update(r), k)
    <3>1. /\ \A x \in Requests : Update(r) # Update(x) /\ job[x] = "waiting" => job'[x] = "waiting"
          /\ \A x \in Requests : Update(r) # Request(x) /\ stage[x] = "waiting" => stage'[x] = "waiting"
      BY <2>1, <2>2
    <3> HIDE DEF k
    <3> QED BY <2>0, <2>1, <2>3, <2>4, <2>7, <3>1, LeavesQueue
  <2>8. QueuedInv'
    BY <1>3, <2>5, <2>6, <2>7, UpdateFacts
  <2> QED BY <2>3, <2>4, <2>8
<1>4. ASSUME NEW k \in Surfaces, FetchEnds(k) PROVE HoldersInv' /\ QueuedInv' /\ JobsInv'
  <2>1. PICK r \in Requests, outcome \in {"returned", "failed"} :
           /\ Locked(k)
           /\ \/ holder[k] = Request(r) /\ stage' = [stage EXCEPT ![r] = outcome] /\ UNCHANGED job
              \/ holder[k] = Update(r) /\ job' = [job EXCEPT ![r] = "none"] /\ UNCHANGED stage
           /\ holder' = [holder EXCEPT ![k] = Free]
           /\ UNCHANGED <<known, waiters, surface>>
    BY <1>4, FetchFacts
  <2>2. holder'[k] = Free /\ \A x \in Surfaces \ {k} : holder'[x] = holder[x]
    BY <1>0, <2>1 DEF CacheTypeOK
  <2>3. /\ \A x \in Requests \ {r} : stage'[x] = stage[x] /\ job'[x] = job[x]
        /\ \/ /\ holder[k] = Request(r) /\ stage[r] = "fetching" /\ surface[r] = k
              /\ stage'[r] \in {"returned", "failed"} /\ job'[r] = job[r]
           \/ /\ holder[k] = Update(r) /\ job[r] = "fetching" /\ surface[r] = k
              /\ job'[r] = "none" /\ stage'[r] = stage[r]
    BY <1>0, <2>1 DEF HoldersInv, CacheTypeOK
  <2>4. HoldersInv'
    BY <1>0, <2>1, <2>2, <2>3, TaskFacts DEF HoldersInv
  <2>5. QueuedInv' /\ JobsInv'
    BY <1>0, <2>1, <2>3 DEF QueuedInv, JobsInv
  <2> QED BY <2>4, <2>5
<1>5. CASE \/ RecoveryTimeout \/ Publish \/ UNCHANGED cacheVars
           \/ \E k \in Surfaces : Expire(k)
  <2>1. UNCHANGED <<known, lockVars, surface, stage, job>>
    BY <1>5 DEF RecoveryTimeout, Publish, cacheVars, Expire, entryVars
  <2> QED BY <1>0, <2>1 DEF HoldersInv, QueuedInv, JobsInv, lockVars
<1> QED BY <1>1, <1>2, <1>3, <1>4, <1>5 DEF CacheNext

-----------------------------------------------------------------------------
(* A queued update keeps its place ahead of a request, whoever joins the queue *)
(* and whichever request leaves it.                                          *)
LEMMA AheadJoins ==
  ASSUME CacheInv, NEW k \in Surfaces, NEW t \in Tasks, Enqueue(t, k),
         NEW r \in Requests, UpdateAhead(r), surface'[r] = surface[r]
  PROVE  UpdateAhead(r)'
<1>0. CacheTypeOK /\ surface[r] \in Surfaces
  BY DEF CacheInv, CacheTypeOK
<1>1. CASE surface[r] # k
  <2>1. waiters'[surface[r]] = waiters[surface[r]]
    BY <1>0, <1>1, EnqueueFacts
  <2> QED BY <2>1 DEF UpdateAhead
<1>2. CASE surface[r] = k
  <2> DEFINE n == Len(waiters[k])
  <2>1. /\ n \in Nat /\ DOMAIN waiters[k] = 1..n /\ DOMAIN waiters'[k] = 1..n + 1
        /\ waiters'[k][n + 1] = t /\ \A i \in 1..n : waiters'[k][i] = waiters[k][i]
    BY <1>0, EnqueueFacts
  <2> HIDE DEF n
  <2>2. PICK i \in 1..n : /\ \E x \in Requests : waiters[k][i] = Update(x)
                          /\ \A j \in 1..n : waiters[k][j] = Request(r) => i < j
    BY <1>2, <2>1 DEF UpdateAhead
  <2>3. \E x \in Requests : waiters'[k][i] = Update(x)
    BY <2>1, <2>2
  <2>4. \A j \in 1..n + 1 : waiters'[k][j] = Request(r) => i < j
    BY <2>1, <2>2
  <2> QED BY <1>2, <2>1, <2>3, <2>4 DEF UpdateAhead
<1> QED BY <1>1, <1>2

LEMMA AheadLeaves ==
  ASSUME CacheInv, NEW k \in Surfaces, NEW y \in Requests, TakesTurn(Request(y), k),
         NEW r \in Requests, UpdateAhead(r), surface'[r] = surface[r]
  PROVE  UpdateAhead(r)'
<1>0. CacheTypeOK /\ surface[r] \in Surfaces /\ Request(y) \in Tasks
  BY DEF CacheInv, CacheTypeOK, Tasks
<1> DEFINE n == Len(waiters[k])
<1>1. /\ n \in Nat \ {0} /\ DOMAIN waiters[k] = 1..n /\ DOMAIN waiters'[k] = 1..n - 1
      /\ waiters[k][1] = Request(y) /\ \A i \in 1..n - 1 : waiters'[k][i] = waiters[k][i + 1]
      /\ \A x \in Surfaces \ {k} : waiters'[x] = waiters[x]
  BY <1>0, TakesTurnFacts
<1> HIDE DEF n
<1>2. CASE surface[r] # k
  BY <1>0, <1>1, <1>2 DEF UpdateAhead
<1>3. CASE surface[r] = k
  <2>1. PICK i \in 1..n : /\ \E x \in Requests : waiters[k][i] = Update(x)
                          /\ \A j \in 1..n : waiters[k][j] = Request(r) => i < j
    BY <1>1, <1>3 DEF UpdateAhead
  <2>2. i # 1
    BY <1>1, <2>1, TaskFacts
  <2>3. i - 1 \in 1..n - 1 /\ waiters'[k][i - 1] = waiters[k][i]
    BY <1>1, <2>2
  <2>4. \A j \in 1..n - 1 : waiters'[k][j] = Request(r) => i - 1 < j
    <3> SUFFICES ASSUME NEW j \in 1..n - 1, waiters'[k][j] = Request(r) PROVE i - 1 < j
      OBVIOUS
    <3>1. j + 1 \in 1..n /\ waiters[k][j + 1] = Request(r)
      BY <1>1
    <3> QED BY <2>1, <3>1
  <2>5. \E x \in Requests : waiters'[k][i - 1] = Update(x)
    BY <2>1, <2>3
  <2> QED BY <1>1, <1>3, <2>3, <2>4, <2>5 DEF UpdateAhead
<1> QED BY <1>2, <1>3

(* A request does not fail unless a fetch did.                                *)
LEMMA CacheReasons == CacheInv /\ [CacheNext]_cacheVars => ReasonInv'
<1> SUFFICES ASSUME CacheInv, [CacheNext]_cacheVars,
                    NEW x \in Requests, x \notin unlucky'
             PROVE  /\ stage'[x] # "failed"
                    /\ stage'[x] \in {"sleeping", "waiting"} /\ cached'[surface'[x]] = 0 =>
                         Locked(surface[x])' \/ job'[x] = "created" \/ UpdateAhead(x)'
  BY DEF ReasonInv
<1> DEFINE Reason == /\ stage'[x] # "failed"
                     /\ stage'[x] \in {"sleeping", "waiting"} /\ cached'[surface'[x]] = 0 =>
                          Locked(surface[x])' \/ job'[x] = "created" \/ UpdateAhead(x)'
<1>0. /\ CacheTypeOK /\ VersionsInv /\ HoldersInv /\ QueuedInv /\ JobsInv
      /\ surface[x] \in Surfaces
      /\ x \notin unlucky =>
           /\ stage[x] # "failed"
           /\ stage[x] \in {"sleeping", "waiting"} /\ cached[surface[x]] = 0 =>
                Locked(surface[x]) \/ job[x] = "created" \/ UpdateAhead(x)
  BY DEF CacheInv, ReasonInv, CacheTypeOK
<1>1. ASSUME NEW k \in Surfaces, Arrival(k) PROVE Reason
  <2>1. PICK r \in Requests :
           /\ stage[r] \in {"returned", "failed"} /\ job[r] = "none"
           /\ surface' = [surface EXCEPT ![r] = k]
           /\ UNCHANGED <<cached, fresh, waiters, breakerVars, published>>
           /\ \/ /\ UNCHANGED job
                 /\ stage' = [stage EXCEPT ![r] = "failed"] /\ unlucky' = unlucky \cup {r}
                 /\ UNCHANGED <<holder, fetchVars>>
              \/ /\ UNCHANGED job
                 /\ stage' = [stage EXCEPT ![r] = "fetching"] /\ unlucky' = unlucky \ {r}
                 /\ FetchBegins(Request(r), k)
              \/ /\ UNCHANGED <<holder, fetchVars>>
                 /\ job' = IF k \notin fresh /\ ~Locked(k) THEN [job EXCEPT ![r] = "created"] ELSE job
                 /\ stage' = [stage EXCEPT ![r] = IF cached[k] > 0 THEN "returned" ELSE "sleeping"]
                 /\ unlucky' = unlucky \ {r}
    BY <1>1, ArrivalFacts
  <2>2. CASE x # r
    <3>1. stage'[x] = stage[x] /\ job'[x] = job[x] /\ surface'[x] = surface[x] /\ x \notin unlucky
      BY <1>0, <2>1, <2>2 DEF CacheTypeOK
    <3>2. Locked(surface[x]) => Locked(surface[x])'
      BY <1>0, <2>1, <3>1, TaskFacts DEF Locked, FetchBegins, CacheTypeOK
    <3>3. UpdateAhead(x) => UpdateAhead(x)'
      BY <2>1, <3>1 DEF UpdateAhead
    <3> QED BY <1>0, <2>1, <3>1, <3>2, <3>3
  <2>3. CASE x = r
    <3>1. surface'[r] = k
      BY <1>0, <2>1 DEF CacheTypeOK
    <3>2. CASE stage' = [stage EXCEPT ![r] = "fetching"]
      BY <1>0, <2>3, <3>2 DEF CacheTypeOK
    <3>3. CASE /\ UNCHANGED holder
               /\ job' = IF k \notin fresh /\ ~Locked(k) THEN [job EXCEPT ![r] = "created"] ELSE job
               /\ stage' = [stage EXCEPT ![r] = IF cached[k] > 0 THEN "returned" ELSE "sleeping"]
      <4>1. cached[k] = 0 => k \notin fresh
        BY <1>0 DEF CacheTypeOK
      <4>2. stage'[r] \in {"returned", "sleeping"} /\ (stage'[r] = "sleeping" => ~(cached[k] > 0))
        BY <1>0, <3>3 DEF CacheTypeOK
      <4>3. k \notin fresh /\ ~Locked(k) => job'[r] = "created"
        BY <1>0, <3>3 DEF CacheTypeOK
      <4>4. Locked(k) => Locked(surface[x])'
        BY <2>3, <3>1, <3>3 DEF Locked
      <4> QED BY <2>1, <2>3, <3>1, <4>1, <4>2, <4>3, <4>4
    <3> QED BY <2>1, <2>3, <3>2, <3>3
  <2> QED BY <2>2, <2>3
<1>2. ASSUME NEW r \in Requests, RequestRuns(r) PROVE Reason
  <2> DEFINE k == surface[r]
  <2>0. k \in Surfaces /\ Request(r) \in Tasks
    BY <1>0 DEF CacheTypeOK, Tasks
  <2>1. UNCHANGED <<cached, holder, surface, job, unlucky>>
    BY <1>2, RequestFacts DEF entryVars
  <2>2. UpdateAhead(x) => UpdateAhead(x)'
    <3>1. CASE UNCHANGED waiters
      BY <2>1, <3>1 DEF UpdateAhead
    <3>2. CASE Enqueue(Request(r), k)
      <4> HIDE DEF k
      <4> QED BY <2>0, <2>1, <3>2, AheadJoins
    <3>3. CASE TakesTurn(Request(r), k)
      <4> HIDE DEF k
      <4> QED BY <2>0, <2>1, <3>3, AheadLeaves
    <3> QED BY <1>2, <3>1, <3>2, <3>3, RequestFacts
  <2>3. CASE x # r
    <3>1. \E o : stage' = [stage EXCEPT ![r] = o]
      BY <1>2, RequestFacts
    <3>2. stage'[x] = stage[x]
      BY <1>0, <2>3, <3>1 DEF CacheTypeOK
    <3> QED BY <1>0, <2>1, <2>2, <3>2 DEF Locked
  <2>4. CASE x = r /\ Enqueue(Request(r), k) /\ stage' = [stage EXCEPT ![r] = "waiting"] /\ stage[r] = "sleeping"
    <3>1. stage'[x] = "waiting"
      BY <1>0, <2>4 DEF CacheTypeOK
    <3> QED BY <1>0, <2>1, <2>2, <2>4, <3>1 DEF Locked
  <2>5. CASE /\ x = r /\ stage' = [stage EXCEPT ![r] = Outcome(r)]
             /\ \/ stage[r] = "sleeping" /\ job[r] # "created" /\ Available(k)
                \/ stage[r] = "waiting" /\ TakesTurn(Request(r), k)
    <3>1. ~Locked(k) /\ job[r] # "created"
      BY <1>0, <2>5 DEF Available, TakesTurn, JobsInv
    <3>2. ~UpdateAhead(r)
      <4>1. CASE Available(k)
        BY <4>1 DEF Available, UpdateAhead
      <4>2. CASE TakesTurn(Request(r), k)
        <5>1. \A i \in DOMAIN waiters[k] : i \in Nat \ {0}
          BY <1>0, <2>0 DEF CacheTypeOK
        <5>2. 1 \in DOMAIN waiters[k] /\ waiters[k][1] = Request(r)
          <6> HIDE DEF k
          <6> QED BY <1>0, <2>0, <4>2, TakesTurnFacts
        <5> QED BY <5>1, <5>2 DEF UpdateAhead
      <4> QED BY <2>5, <4>1, <4>2
    <3>3. cached[k] # 0 /\ cached[k] \in Nat
      BY <1>0, <2>0, <2>1, <2>5, <3>1, <3>2 DEF CacheTypeOK
    <3>4. stage'[x] = "returned"
      BY <1>0, <2>5, <3>3 DEF Outcome, CacheTypeOK
    <3> QED BY <3>4
  <2> QED BY <1>2, <2>3, <2>4, <2>5, RequestFacts
<1>3. ASSUME NEW r \in Requests, UpdateRuns(r) PROVE Reason
  <2> DEFINE k == surface[r]
  <2>0. k \in Surfaces /\ Update(r) \in Tasks
    BY <1>0 DEF CacheTypeOK, Tasks
  <2>1. UNCHANGED <<surface, stage, cached>> /\ unlucky \subseteq unlucky'
    <3>1. [cached EXCEPT ![k] = ValueAfterError(k)] = cached
      BY <1>0, <2>0 DEF CacheTypeOK, ValueAfterError
    <3> QED BY <1>3, <3>1, UpdateFacts DEF UnderLock
  <2>2. SUFFICES ASSUME stage[x] \in {"sleeping", "waiting"}, cached[surface[x]] = 0
                 PROVE  Locked(surface[x])' \/ job'[x] = "created" \/ UpdateAhead(x)'
    BY <1>0, <2>1
  <2>3. Locked(surface[x]) \/ job[x] = "created" \/ UpdateAhead(x)
    BY <1>0, <2>1, <2>2
  <2>4. x # r => job'[x] = job[x]
    <3>1. \E j : job' = [job EXCEPT ![r] = j]
      BY <1>3, UpdateFacts DEF UnderLock
    <3> QED BY <1>0, <3>1 DEF CacheTypeOK
  <2>5. CASE job[r] = "created" /\ Enqueue(Update(r), k) /\ UNCHANGED holder
    <3>1. UpdateAhead(x) => UpdateAhead(x)'
      <4> HIDE DEF k
      <4> QED BY <2>0, <2>1, <2>5, AheadJoins
    <3>2. CASE x = r
      <4> DEFINE n == Len(waiters[k])
      <4>1. /\ n \in Nat /\ DOMAIN waiters[k] = 1..n /\ DOMAIN waiters'[k] = 1..n + 1
            /\ waiters'[k][n + 1] = Update(r) /\ \A i \in 1..n : waiters'[k][i] = waiters[k][i]
        <5> HIDE DEF k
        <5> QED BY <1>0, <2>0, <2>5, EnqueueFacts
      <4>2. stage[r] # "waiting"
        BY <1>0, <2>5 DEF JobsInv
      <4>3. \A i \in 1..n : waiters[k][i] # Request(r)
        BY <1>0, <2>0, <4>1, <4>2 DEF QueuedInv
      <4> HIDE DEF n
      <4>4. \A i \in 1..n + 1 : waiters'[k][i] # Request(r)
        <5> SUFFICES ASSUME NEW i \in 1..n + 1 PROVE waiters'[k][i] # Request(r)
          OBVIOUS
        <5>1. CASE i = n + 1
          BY <4>1, <5>1, TaskFacts
        <5>2. CASE i \in 1..n
          BY <4>1, <4>3, <5>2
        <5> QED BY <4>1, <5>1, <5>2
      <4>5. n + 1 \in DOMAIN waiters'[k] /\ \E y \in Requests : waiters'[k][n + 1] = Update(y)
        BY <4>1
      <4> QED BY <2>1, <3>2, <4>1, <4>4, <4>5 DEF UpdateAhead
    <3> QED BY <2>1, <2>3, <2>4, <2>5, <3>1, <3>2 DEF Locked
  <2>6. CASE surface[x] # k /\ UnderLock(r, k) /\ (UNCHANGED waiters \/ TakesTurn(Update(r), k))
    <3>1. waiters'[surface[x]] = waiters[surface[x]]
      BY <1>0, <2>0, <2>6, TakesTurnFacts
    <3>2. holder'[surface[x]] = holder[surface[x]]
      BY <1>0, <2>0, <2>6 DEF UnderLock, FetchBegins, CacheTypeOK
    <3>3. x # r
      BY <2>6
    <3> QED BY <2>1, <2>3, <2>4, <3>1, <3>2, <3>3 DEF Locked, UpdateAhead
  <2>7. CASE surface[x] = k /\ UnderLock(r, k)
    <3>1. ~UpToDate(k)
      BY <2>2, <2>7 DEF UpToDate
    <3>2. x \in Depending(k)
      BY <2>2, <2>7 DEF Depending
    <3>3. FetchBegins(Update(r), k)
      BY <2>7, <3>1, <3>2 DEF UnderLock
    <3>4. holder'[k] = Update(r)
      BY <1>0, <2>0, <3>3 DEF FetchBegins, CacheTypeOK
    <3> QED BY <2>1, <2>7, <3>4, TaskFacts DEF Locked
  <2> QED BY <1>3, <2>5, <2>6, <2>7, UpdateFacts
<1>4. ASSUME NEW k \in Surfaces, FetchEnds(k) PROVE Reason
  <2>1. PICK r \in Requests, outcome \in {"returned", "failed"} :
           /\ Locked(k)
           /\ \/ holder[k] = Request(r) /\ stage' = [stage EXCEPT ![r] = outcome] /\ UNCHANGED job
              \/ holder[k] = Update(r) /\ job' = [job EXCEPT ![r] = "none"] /\ UNCHANGED stage
           /\ holder' = [holder EXCEPT ![k] = Free]
           /\ UNCHANGED <<waiters, surface, published>>
           /\ \/ /\ outcome = "returned"
                 /\ \E v \in asked[k]..published : cached' = [cached EXCEPT ![k] = v]
                 /\ UNCHANGED unlucky
              \/ /\ outcome = "failed"
                 /\ UNCHANGED cached
                 /\ unlucky' = unlucky \cup Depending(k) \cup {r}
    BY <1>4, FetchFacts
  <2>2. x \notin unlucky
    BY <2>1
  <2>3. /\ x # r => stage'[x] = stage[x]
        /\ stage'[x] = stage[x] \/ (x = r /\ stage'[x] = outcome)
        /\ job[x] = "created" => job'[x] = "created"
    BY <1>0, <2>1 DEF HoldersInv, CacheTypeOK
  <2>4. surface[x] # k => Locked(surface[x])' = Locked(surface[x]) /\ cached'[surface[x]] = cached[surface[x]]
    BY <1>0, <2>1 DEF Locked, CacheTypeOK
  <2>5. UpdateAhead(x) => UpdateAhead(x)'
    BY <2>1 DEF UpdateAhead
  <2>6. stage'[x] # "failed"
    BY <1>0, <2>1, <2>2, <2>3
  <2>7. surface[x] = k /\ stage'[x] \in {"sleeping", "waiting"} => cached'[surface[x]] # 0
    <3> SUFFICES ASSUME surface[x] = k, stage'[x] \in {"sleeping", "waiting"} PROVE cached'[k] # 0
      OBVIOUS
    <3>1. x \in Depending(k)
      BY <2>1, <2>3 DEF Depending
    <3>2. asked[k] \in 1..published /\ published \in Nat
      BY <1>0, <2>1, HolderFacts DEF VersionsInv
    <3> QED BY <1>0, <2>1, <3>1, <3>2 DEF CacheTypeOK
  <2> QED BY <1>0, <2>1, <2>2, <2>3, <2>4, <2>5, <2>6, <2>7
<1>5. CASE \/ RecoveryTimeout \/ Publish \/ UNCHANGED cacheVars
           \/ \E k \in Surfaces : Expire(k)
  <2>1. UNCHANGED <<cached, lockVars, surface, stage, job, unlucky>>
    BY <1>5 DEF RecoveryTimeout, Publish, cacheVars, Expire, entryVars
  <2>2. UpdateAhead(x) => UpdateAhead(x)'
    BY <2>1 DEF UpdateAhead, lockVars
  <2> QED BY <1>0, <2>1, <2>2 DEF Locked, lockVars
<1> QED BY <1>1, <1>2, <1>3, <1>4, <1>5 DEF CacheNext

-----------------------------------------------------------------------------
(* A fetch that ends is one less in flight.                                   *)
LEMMA OneLess ==
  ASSUME CacheInv, NEW k \in Surfaces, Locked(k), holder' = [holder EXCEPT ![k] = Free]
  PROVE  /\ Cardinality(InFlight') = Cardinality(InFlight) - 1
         /\ Cardinality(InFlight) \in 1..Cardinality(Surfaces)
<1>0. IsFiniteSet(Surfaces) /\ holder \in [Surfaces -> Tasks \cup {Free}]
  BY Bounds DEF CacheInv, CacheTypeOK
<1>1. InFlight \subseteq Surfaces /\ k \in InFlight
  BY DEF InFlight
<1>2. IsFiniteSet(InFlight) /\ Cardinality(InFlight) \in 0..Cardinality(Surfaces)
  BY <1>0, <1>1, FS_Subset, FS_CardinalityType
<1>3. InFlight' = InFlight \ {k}
  BY <1>0 DEF InFlight, Locked
<1>4. Cardinality(InFlight) # 0
  BY <1>1, <1>2, FS_EmptySet
<1>5. Cardinality(InFlight') = Cardinality(InFlight) - 1
  BY <1>1, <1>2, <1>3, FS_RemoveElement
<1> QED BY <1>2, <1>4, <1>5

(* The breaker counts the failures while it is closed, and admits no fetch     *)
(* while it is open.                                                         *)
LEMMA CacheBreaker == CacheInv /\ [CacheNext]_cacheVars => BreakerInv'
<1> SUFFICES ASSUME CacheInv, [CacheNext]_cacheVars PROVE BreakerInv'
  OBVIOUS
<1>0. BreakerInv /\ CacheTypeOK
  BY DEF CacheInv
<1>1. ASSUME UNCHANGED breakerVars, UNCHANGED holder \/ ~opened
      PROVE  BreakerInv'
  <2>1. CASE UNCHANGED holder
    <3>1. InFlight' = InFlight
      BY <2>1 DEF InFlight, Locked
    <3> QED BY <1>0, <1>1, <3>1 DEF BreakerInv, breakerVars
  <2>2. CASE ~opened
    BY <1>0, <1>1, <2>2 DEF BreakerInv, breakerVars
  <2> QED BY <1>1, <2>1, <2>2
<1>2. ASSUME NEW k \in Surfaces, Arrival(k) PROVE BreakerInv'
  BY <1>1, <1>2, ArrivalFacts
<1>3. ASSUME NEW r \in Requests, RequestRuns(r) PROVE BreakerInv'
  BY <1>1, <1>3, RequestFacts
<1>4. ASSUME NEW r \in Requests, UpdateRuns(r) PROVE BreakerInv'
  BY <1>1, <1>4, UpdateFacts DEF UnderLock
<1>5. ASSUME NEW k \in Surfaces, FetchEnds(k) PROVE BreakerInv'
  <2>1. /\ Locked(k) /\ holder' = [holder EXCEPT ![k] = Free]
        /\ \/ failures' = 0 /\ opened' = FALSE /\ burst' = 0
           \/ /\ failures' = Counted(failures) /\ opened' = (failures' >= Threshold)
              /\ burst' = IF burst < Threshold + Cardinality(Surfaces) THEN burst + 1 ELSE burst
    BY <1>5, FetchFacts
  <2> DEFINE n == Cardinality(InFlight)
             m == Cardinality(Surfaces)
  <2>2. Cardinality(InFlight') = n - 1 /\ n \in 1..m /\ m \in Nat
    BY <2>1, OneLess, Bounds
  <2>3. /\ Threshold \in Nat \ {0} /\ failures \in 0..Threshold /\ burst \in Nat
    BY Bounds
  <2>4. /\ opened => failures = Threshold /\ burst + n < Threshold + m
        /\ ~opened => burst <= failures /\ burst < Threshold
    BY <1>0 DEF BreakerInv
  <2>5. /\ opened' => failures' = Threshold /\ burst' + (n - 1) < Threshold + m
        /\ ~opened' => burst' <= failures' /\ burst' < Threshold
    <3> HIDE DEF n, m
    <3>1. CASE failures' = 0 /\ opened' = FALSE /\ burst' = 0
      BY <2>3, <3>1
    <3>2. CASE /\ failures' = Counted(failures) /\ opened' = (failures' >= Threshold)
               /\ burst' = IF burst < Threshold + m THEN burst + 1 ELSE burst
      <4>1. failures' = IF failures < Threshold THEN failures + 1 ELSE failures
        BY <3>2 DEF Counted
      <4>2. burst < Threshold + m /\ burst' = burst + 1
        BY <2>2, <2>3, <2>4, <3>2
      <4>3. opened' <=> failures' >= Threshold
        BY <3>2
      <4> QED BY <2>2, <2>3, <2>4, <4>1, <4>2, <4>3
    <3> QED BY <2>1, <3>1, <3>2 DEF m
  <2> QED BY <2>2, <2>5 DEF BreakerInv
<1>6. CASE RecoveryTimeout
  <2>1. opened' = FALSE /\ burst' = 0 /\ failures' = failures
    BY <1>6 DEF RecoveryTimeout
  <2> QED BY <2>1, Bounds DEF BreakerInv
<1>7. CASE Publish \/ UNCHANGED cacheVars \/ \E k \in Surfaces : Expire(k)
  BY <1>1, <1>7 DEF Publish, cacheVars, Expire, lockVars
<1> QED BY <1>2, <1>3, <1>4, <1>5, <1>6, <1>7 DEF CacheNext

(* CacheInv is inductive, and with it the types of the module.                *)
THEOREM CacheInductive == CacheSpec => []CacheInv
<1>1. CacheInv /\ [CacheNext]_cacheVars => CacheInv'
  BY CacheTypes, CacheVersions, CacheTasks, CacheReasons, CacheBreaker DEF CacheInv
<1> QED BY <1>1, CacheInitInv, PTL DEF CacheSpec

(* Once the value of an entry has expired, the backend is called for it at     *)
(* most once before it expires again (_update_cache, caching.py 189-213).     *)
THEOREM CalledOnce == CacheSpec => []OneCallPerExpiry
<1>1. CacheInv => OneCallPerExpiry
  BY DEF CacheInv, CallsInv, OneCallPerExpiry
<1> QED BY <1>1, CacheInductive, PTL

(* A request fails only after a fetch for its surface failed, or was refused,  *)
(* since it arrived (_get_or_update_cache, caching.py 125-168).               *)
THEOREM FailsForAReason == CacheSpec => []FailedForAReason
<1>1. CacheInv => FailedForAReason
  BY DEF CacheInv, ReasonInv, FailedForAReason
<1> QED BY <1>1, CacheInductive, PTL

(* Between two recovery timeouts the backend fails fewer times than the        *)
(* threshold and the surfaces together (circuitbreaker.py 45-54).             *)
THEOREM NoHerd == CacheSpec => []HerdIsBounded
<1>1. CacheInv => HerdIsBounded
  <2> SUFFICES ASSUME CacheInv PROVE HerdIsBounded
    OBVIOUS
  <2>1. /\ Surfaces # {} /\ IsFiniteSet(Surfaces) /\ IsFiniteSet(InFlight)
    BY FS_Subset, CorpusCacheAssumption DEF InFlight, CorpusCacheAssumption
  <2>2. Cardinality(Surfaces) \in Nat \ {0} /\ Cardinality(InFlight) \in Nat
    BY <2>1, FS_CardinalityType, FS_EmptySet
  <2> QED BY <2>2, Bounds DEF CacheInv, BreakerInv, HerdIsBounded
<1> QED BY <1>1, CacheInductive, PTL

-----------------------------------------------------------------------------
(* What readers see is a feed of versions.                                   *)
LEMMA CacheFeedInit == CacheInit => CacheFeed!Init
  BY DEF CacheInit, CacheFeed!Init

LEMMA CacheFeedNext ==
  CacheInv /\ [CacheNext]_cacheVars => [CacheFeed!Next]_<<[k \in Surfaces |-> published], cached>>
<1> SUFFICES ASSUME CacheInv, [CacheNext]_cacheVars
             PROVE  [CacheFeed!Next]_<<[k \in Surfaces |-> published], cached>>
  OBVIOUS
<1>0. CacheTypeOK /\ VersionsInv
  BY DEF CacheInv
<1>1. CASE UNCHANGED <<published, cached>>
  BY <1>1
<1>2. CASE Publish
  <2>1. published' = published + 1 /\ cached' = cached
    BY <1>2 DEF Publish, entryVars
  <2> QED BY <2>1 DEF CacheFeed!Next, CacheFeed!Publish
<1>3. ASSUME NEW k \in Surfaces, FetchEnds(k) PROVE CacheFeed!Refresh \/ UNCHANGED <<published, cached>>
  <2>1. /\ Locked(k) /\ UNCHANGED published
        /\ \/ UNCHANGED cached
           \/ \E v \in asked[k]..published : cached' = [cached EXCEPT ![k] = v]
    BY <1>3, FetchFacts
  <2>2. ASSUME NEW v \in asked[k]..published, cached' = [cached EXCEPT ![k] = v]
        PROVE  CacheFeed!Refresh
    <3>1. /\ asked[k] \in Nat /\ cached[k] \in Nat /\ published \in Nat /\ cached[k] <= asked[k]
          /\ \A x \in Surfaces : cached[x] \in Nat /\ cached[x] <= published
      BY <1>0, <2>1, HolderFacts DEF VersionsInv
    <3>2. \A x \in Surfaces : cached'[x] \in cached[x]..published
      BY <1>0, <2>2, <3>1 DEF CacheTypeOK
    <3>3. DOMAIN cached' = Surfaces
      BY <1>0, <2>2 DEF CacheTypeOK
    <3> QED BY <2>1, <3>2, <3>3 DEF CacheFeed!Refresh
  <2> QED BY <2>1, <2>2
<1>4. ASSUME NEW r \in Requests, UpdateRuns(r) PROVE UNCHANGED <<published, cached>>
  <2>1. surface[r] \in Surfaces
    BY <1>0 DEF CacheTypeOK
  <2>2. [cached EXCEPT ![surface[r]] = ValueAfterError(surface[r])] = cached
    BY <1>0, <2>1 DEF CacheTypeOK, ValueAfterError
  <2> QED BY <1>4, <2>2, UpdateFacts DEF UnderLock
<1>5. CASE \/ RecoveryTimeout \/ UNCHANGED cacheVars
           \/ \E k \in Surfaces : Expire(k) \/ Arrival(k)
           \/ \E r \in Requests : RequestRuns(r)
  <2>1. ASSUME NEW k \in Surfaces, Arrival(k) PROVE UNCHANGED <<published, cached>>
    BY <2>1, ArrivalFacts
  <2>2. ASSUME NEW r \in Requests, RequestRuns(r) PROVE UNCHANGED <<published, cached>>
    BY <2>2, RequestFacts DEF entryVars
  <2>3. CASE RecoveryTimeout \/ UNCHANGED cacheVars \/ \E k \in Surfaces : Expire(k)
    BY <1>1, <2>3 DEF RecoveryTimeout, cacheVars, entryVars, Expire
  <2> QED BY <1>1, <1>5, <2>1, <2>2, <2>3
<1> QED BY <1>1, <1>2, <1>3, <1>4, <1>5 DEF CacheNext, CacheFeed!Next

(* Readers of a surface see versions that were published, never an older one   *)
(* than before, and never lose the one they have, whatever fails.            *)
THEOREM CacheImplementsFeed == CacheSpec => ImplementsFeed
<1> QED BY CacheFeedInit, CacheFeedNext, CacheInductive, PTL DEF CacheSpec, ImplementsFeed, CacheFeed!Spec

(* The entries, locks, tasks and counters of the corpus cache keep their types.*)
THEOREM CacheTypeCorrect == CacheSpec => []CacheTypeOK
<1>1. CacheInv => CacheTypeOK
  BY DEF CacheInv
<1> QED BY <1>1, CacheInductive, PTL
============================================================================
