--------------------------- MODULE MarsBackendProofs --------------------------
(***************************************************************************)
(* Proofs about MarsBackend, for every set of segments, any kinds of bodies    *)
(* and any number of versions and failures.                                  *)
(***************************************************************************)
EXTENDS MCMarsBackend, TLAPS

Types ==
    /\ version \in [Segments -> 1..MaxVersion] /\ kind \in [Segments -> Kinds]
    /\ pc \in {"initialize", "sleep", "fetch", "icons"}
    /\ task \in [Segments -> {"idle", "waiting", "answered", "done", "failed"}]
    /\ response \in [Segments -> Responses]
    /\ result \in [Segments -> 0..MaxVersion] /\ etags \in [Segments -> 0..MaxVersion]
    /\ index \in [Segments -> 0..MaxVersion]

TasksInFetch == pc = "sleep" => \A s \in Segments : task[s] = "idle"

(* What a task has received is at least as new as the index.                  *)
Newer ==
    \A s \in Segments :
        /\ index[s] <= version[s]
        /\ task[s] = "answered" /\ response[s].status = "ok" =>
               response[s].version \in index[s]..version[s]
        /\ result[s] # 0 => result[s] \in index[s]..version[s]
        /\ task[s] # "done" => result[s] = 0

Behind(s) == etags[s] <= index[s] \/ <<s, etags[s]>> \in unused

(* OnlyThrownAwayIsPinned, at every moment: or the version of the ETag is what *)
(* the task of the segment has returned.                                     *)
Vouched ==
    /\ \A s \in Segments : Behind(s) \/ (result[s] # 0 /\ etags[s] = result[s])
    /\ pc = "icons" => \A s \in Segments : Behind(s)

(* IndexComplete, of the indexes that no query reads yet too: what the fetch    *)
(* that waits for its icons has built is what its tasks returned.             *)
IconsInv ==
    /\ pc = "icons" => \A s \in Built : index[s] = result[s]
    /\ \A s \in Segments : index[s] # 0 =>
           \/ <<s, index[s]>> \in icons /\ terms[s] = index[s]
           \/ pc = "icons" /\ s \in Built

IndInv == Types /\ TasksInFetch /\ Newer /\ Vouched /\ IconsInv

-----------------------------------------------------------------------------
(* Nothing has been fetched.                                                 *)
LEMMA InitInv == Init => IndInv
<1> SUFFICES ASSUME Init PROVE IndInv
  OBVIOUS
<1> USE MarsAssumption DEF MarsAssumption, Init, MarsInit, NoVersion
<1>1. Types
  BY DEF Types, Responses
<1>2. TasksInFetch /\ Newer /\ Vouched /\ IconsInv
  BY DEF TasksInFetch, Newer, Vouched, Behind, IconsInv, Built
<1> QED BY <1>1, <1>2 DEF IndInv

(* MARS publishes.                                                           *)
LEMMA PublishInv ==
  ASSUME IndInv, NEW s \in Segments, Publish(s),
         UNCHANGED <<pollVars, taskVars, etags, dataVars, unused>>
  PROVE  IndInv'
<1> USE MarsAssumption DEF MarsAssumption, IndInv, Publish, pollVars, taskVars, dataVars
<1>1. Types' /\ \A x \in Segments : version[x] \in Nat /\ version'[x] \in Nat /\ version[x] <= version'[x]
  BY DEF Types
<1>2. TasksInFetch' /\ Vouched' /\ IconsInv'
  BY DEF TasksInFetch, Vouched, Behind, IconsInv, Built
<1>3. Newer'
  <2> SUFFICES ASSUME NEW x \in Segments
               PROVE  /\ index[x] <= version'[x]
                      /\ task[x] = "answered" /\ response[x].status = "ok" =>
                             response[x].version \in index[x]..version'[x]
                      /\ result[x] # 0 => result[x] \in index[x]..version'[x]
                      /\ task[x] # "done" => result[x] = 0
    BY DEF Newer
  <2>1. index[x] \in Nat /\ version[x] \in Nat /\ version'[x] \in Nat
        /\ version[x] <= version'[x]
    BY <1>1 DEF Types
  <2> QED BY <2>1 DEF Newer
<1> QED BY <1>1, <1>2, <1>3

(* A request is answered.                                                    *)
LEMMA GetInv ==
  ASSUME IndInv, NEW s \in Segments, Get(s)
  PROVE  IndInv'
<1>1. PICK r \in Responses :
          /\ Respond(s, etags[s], r)
          /\ response' = [response EXCEPT ![s] = r]
  BY DEF Get
<1>2. /\ Fetching /\ task[s] = "waiting" /\ task' = [task EXCEPT ![s] = "answered"]
      /\ UNCHANGED <<version, kind, pc, result, etags, index, icons, terms, unused>>
  BY <1>1 DEF Get, Respond, pollVars, dataVars, marsVars
<1>3. r.status = "ok" => r.version = version[s]
  BY <1>1 DEF Respond
<1>4. Types'
  BY <1>1, <1>2 DEF IndInv, Types
<1>5. TasksInFetch' /\ Vouched' /\ IconsInv'
  BY <1>2 DEF IndInv, TasksInFetch, Vouched, Behind, IconsInv, Fetching
<1>6. Newer'
  <2> SUFFICES ASSUME NEW x \in Segments
               PROVE  /\ index[x] <= version[x]
                      /\ task'[x] = "answered" /\ response'[x].status = "ok" =>
                             response'[x].version \in index[x]..version[x]
                      /\ result[x] # 0 => result[x] \in index[x]..version[x]
                      /\ task'[x] # "done" => result[x] = 0
    BY <1>2 DEF Newer
  <2>1. CASE x = s
    <3>1. response'[s] = r
      BY <1>1 DEF IndInv, Types
    <3>2. index[s] \in Nat /\ version[s] \in Nat /\ index[s] <= version[s]
      BY MarsAssumption DEF MarsAssumption, IndInv, Types, Newer
    <3> QED BY <1>2, <1>3, <2>1, <3>1, <3>2 DEF IndInv, Newer
  <2>2. CASE x # s
    BY <1>1, <1>2, <2>2 DEF IndInv, Types, Newer
  <2> QED BY <2>1, <2>2
<1> QED BY <1>4, <1>5, <1>6 DEF IndInv

(* The ETag is stored at once: its version is returned or thrown away.        *)
LEMMA GetSuggestionDataInv ==
  ASSUME IndInv, NEW s \in Segments, GetSuggestionData(s)
  PROVE  IndInv'
<1> DEFINE r == response[s]
           okay == r.status = "ok"
           usable == okay /\ r.kind \in {"good", "mistyped"}
           raises == r.status = "error" \/ (okay /\ r.kind = "malformed")
<1>1. /\ Fetching /\ task[s] = "answered"
      /\ task' = [task EXCEPT ![s] = IF raises THEN "failed" ELSE "done"]
      /\ result' = [result EXCEPT ![s] = IF usable THEN r.version ELSE 0]
      /\ etags' = IF okay /\ r.etag THEN [etags EXCEPT ![s] = r.version] ELSE etags
      /\ unused' = IF okay /\ ~usable THEN unused \cup {<<s, r.version>>} ELSE unused
      /\ UNCHANGED <<version, kind, pc, response, index, icons, terms>>
  BY DEF GetSuggestionData, marsVars, pollVars, dataVars
<1>2. okay => r.version \in index[s]..version[s] /\ r.version \in 1..MaxVersion
  BY <1>1, MarsAssumption DEF MarsAssumption, IndInv, Types, Responses, Newer
<1>3. result[s] = 0 /\ Behind(s)
  BY <1>1 DEF IndInv, Newer, Vouched
<1>4. raises => ~usable
  OBVIOUS
<1>5. usable => okay
  OBVIOUS
<1> HIDE DEF r, okay, usable, raises
<1>6. Types'
  BY <1>1, <1>2, <1>5, MarsAssumption DEF MarsAssumption, IndInv, Types
<1>7. TasksInFetch' /\ IconsInv'
  BY <1>1 DEF IndInv, TasksInFetch, IconsInv, Fetching
<1>8. Newer'
  BY <1>1, <1>2, <1>4, <1>5 DEF IndInv, Types, Newer
<1>9. Vouched'
  <2>1. ASSUME NEW x \in Segments
        PROVE  Behind(x)' \/ (result'[x] # 0 /\ etags'[x] = result'[x])
    <3>1. CASE x # s
      <4>1. etags'[x] = etags[x] /\ result'[x] = result[x]
        BY <1>1, <3>1 DEF IndInv, Types
      <4> QED BY <1>1, <4>1 DEF IndInv, Vouched, Behind
    <3>2. CASE x = s /\ ~(okay /\ r.etag)
      BY <1>1, <1>3, <3>2 DEF Behind
    <3>3. CASE x = s /\ okay /\ r.etag
      <4>1. etags'[s] = r.version
        BY <1>1, <3>3 DEF IndInv, Types
      <4>2. CASE usable
        <5>1. result'[s] = r.version
          BY <1>1, <4>2 DEF IndInv, Types
        <5>2. r.version # 0
          BY <1>2, <3>3
        <5> QED BY <3>3, <4>1, <5>1, <5>2
      <4>3. CASE ~usable
        BY <1>1, <3>3, <4>1, <4>3 DEF Behind
      <4> QED BY <4>2, <4>3
    <3> QED BY <3>1, <3>2, <3>3
  <2> QED BY <1>1, <2>1 DEF Vouched, Fetching
<1> QED BY <1>6, <1>7, <1>8, <1>9 DEF IndInv

(* What the siblings of a failed task returned is thrown away.                *)
LEMMA SegmentsFailInv ==
  ASSUME IndInv, SegmentsFail
  PROVE  IndInv'
<1>1. /\ unused' = unused \cup {<<s, result[s]>> : s \in {x \in Segments : result[x] # 0}}
      /\ pc' = "sleep" /\ task' = [s \in Segments |-> "idle"] /\ result' = NoVersion
      /\ UNCHANGED <<version, kind, response, etags, index, icons, terms>> /\ Fetching
  BY DEF SegmentsFail, marsVars, dataVars
<1>2. Types'
  BY <1>1, MarsAssumption DEF MarsAssumption, IndInv, Types, NoVersion
<1>3. TasksInFetch' /\ IconsInv' /\ Newer'
  BY <1>1 DEF IndInv, TasksInFetch, IconsInv, Newer, NoVersion, Fetching
<1>4. Vouched'
  <2>1. ASSUME NEW s \in Segments PROVE Behind(s)'
    <3>1. CASE Behind(s)
      BY <1>1, <3>1 DEF Behind
    <3>2. CASE result[s] # 0 /\ etags[s] = result[s]
      BY <1>1, <3>2 DEF Behind
    <3> QED BY <3>1, <3>2 DEF IndInv, Vouched
  <2> QED BY <1>1, <2>1 DEF Vouched
<1> QED BY <1>2, <1>3, <1>4 DEF IndInv

(* What the tasks returned is built, or thrown away.                         *)
LEMMA BuildIndexesInv ==
  ASSUME IndInv, BuildIndexes
  PROVE  IndInv' /\ \A s \in Segments : index'[s] \in index[s]..version[s]
<1> DEFINE built == Built
           skipped == {s \in Segments : result[s] # 0} \ built
<1>1. /\ index' = [s \in Segments |-> IF s \in built THEN result[s] ELSE index[s]]
      /\ unused' = unused \cup {<<s, result[s]>> : s \in skipped}
      /\ pc' = "icons"
      /\ UNCHANGED <<version, kind, task, response, result, etags>>
  BY DEF BuildIndexes, Rebuilt, marsVars, taskVars
<1>2. AllDone
  BY DEF BuildIndexes
<1>3. \A s \in Segments : /\ s \in built => result[s] # 0
                          /\ result[s] # 0 => s \in built \/ s \in skipped
  BY DEF Built
<1>9. Built' = built /\ built \subseteq Segments
  BY <1>1 DEF Built
<1> HIDE DEF built, skipped
<1>4. ASSUME NEW s \in Segments
      PROVE  /\ index'[s] \in index[s]..version[s] /\ index'[s] \in 0..MaxVersion
             /\ index'[s] <= version[s] /\ index[s] <= index'[s]
             /\ result[s] # 0 => result[s] \in index'[s]..version[s]
  <2>1. /\ version[s] \in Nat /\ index[s] \in 0..MaxVersion
        /\ result[s] \in 0..MaxVersion /\ MaxVersion \in Nat
    BY MarsAssumption DEF MarsAssumption, IndInv, Types
  <2>2. index[s] <= version[s] /\ (result[s] # 0 => result[s] \in index[s]..version[s])
    BY DEF IndInv, Newer
  <2>3. index'[s] = IF s \in built THEN result[s] ELSE index[s]
    BY <1>1
  <2> QED BY <1>3, <2>1, <2>2, <2>3
<1>5. Types'
  <2>1. index' \in [Segments -> 0..MaxVersion]
    BY <1>1, <1>4
  <2> QED BY <1>1, <2>1 DEF IndInv, Types
<1>6. TasksInFetch' /\ IconsInv'
  <2>1. icons' = icons /\ terms' = terms /\ pc # "icons"
    BY <1>2 DEF BuildIndexes, AllDone, Fetching
  <2> QED BY <1>1, <1>9, <2>1 DEF IndInv, TasksInFetch, IconsInv
<1>7. Newer'
  BY <1>1, <1>2, <1>4 DEF IndInv, Newer, AllDone
<1>8. Vouched'
  <2>1. ASSUME NEW s \in Segments PROVE Behind(s)'
    <3>0. etags[s] \in Nat /\ index[s] \in Nat /\ index'[s] \in Nat
      BY <1>4, MarsAssumption DEF MarsAssumption, IndInv, Types
    <3>1. CASE etags[s] <= index[s]
      BY <1>1, <1>4, <3>0, <3>1 DEF Behind
    <3>2. CASE <<s, etags[s]>> \in unused
      BY <1>1, <3>2 DEF Behind
    <3>3. CASE result[s] # 0 /\ etags[s] = result[s]
      <4>1. CASE s \in built
        BY <1>1, <3>0, <3>3, <4>1 DEF Behind
      <4>2. CASE s \in skipped
        BY <1>1, <3>3, <4>2 DEF Behind
      <4> QED BY <1>3, <3>3, <4>1, <4>2
    <3> QED BY <3>1, <3>2, <3>3 DEF IndInv, Vouched, Behind
  <2> QED BY <2>1 DEF Vouched
<1> QED BY <1>4, <1>5, <1>6, <1>7, <1>8 DEF IndInv

(* A fetch ends without a failure.                                           *)
LEMMA FetchEndsInv ==
  ASSUME IndInv, CachedContent \/ IconsProcessed
  PROVE  IndInv'
<1>1. /\ pc' = "sleep" /\ task' = [s \in Segments |-> "idle"] /\ result' = NoVersion
      /\ UNCHANGED <<version, kind, response, etags, index, unused>>
      /\ terms' = index
  BY DEF CachedContent, IconsProcessed, marsVars
<1>2. \A s \in Segments : index[s] # 0 => <<s, index[s]>> \in icons'
  <2>1. CASE CachedContent
    BY <2>1 DEF CachedContent, AllDone, Fetching, IndInv, IconsInv
  <2>2. CASE IconsProcessed
    <3>1. icons' = icons \cup {<<s, result[s]>> : s \in Built} /\ pc = "icons"
      BY <2>2 DEF IconsProcessed, IconsUpdated
    <3> QED BY <3>1 DEF IndInv, IconsInv
  <2> QED BY <2>1, <2>2
<1>3. \A s \in Segments : Behind(s)
  <2>1. CASE CachedContent
    BY <2>1 DEF CachedContent, NothingNew, IndInv, Vouched
  <2>2. CASE IconsProcessed
    BY <2>2 DEF IconsProcessed, IndInv, Vouched
  <2> QED BY <2>1, <2>2
<1>4. Types'
  BY <1>1, MarsAssumption DEF MarsAssumption, IndInv, Types, NoVersion
<1>5. TasksInFetch' /\ IconsInv' /\ Newer'
  BY <1>1, <1>2 DEF IndInv, TasksInFetch, IconsInv, Newer, NoVersion
<1>6. Vouched'
  BY <1>1, <1>3 DEF Vouched, Behind
<1> QED BY <1>4, <1>5, <1>6 DEF IndInv

(* The steps of the cron job that touch no data.                             *)
LEMMA CronInv ==
  ASSUME IndInv, Expire \/ Tick
  PROVE  IndInv'
<1> USE DEF IndInv, taskVars, dataVars, marsVars, IconsInv, Built
<1>1. CASE Expire
  BY <1>1 DEF Expire, Types, TasksInFetch, Newer, Vouched, Behind
<1>2. CASE Tick
  <2>1. Types' /\ TasksInFetch' /\ Vouched' /\ IconsInv'
    BY <1>2 DEF Tick, Types, TasksInFetch, Vouched, Behind
  <2>2. Newer'
    <3>1. \A s \in Segments : result[s] = 0
      BY <1>2 DEF Tick, TasksInFetch, Newer
    <3> QED BY <1>2, <3>1 DEF Tick, Newer
  <2> QED BY <2>1, <2>2
<1> QED BY <1>1, <1>2

-----------------------------------------------------------------------------
(* IndInv is an invariant of the AMP provider.                               *)
THEOREM Inductive == Spec => []IndInv
<1>1. ASSUME IndInv, [Next]_vars PROVE IndInv'
  <2>1. CASE UNCHANGED vars
    BY <1>1, <2>1 DEF vars, marsVars, pollVars, taskVars, dataVars, IndInv, Types, TasksInFetch,
       Newer, Vouched, Behind, IconsInv, Built
  <2>2. CASE Next
    BY <1>1, <2>2, PublishInv, GetInv, GetSuggestionDataInv, SegmentsFailInv, BuildIndexesInv,
       FetchEndsInv, CronInv DEF Next
  <2> QED BY <1>1, <2>1, <2>2
<1> QED BY <1>1, InitInv, PTL DEF Spec

(* A query meets an index without its icons, or ahead of the normalization    *)
(* terms, only in the wait for icons of the fetch that has just rebuilt it     *)
(* (fetch, 133-172, and the provider's _fetch, 214-229).                      *)
THEOREM Complete == Spec => []IndexComplete
<1>1. IndInv => IndexComplete
  BY DEF IndInv, IconsInv, IndexComplete, Served, NoVersion
<1> QED BY <1>1, Inductive, PTL

(* Only a version that was thrown away leaves a segment behind its ETag       *)
(* (get_suggestion_data, 266-268).                                           *)
THEOREM ThrownAway == Spec => []OnlyThrownAwayIsPinned
<1>1. IndInv => OnlyThrownAwayIsPinned
  <2> SUFFICES ASSUME IndInv, pc = "sleep", NEW s \in Segments PROVE Behind(s)
    BY DEF OnlyThrownAwayIsPinned, Behind
  <2>1. result[s] = 0
    BY DEF IndInv, TasksInFetch, Newer
  <2> QED BY <2>1 DEF IndInv, Vouched
<1> QED BY <1>1, Inductive, PTL

(* What queries read implements VersionedFeed: a fetch that fails halfway or   *)
(* rebuilds some segments only takes none of them back.                       *)
THEOREM Feeds == Spec => ImplementsFeed
<1>1. Init => Feed!Init
  BY DEF Init, MarsInit, NoVersion, Served, Feed!Init
<1>2. ASSUME IndInv, [Next]_vars PROVE [Feed!Next]_<<version, Served>>
  <2>1. CASE \E s \in Segments : Publish(s) /\ UNCHANGED <<pollVars, taskVars, etags, dataVars, unused>>
    <3>1. Served' = Served
      BY <2>1 DEF dataVars, Served
    <3> QED BY <1>2, <2>1, <3>1 DEF IndInv, Types, Publish, Feed!Next, Feed!Publish
  <2>2. CASE BuildIndexes \/ CachedContent \/ IconsProcessed
    <3>1. \A s \in Segments : index'[s] \in index[s]..version[s]
      <4>1. CASE BuildIndexes
        BY <1>2, <4>1, BuildIndexesInv
      <4>2. CASE CachedContent \/ IconsProcessed
        <5>1. index' = index
          BY <4>2 DEF CachedContent, IconsProcessed
        <5>2. \A s \in Segments : index[s] \in Nat /\ version[s] \in Nat /\ index[s] <= version[s]
          BY <1>2, MarsAssumption DEF MarsAssumption, IndInv, Types, Newer
        <5> QED BY <5>1, <5>2
      <4> QED BY <2>2, <4>1, <4>2
    <3>2. DOMAIN index' = Segments /\ version' = version /\ (shared => shared')
      BY <1>2, <2>2 DEF BuildIndexes, CachedContent, IconsProcessed, Rebuilt, marsVars, IndInv, Types
    <3>3. \A s \in Segments : index[s] \in Nat /\ index'[s] \in Nat /\ version[s] \in Nat
      BY <1>2, <3>1, MarsAssumption DEF MarsAssumption, IndInv, Types
    <3>4. ASSUME NEW s \in Segments PROVE Served'[s] \in Served[s]..version[s]
      <4>1. /\ Served[s] = IF shared THEN index[s] ELSE 0
            /\ Served'[s] = IF shared' THEN index'[s] ELSE 0
        BY DEF Served, NoVersion
      <4>2. CASE shared
        <5>1. Served[s] = index[s] /\ Served'[s] = index'[s]
          BY <3>2, <4>1, <4>2
        <5> QED BY <3>1, <5>1
      <4>3. CASE ~shared
        <5>1. Served[s] = 0 /\ Served'[s] \in {index'[s], 0}
          BY <4>1, <4>3
        <5>2. 0 \in 0..version[s] /\ index'[s] \in 0..version[s]
          BY <3>1, <3>3
        <5> QED BY <5>1, <5>2
      <4> QED BY <4>2, <4>3
    <3>5. DOMAIN Served' = Segments
      BY <3>2 DEF Served, NoVersion
    <3> QED BY <3>2, <3>4, <3>5 DEF Feed!Next, Feed!Refresh
  <2>3. CASE Expire \/ Tick \/ SegmentsFail \/ UNCHANGED vars
    BY <2>3 DEF Expire, Tick, SegmentsFail, vars, marsVars, dataVars, Served
  <2>4. CASE \E s \in Segments : Get(s) \/ GetSuggestionData(s)
    BY <2>4 DEF Get, GetSuggestionData, Respond, marsVars, dataVars, Served
  <2> QED BY <1>2, <2>1, <2>2, <2>3, <2>4 DEF Next
<1> QED BY <1>1, <1>2, Inductive, PTL DEF Spec, ImplementsFeed, Feed!Spec
=============================================================================
