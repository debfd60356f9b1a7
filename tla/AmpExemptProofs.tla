---------------------------- MODULE AmpExemptProofs ---------------------------
(***************************************************************************)
(* Proofs about AmpExempt, for every set of segments, any kinds of bodies and *)
(* any number of versions and failures.                                      *)
(***************************************************************************)
EXTENDS MCAmpExempt, TLAPS

Okay == [status : {"ok"}, version : 1..MaxVersion, kind : Kinds, etag : BOOLEAN]

Types ==
    /\ version \in [Segments -> 1..MaxVersion] /\ kind \in [Segments -> Kinds]
    /\ pc \in {"initialize", "sleep", "fetch", "stopped"}
    /\ task \in [Segments -> {"idle", "waiting", "answered", "done"}]
    /\ response \in [Segments -> Responses]
    /\ result \in [Segments -> 0..MaxVersion] /\ etags \in [Segments -> 0..MaxVersion]
    /\ segment_keywords \in [Segments -> 0..MaxVersion]

(* Tasks run only inside a fetch.                                            *)
TasksInFetch == ~Fetching => \A s \in Segments : task[s] = "idle"

(* What a task has received is at least as new as what is in use.             *)
Newer ==
    \A s \in Segments :
        /\ segment_keywords[s] <= version[s]
        /\ task[s] = "answered" /\ response[s].status = "ok" =>
               response[s].version \in segment_keywords[s]..version[s]
        /\ result[s] # 0 => result[s] \in segment_keywords[s]..version[s]
        /\ task[s] # "done" => result[s] = 0

(* The ETag of a segment is that of keywords in use, or of those that its task *)
(* is about to return.                                                       *)
Vouched ==
    pc # "stopped" => \A s \in Segments :
        etags[s] <= IF result[s] # 0 THEN result[s] ELSE segment_keywords[s]

IndInv == Types /\ keywords = segment_keywords /\ TasksInFetch /\ Newer /\ Vouched

-----------------------------------------------------------------------------
(* Nothing has been fetched.                                                 *)
LEMMA InitInv == Init => IndInv
<1> SUFFICES ASSUME Init PROVE IndInv
  OBVIOUS
<1> USE MarsAssumption DEF MarsAssumption, Init, MarsInit, NoVersion
<1>1. Types
  BY DEF Types, Responses
<1>2. TasksInFetch /\ Newer /\ Vouched
  BY DEF TasksInFetch, Newer, Vouched, Fetching
<1> QED BY <1>1, <1>2 DEF IndInv

(* MARS publishes, and time passes.                                          *)
LEMMA PublishInv ==
  ASSUME IndInv, NEW s \in Segments, Publish(s), UNCHANGED <<pollVars, taskVars, dataVars>>
  PROVE  IndInv'
<1> USE MarsAssumption DEF MarsAssumption, IndInv, Publish, pollVars, taskVars, dataVars
<1>1. Types' /\ \A x \in Segments : version[x] \in Nat /\ version'[x] \in Nat /\ version[x] <= version'[x]
  BY DEF Types
<1>2. TasksInFetch' /\ Vouched'
  BY DEF TasksInFetch, Vouched, Fetching
<1>3. Newer'
  <2> SUFFICES ASSUME NEW x \in Segments
               PROVE  /\ segment_keywords[x] <= version'[x]
                      /\ task[x] = "answered" /\ response[x].status = "ok" =>
                             response[x].version \in segment_keywords[x]..version'[x]
                      /\ result[x] # 0 => result[x] \in segment_keywords[x]..version'[x]
                      /\ task[x] # "done" => result[x] = 0
    BY DEF Newer
  <2>1. segment_keywords[x] \in Nat /\ version[x] \in Nat /\ version'[x] \in Nat
        /\ version[x] <= version'[x]
    BY <1>1 DEF Types
  <2> QED BY <2>1 DEF Newer
<1> QED BY <1>1, <1>2, <1>3

(* A request is answered.                                                    *)
LEMMA GetInv ==
  ASSUME IndInv, NEW s \in Segments, Get(s)
  PROVE  IndInv'
<1>1. PICK r \in Responses :
          /\ Respond(s, etags[s], r)
          /\ response' = [response EXCEPT ![s] = r]
  BY DEF Get
<1>2. /\ Fetching /\ task[s] = "waiting" /\ task' = [task EXCEPT ![s] = "answered"]
      /\ UNCHANGED <<version, kind, pc, result, errored, etags, segment_keywords, keywords>>
  BY <1>1 DEF Get, Respond, pollVars, dataVars, marsVars
<1>3. r.status = "ok" => r.version = version[s]
  BY <1>1 DEF Respond
<1>4. Types'
  BY <1>1, <1>2 DEF IndInv, Types
<1>5. TasksInFetch' /\ Vouched'
  BY <1>2 DEF IndInv, TasksInFetch, Vouched, Fetching
<1>6. Newer'
  <2> SUFFICES ASSUME NEW x \in Segments
               PROVE  /\ segment_keywords[x] <= version[x]
                      /\ task'[x] = "answered" /\ response'[x].status = "ok" =>
                             response'[x].version \in segment_keywords[x]..version[x]
                      /\ result[x] # 0 => result[x] \in segment_keywords[x]..version[x]
                      /\ task'[x] # "done" => result[x] = 0
    BY <1>2 DEF Newer
  <2>1. CASE x = s
    <3>1. response'[s] = r
      BY <1>1 DEF IndInv, Types
    <3>2. segment_keywords[s] \in Nat /\ version[s] \in Nat /\ segment_keywords[s] <= version[s]
      BY MarsAssumption DEF MarsAssumption, IndInv, Types, Newer
    <3> QED BY <1>2, <1>3, <2>1, <3>1, <3>2 DEF IndInv, Newer
  <2>2. CASE x # s
    BY <1>1, <1>2, <2>2 DEF IndInv, Types, Newer
  <2> QED BY <2>1, <2>2
<1> QED BY <1>2, <1>4, <1>5, <1>6 DEF IndInv

(* The ETag is stored together with what it vouches for.                      *)
LEMMA FetchSegmentInv ==
  ASSUME IndInv, NEW s \in Segments, FetchSegment(s)
  PROVE  IndInv'
<1> DEFINE r == response[s]
           used == r.status = "ok" /\ r.kind = "good"
<1>1. /\ Fetching /\ task[s] = "answered" /\ task' = [task EXCEPT ![s] = "done"]
      /\ result' = [result EXCEPT ![s] = IF used THEN r.version ELSE 0]
      /\ etags' = IF used /\ r.etag THEN [etags EXCEPT ![s] = r.version] ELSE etags
      /\ UNCHANGED <<version, kind, pc, response, segment_keywords, keywords>>
  BY DEF FetchSegment, Tagged, marsVars, pollVars
<1>2. used => r.version \in segment_keywords[s]..version[s]
  BY <1>1 DEF IndInv, Newer
<1>3. used => r.version \in 1..MaxVersion
  BY MarsAssumption DEF MarsAssumption, IndInv, Types, Responses
<1>4. segment_keywords[s] \in Nat /\ version[s] \in Nat /\ etags[s] \in Nat
      /\ etags[s] <= segment_keywords[s]
  BY <1>1, MarsAssumption DEF MarsAssumption, IndInv, Types, Vouched, Newer, Fetching
<1> HIDE DEF r, used
<1>5. Types'
  BY <1>1, <1>3, MarsAssumption DEF MarsAssumption, IndInv, Types
<1>6. TasksInFetch'
  BY <1>1 DEF IndInv, TasksInFetch, Fetching
<1>7. Newer'
  BY <1>1, <1>2, <1>3 DEF IndInv, Types, Newer, r
<1>8. Vouched'
  <2> SUFFICES ASSUME NEW x \in Segments
               PROVE  etags'[x] <= IF result'[x] # 0 THEN result'[x] ELSE segment_keywords[x]
    BY <1>1 DEF Vouched
  <2>1. CASE x # s
    <3>1. etags'[x] = etags[x] /\ result'[x] = result[x]
      BY <1>1, <2>1 DEF IndInv, Types
    <3> QED BY <1>1, <3>1 DEF IndInv, Vouched, Fetching
  <2>2. CASE x = s /\ used
    <3>1. result'[s] = r.version /\ etags'[s] \in {etags[s], r.version}
      BY <1>1, <2>2 DEF IndInv, Types
    <3> QED BY <1>2, <1>3, <1>4, <2>2, <3>1
  <2>3. CASE x = s /\ ~used
    <3>1. result'[s] = 0 /\ etags'[s] = etags[s]
      BY <1>1, <2>3 DEF IndInv, Types
    <3> QED BY <1>4, <2>3, <3>1
  <2> QED BY <2>1, <2>2, <2>3
<1> QED BY <1>1, <1>5, <1>6, <1>7, <1>8 DEF IndInv

(* What the tasks returned is put to use.                                    *)
LEMMA CollectInv ==
  ASSUME IndInv, Collect
  PROVE  IndInv' /\ \A s \in Segments : keywords'[s] \in keywords[s]..version[s]
<1> DEFINE fresh == [s \in Segments |-> IF result[s] # 0 THEN result[s] ELSE segment_keywords[s]]
<1>1. /\ segment_keywords' = fresh /\ keywords' = fresh /\ pc' = "sleep"
      /\ task' = [s \in Segments |-> "idle"] /\ result' = NoVersion
      /\ UNCHANGED <<version, kind, response, etags>> /\ Fetching
  BY DEF Collect, Flattened, marsVars
<1>2. \A s \in Segments : fresh[s] \in segment_keywords[s]..version[s] /\ fresh[s] \in 0..MaxVersion
  <2> TAKE s \in Segments
  <2>1. /\ version[s] \in Nat /\ segment_keywords[s] \in 0..MaxVersion
        /\ result[s] \in 0..MaxVersion /\ MaxVersion \in Nat
    BY MarsAssumption DEF MarsAssumption, IndInv, Types
  <2>2. /\ segment_keywords[s] <= version[s]
        /\ result[s] # 0 => result[s] \in segment_keywords[s]..version[s]
    BY DEF IndInv, Newer
  <2>3. fresh[s] = IF result[s] # 0 THEN result[s] ELSE segment_keywords[s]
    OBVIOUS
  <2> HIDE DEF fresh
  <2> QED BY <2>1, <2>2, <2>3
<1>3. \A s \in Segments : etags[s] <= fresh[s]
  BY <1>1 DEF IndInv, Vouched, Fetching
<1>4. fresh \in [Segments -> 0..MaxVersion]
  BY <1>2
<1> HIDE DEF fresh
<1>5. Types'
  BY <1>1, <1>4, MarsAssumption DEF MarsAssumption, IndInv, Types, NoVersion
<1>6. TasksInFetch' /\ Vouched'
  BY <1>1, <1>3 DEF TasksInFetch, Vouched, NoVersion
<1>7. Newer'
  <2>1. \A s \in Segments : fresh[s] <= version[s]
    <3> TAKE s \in Segments
    <3>1. segment_keywords[s] \in Nat /\ version[s] \in Nat
      BY MarsAssumption DEF MarsAssumption, IndInv, Types
    <3> QED BY <1>2, <3>1
  <2> QED BY <1>1, <2>1 DEF Newer, NoVersion
<1> QED BY <1>1, <1>2, <1>5, <1>6, <1>7 DEF IndInv

(* The steps of the cron job that touch no data.                             *)
LEMMA CronInv ==
  ASSUME IndInv, Expire \/ Tick \/ Shutdown
  PROVE  IndInv'
<1> USE DEF IndInv, taskVars, dataVars, marsVars
<1>1. CASE Expire
  BY <1>1 DEF Expire, Types, TasksInFetch, Newer, Vouched, Fetching
<1>2. CASE Tick
  <2>1. Types' /\ TasksInFetch' /\ Vouched'
    BY <1>2 DEF Tick, Types, TasksInFetch, Vouched, Fetching
  <2>2. Newer'
    <3>1. \A s \in Segments : result[s] = 0
      BY <1>2 DEF Tick, TasksInFetch, Newer, Fetching
    <3> QED BY <1>2, <3>1 DEF Tick, Newer
  <2> QED BY <1>2, <2>1, <2>2 DEF Tick
<1>3. CASE Shutdown
  BY <1>3, MarsAssumption DEF MarsAssumption, Shutdown, Types, TasksInFetch, Newer, Vouched,
     Fetching, NoVersion
<1> QED BY <1>1, <1>2, <1>3

-----------------------------------------------------------------------------
(* IndInv is an invariant of the exempts.                                    *)
THEOREM Inductive == Spec => []IndInv
<1>1. ASSUME IndInv, [Next]_vars PROVE IndInv'
  <2>1. CASE UNCHANGED vars
    BY <1>1, <2>1 DEF vars, marsVars, pollVars, taskVars, dataVars, IndInv, Types, TasksInFetch,
       Newer, Vouched, Fetching
  <2>2. CASE Next
    BY <1>1, <2>2, PublishInv, GetInv, FetchSegmentInv, CollectInv, CronInv DEF Next
  <2> QED BY <1>1, <2>1, <2>2
<1> QED BY <1>1, InitInv, PTL DEF Spec

(* An ETag that is sent never vouches for keywords that are not in use         *)
(* (_fetch_segment, 200-201 and 231-232).                                    *)
THEOREM NotPinned == Spec => []NeverPinned
<1>1. IndInv => NeverPinned
  <2> SUFFICES ASSUME IndInv, NEW s \in Segments, pc = "sleep" \/ task[s] = "waiting"
               PROVE  etags[s] <= keywords[s]
    BY DEF NeverPinned
  <2>1. pc # "stopped" /\ result[s] = 0
    BY DEF IndInv, TasksInFetch, Newer, Fetching
  <2> QED BY <2>1 DEF IndInv, Vouched
<1> QED BY <1>1, Inductive, PTL

(* The keywords implement VersionedFeed: whatever fails, no segment goes back  *)
(* to older keywords or loses them (_fetch, 164-187).                        *)
THEOREM Feeds == Spec => ImplementsFeed
<1>1. Init => Feed!Init
  BY DEF Init, MarsInit, NoVersion, Feed!Init
<1>2. ASSUME IndInv, [Next]_vars PROVE [Feed!Next]_<<version, keywords>>
  <2>1. CASE \E s \in Segments : Publish(s) /\ UNCHANGED <<pollVars, taskVars, dataVars>>
    BY <1>2, <2>1 DEF IndInv, Types, Publish, dataVars, Feed!Next, Feed!Publish
  <2>2. CASE Collect
    <3>1. \A s \in Segments : keywords'[s] \in keywords[s]..version[s]
      BY <1>2, <2>2, CollectInv
    <3>2. DOMAIN keywords' = Segments /\ version' = version
      BY <2>2 DEF Collect, Flattened, marsVars
    <3> QED BY <3>1, <3>2 DEF Feed!Next, Feed!Refresh
  <2>3. CASE Expire \/ Tick \/ Shutdown \/ UNCHANGED vars
    BY <2>3 DEF Expire, Tick, Shutdown, vars, marsVars, dataVars
  <2>4. CASE \E s \in Segments : Get(s) \/ FetchSegment(s)
    BY <2>4 DEF Get, FetchSegment, Respond, marsVars, dataVars
  <2> QED BY <1>2, <2>1, <2>2, <2>3, <2>4 DEF Next
<1> QED BY <1>1, <1>2, Inductive, PTL DEF Spec, ImplementsFeed, Feed!Spec

(* The exempts keep their types: in particular an ETag or a set of keywords is *)
(* always that of a version that MARS had.                                   *)
THEOREM TypeCorrect == Spec => []TypeOK
<1> DEFINE Rest == due \in BOOLEAN /\ errored \subseteq Segments /\ faults \in 0..MaxFaults
<1>0. MaxFaults \in Nat
  BY MarsAssumption DEF MarsAssumption
<1>1. Init => Rest
  BY <1>0 DEF Init, MarsInit
<1>2. ASSUME Rest, [Next]_vars PROVE Rest'
  <2>1. CASE UNCHANGED vars \/ Expire \/ Tick \/ Collect \/ Shutdown
    BY <1>2, <2>1 DEF vars, pollVars, taskVars, marsVars, Expire, Tick, Collect, Shutdown
  <2>2. CASE \E s \in Segments : Get(s) \/ FetchSegment(s)
    BY <1>0, <1>2, <2>2 DEF Get, FetchSegment, Respond, pollVars, marsVars
  <2>3. CASE \E s \in Segments : Publish(s) /\ UNCHANGED <<pollVars, taskVars, dataVars>>
    BY <1>2, <2>3 DEF Publish, pollVars, taskVars
  <2> QED BY <1>2, <2>1, <2>2, <2>3 DEF Next
<1>3. IndInv /\ Rest => TypeOK
  BY DEF IndInv, Types, TypeOK, MarsTypeOK
<1> HIDE DEF Rest
<1> QED BY <1>1, <1>2, <1>3, Inductive, PTL DEF Spec
=============================================================================
