------------------------------ MODULE AmpExempt -------------------------------
(***************************************************************************)
(* merino_fleece.sanitize.exempts.amp: the AMP keywords that exempt a search *)
(* term from sanitization, fetched per segment from MARS at startup and by a *)
(* cron job.  The keywords of a segment are modelled by the version of the   *)
(* document they were read from.                                             *)
(***************************************************************************)
EXTENDS Mars

VARIABLES
    pc,                \* initialize, sleep, fetch (in the cron job) or stopped
    due,               \* _should_fetch: resync_interval has passed since last_fetch_at
    task,              \* each _fetch_segment: idle, waiting, answered, done
    response,          \* what its request was answered with
    result,            \* the version it returned the keywords of, 0 for None
    errored,           \* the segments whose last _fetch_segment errored
    etags,             \* self.etags, 0 for no entry
    segment_keywords,  \* self.segment_keywords, 0 for no entry
    keywords           \* self.keywords, the union, as the version of each part

pollVars == <<pc, due>>
taskVars == <<task, response, result, errored>>
dataVars == <<etags, segment_keywords, keywords>>
vars == <<marsVars, pollVars, taskVars, dataVars>>

NoVersion == [s \in Segments |-> 0]

Init ==
    /\ MarsInit
    /\ pc = "initialize" /\ due = TRUE
    /\ task = [s \in Segments |-> "waiting"]
    /\ response = [s \in Segments |-> [status |-> "error"]]
    /\ result = NoVersion /\ errored = {}
    /\ etags = NoVersion /\ segment_keywords = NoVersion /\ keywords = NoVersion

Fetching == pc \in {"initialize", "fetch"}

(* resync_interval passes.                                                   *)
Expire ==
    /\ pc = "sleep" /\ ~due
    /\ due' = TRUE
    /\ UNCHANGED <<marsVars, pc, taskVars, dataVars>>

(* A tick of the cron job on which _should_fetch() holds: _fetch creates a    *)
(* task per segment.                                                         *)
Tick ==
    /\ pc = "sleep" /\ due
    /\ pc' = "fetch"
    /\ task' = [s \in Segments |-> "waiting"]
    /\ UNCHANGED <<marsVars, due, response, result, errored, dataVars>>

(* await http_client.get(..., If-None-Match).                                *)
Get(s) ==
    /\ Fetching /\ task[s] = "waiting"
    /\ \E r \in Responses :
           /\ Respond(s, etags[s], r)
           /\ response' = [response EXCEPT ![s] = r]
    /\ task' = [task EXCEPT ![s] = "answered"]
    /\ UNCHANGED <<pollVars, result, errored, dataVars>>

(* When the ETag of a response is stored.  Mutant: before the body is parsed. *)
TaggedAtOnce(r) == r.status = "ok" /\ r.etag

Tagged(r) == r.status = "ok" /\ r.kind = "good" /\ r.etag

(* The rest of _fetch_segment, in one go.                                    *)
FetchSegment(s) ==
    LET r == response[s]
        failed == r.status = "error" \/ (r.status = "ok" /\ r.kind \notin {"good", "empty"})
    IN
    /\ Fetching /\ task[s] = "answered"
    /\ task' = [task EXCEPT ![s] = "done"]
    /\ result' = [result EXCEPT ![s] =
                      IF r.status = "ok" /\ r.kind = "good" THEN r.version ELSE 0]
    /\ errored' = IF failed THEN errored \cup {s} ELSE errored \ {s}
    /\ etags' = IF Tagged(r) THEN [etags EXCEPT ![s] = r.version] ELSE etags
    /\ UNCHANGED <<marsVars, pollVars, response, segment_keywords, keywords>>

(* The flat set.  Mutant: the union of what this fetch returned.              *)
FreshOnly(fresh) == result

Flattened(fresh) == fresh

(* Whether last_fetch_at is left alone.  Mutant: it never is.                *)
NeverEarly == FALSE

RetryEarly == errored # {}

(* All tasks of the group are done: the rest of _fetch.                      *)
Collect ==
    LET fresh == [s \in Segments |->
                      IF result[s] # 0 THEN result[s] ELSE segment_keywords[s]] IN
    /\ Fetching /\ \A s \in Segments : task[s] = "done"
    /\ segment_keywords' = fresh
    /\ keywords' = Flattened(fresh)
    /\ due' = IF RetryEarly THEN due ELSE FALSE
    /\ pc' = "sleep"
    /\ task' = [s \in Segments |-> "idle"]
    /\ result' = NoVersion
    /\ UNCHANGED <<marsVars, response, errored, etags>>

(* shutdown(): the cron job is cancelled wherever it waits.                  *)
Shutdown ==
    /\ pc \in {"sleep", "fetch"}
    /\ pc' = "stopped"
    /\ task' = [s \in Segments |-> "idle"]
    /\ result' = NoVersion
    /\ UNCHANGED <<marsVars, due, response, errored, dataVars>>

Next ==
    \/ Expire \/ Tick \/ Collect \/ Shutdown
    \/ \E s \in Segments :
           \/ Get(s) \/ FetchSegment(s)
           \/ Publish(s) /\ UNCHANGED <<pollVars, taskVars, dataVars>>

Spec == Init /\ [][Next]_vars

(* The event loop runs what is ready and every request ends.  Nothing says    *)
(* that resync_interval ever passes.                                         *)
FairSpec ==
    /\ Spec
    /\ WF_vars(Tick) /\ WF_vars(Collect)
    /\ \A s \in Segments : WF_vars(Get(s)) /\ WF_vars(FetchSegment(s))

-----------------------------------------------------------------------------
TypeOK ==
    /\ MarsTypeOK
    /\ pc \in {"initialize", "sleep", "fetch", "stopped"} /\ due \in BOOLEAN
    /\ task \in [Segments -> {"idle", "waiting", "answered", "done"}]
    /\ response \in [Segments -> Responses]
    /\ errored \subseteq Segments
    /\ \A f \in {result, etags, segment_keywords, keywords} :
           f \in [Segments -> 0..MaxVersion]

(* "a segment can never be pinned to data that was never used" (200-201): a  *)
(* segment whose ETag is sent, so that MARS may answer 304, has its keywords  *)
(* from that version or from a later one in use.                             *)
NeverPinned ==
    \A s \in Segments :
        (pc = "sleep" \/ task[s] = "waiting") => etags[s] <= keywords[s]

(* "Leave last_fetch_at alone when a segment failed, so the cron job retries  *)
(* on its next tick instead of waiting out the full resync interval"         *)
(* (190-192): a failed segment is fetched again and again until it answers,  *)
(* although nothing makes the resync interval pass.                          *)
RetriedUntilHealthy ==
    \A s \in Segments :
        s \in errored ~> (s \notin errored \/ kind[s] = "malformed" \/ pc = "stopped")
=============================================================================
