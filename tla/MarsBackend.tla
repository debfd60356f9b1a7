----------------------------- MODULE MarsBackend ------------------------------
(***************************************************************************)
(* merino.providers.suggest.adm: the AMP provider's fetch from MARS, at       *)
(* startup and by the cron job `resync_rs_data`, and what queries read.       *)
(* An index, and the icons and normalization terms taken from it, is the      *)
(* version of the document it was built from.                                *)
(***************************************************************************)
EXTENDS Mars

VARIABLES
    pc,        \* initialize, sleep, fetch (in the cron job) or icons
    due,       \* _should_fetch
    failed,    \* history: the last _fetch raised
    task,      \* each get_suggestion_data: idle, waiting, answered, done, failed
    response,  \* what its request was answered with
    result,    \* the version it returned, 0 for None
    etags,     \* self.etags, 0 for no entry
    index,     \* suggestion_content.index_manager of the backend, 0 for no index
    icons,     \* <<segment, version>>: their icons are in suggestion_content.icons
    terms,     \* the indexes whose full keywords the normalization pipeline has
    shared,    \* the provider's suggestion_content is the backend's
    unused     \* history: <<segment, version>> downloaded and thrown away

pollVars == <<pc, due, failed>>
taskVars == <<task, response, result>>
dataVars == <<index, icons, terms, shared>>
vars == <<marsVars, pollVars, taskVars, etags, dataVars, unused>>

NoVersion == [s \in Segments |-> 0]

Init ==
    /\ MarsInit
    /\ pc = "initialize" /\ due = TRUE /\ failed = FALSE
    /\ task = [s \in Segments |-> "waiting"]
    /\ response = [s \in Segments |-> [status |-> "error"]]
    /\ result = NoVersion /\ etags = NoVersion
    /\ index = NoVersion /\ icons = {} /\ terms = NoVersion /\ shared = FALSE
    /\ unused = {}

Fetching == pc \in {"initialize", "fetch"}

(* resync_interval passes.                                                   *)
Expire ==
    /\ pc = "sleep" /\ ~due
    /\ due' = TRUE
    /\ UNCHANGED <<marsVars, pc, failed, taskVars, etags, dataVars, unused>>

(* A tick of the cron job on which _should_fetch() holds.                    *)
Tick ==
    /\ pc = "sleep" /\ due
    /\ pc' = "fetch"
    /\ task' = [s \in Segments |-> "waiting"]
    /\ UNCHANGED <<marsVars, due, failed, response, result, etags, dataVars, unused>>

(* await http_client.get(..., If-None-Match).                                *)
Get(s) ==
    /\ Fetching /\ task[s] = "waiting"
    /\ \E r \in Responses :
           /\ Respond(s, etags[s], r)
           /\ response' = [response EXCEPT ![s] = r]
    /\ task' = [task EXCEPT ![s] = "answered"]
    /\ UNCHANGED <<pollVars, result, etags, dataVars, unused>>

(* The rest of get_suggestion_data, in one go: the ETag is stored before the  *)
(* body is looked at.                                                        *)
GetSuggestionData(s) ==
    LET r == response[s]
        usable == r.status = "ok" /\ r.kind \in {"good", "mistyped"}
        raises == r.status = "error" \/ (r.status = "ok" /\ r.kind = "malformed")
    IN
    /\ Fetching /\ task[s] = "answered"
    /\ task' = [task EXCEPT ![s] = IF raises THEN "failed" ELSE "done"]
    /\ result' = [result EXCEPT ![s] = IF usable THEN r.version ELSE 0]
    /\ etags' = IF r.status = "ok" /\ r.etag THEN [etags EXCEPT ![s] = r.version] ELSE etags
    /\ unused' = IF r.status = "ok" /\ ~usable
                 THEN unused \cup {<<s, r.version>>} ELSE unused
    /\ UNCHANGED <<marsVars, pollVars, response, dataVars>>

(* What a fetch that raises does to last_fetch_at.  Mutant: it is set.        *)
DueAfterAny == FALSE

DueAfterError == due

(* A task raised: the group cancels the others, what they returned is lost,   *)
(* and _fetch ends with MarsError, which initialize and the cron job log.     *)
SegmentsFail ==
    /\ Fetching /\ \E s \in Segments : task[s] = "failed"
    /\ unused' = unused \cup {<<s, result[s]>> : s \in {x \in Segments : result[x] # 0}}
    /\ pc' = "sleep" /\ failed' = TRUE /\ due' = DueAfterError
    /\ task' = [s \in Segments |-> "idle"]
    /\ result' = NoVersion
    /\ UNCHANGED <<marsVars, response, etags, dataVars>>

(* `not mars_suggestions`.  Mutant: one segment without news is enough.       *)
SomethingUnchanged == \E s \in Segments : result[s] = 0

NothingNew == \A s \in Segments : result[s] = 0

AllDone == Fetching /\ \A s \in Segments : task[s] = "done"

(* The cached content is returned.  What follows in the provider's _fetch     *)
(* runs in the same step.                                                    *)
CachedContent ==
    /\ AllDone /\ NothingNew
    /\ pc' = "sleep" /\ due' = FALSE /\ failed' = FALSE
    /\ terms' = index /\ shared' = TRUE
    /\ task' = [s \in Segments |-> "idle"]
    /\ result' = NoVersion
    /\ UNCHANGED <<marsVars, response, etags, index, icons, unused>>

(* The indexes after a build.  Mutant: of the segments of this fetch only.     *)
FreshOnly(built) == [s \in Segments |-> IF s \in built THEN result[s] ELSE 0]

Rebuilt(built) == [s \in Segments |-> IF s \in built THEN result[s] ELSE index[s]]

(* The segments whose index this fetch can build.                            *)
Built == {s \in Segments : result[s] # 0 /\ response[s].kind = "good"}

(* Every fresh index is built in place; one that cannot be built is logged    *)
(* and skipped.  Then the icons are awaited.                                 *)
BuildIndexes ==
    LET skipped == {s \in Segments : result[s] # 0} \ Built IN
    /\ AllDone /\ ~NothingNew
    /\ index' = Rebuilt(Built)
    /\ unused' = unused \cup {<<s, result[s]>> : s \in skipped}
    /\ pc' = "icons"
    /\ UNCHANGED <<marsVars, due, failed, taskVars, etags, icons, terms, shared>>

(* `icons.update(icons)`.  Mutant: the icons of this fetch replace the map.    *)
IconsReplaced(new) == new

IconsUpdated(new) == icons \cup new

(* The icons of what this fetch built join those in the map, and the rest of   *)
(* the provider's _fetch, which takes the terms of all indexes.              *)
(* process_icon_url returns the original URL when anything fails.            *)
IconsProcessed ==
    /\ pc = "icons"
    /\ icons' = IconsUpdated({<<s, result[s]>> : s \in Built})
    /\ terms' = index /\ shared' = TRUE
    /\ pc' = "sleep" /\ due' = FALSE /\ failed' = FALSE
    /\ task' = [s \in Segments |-> "idle"]
    /\ result' = NoVersion
    /\ UNCHANGED <<marsVars, response, etags, index, unused>>

Next ==
    \/ Expire \/ Tick \/ SegmentsFail \/ CachedContent \/ BuildIndexes \/ IconsProcessed
    \/ \E s \in Segments :
           \/ Get(s) \/ GetSuggestionData(s)
           \/ Publish(s) /\ UNCHANGED <<pollVars, taskVars, etags, dataVars, unused>>

Spec == Init /\ [][Next]_vars

(* The event loop runs what is ready and every request ends.  Nothing says    *)
(* that resync_interval ever passes.                                         *)
FairSpec ==
    /\ Spec
    /\ WF_vars(Tick) /\ WF_vars(SegmentsFail) /\ WF_vars(CachedContent)
    /\ WF_vars(BuildIndexes) /\ WF_vars(IconsProcessed)
    /\ \A s \in Segments : WF_vars(Get(s)) /\ WF_vars(GetSuggestionData(s))

-----------------------------------------------------------------------------
(* What queries read: nothing until a first fetch has ended, then the indexes  *)
(* as they are rebuilt in place.                                             *)
Served == IF shared THEN index ELSE NoVersion

(* A query never meets an index without its icons (it would answer with       *)
(* MISSING_ICON_ID, provider 399) or ahead of the normalization terms, except   *)
(* one that was rebuilt by the very fetch that now waits for its icons: the     *)
(* indexes of the other segments keep theirs, whatever that fetch or an        *)
(* earlier one left alone, failed to build or was answered 304 for.            *)
IndexComplete ==
    \A s \in Segments : Served[s] # 0 =>
        \/ <<s, index[s]>> \in icons /\ terms[s] = index[s]
        \/ pc = "icons" /\ s \in Built

(* A segment is left behind its ETag only by a version that was downloaded    *)
(* and thrown away.                                                          *)
OnlyThrownAwayIsPinned ==
    pc = "sleep" =>
        \A s \in Segments : etags[s] <= index[s] \/ <<s, etags[s]>> \in unused

(* "the cron job will retry the fetch upon the next tick" (provider 159-160): *)
(* a fetch that raised is followed by one that does not, although nothing     *)
(* makes the resync interval pass, unless a segment stays malformed.         *)
RetriedUntilHealthy ==
    failed ~> (~failed \/ \E s \in Segments : kind[s] = "malformed")

(* "All segments returned 304 Not Modified - return cached content" (129):    *)
(* when every segment answers 304, the good documents that this vouches for   *)
(* are the ones in the cached index.                                         *)
NotModifiedIsCached ==
    AllDone /\ (\A s \in Segments : response[s].status = "not_modified")
        => \A s \in Segments :
               etags[s] = version[s] /\ kind[s] = "good" => index[s] = etags[s]
=============================================================================
