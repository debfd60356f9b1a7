---------------------------- MODULE SyncedGcsBlob ------------------------------
(***************************************************************************)
(* merino.utils.synced_gcs_blob: a cron job that, in a thread, looks at the   *)
(* update time of one object and hands new content to a callback.  An object  *)
(* is the number of its publication, which is also its update time.  What the *)
(* callback does is left to the modules that use this one.                   *)
(***************************************************************************)
EXTENDS Naturals

CONSTANTS
    MaxVersion,   \* bound: publications
    Kinds         \* what an object may be: "good", "big" above max_size, ...

VARIABLES
    object,         \* the object in the bucket, 0 for none
    kind,           \* what it is for its reader
    last_updated,   \* the update time of the object handled last, 0 at first
    task,           \* of the thread: sleeping, metadata or callback
    seen,           \* blob.updated, while the thread runs
    data,           \* what was downloaded, while the callback runs
    dataKind        \* and its kind

objectVars == <<object, kind>>
taskVars == <<last_updated, task, seen, data, dataKind>>
vars == <<objectVars, taskVars>>

Init ==
    /\ object = 0 /\ kind = "good"
    /\ last_updated = 0 /\ task = "sleeping" /\ seen = 0
    /\ data = 0 /\ dataKind = "good"

(* The job that trains and uploads, outside Merino.                          *)
Publish ==
    /\ object < MaxVersion
    /\ object' = object + 1
    /\ kind' \in Kinds
    /\ UNCHANGED taskVars

(* _update_task up to the download: the object is there, not too big and newer.*)
Reload ==
    /\ task = "sleeping"
    /\ object # 0 /\ kind # "big" /\ object > last_updated
    /\ task' = "metadata" /\ seen' = object
    /\ UNCHANGED <<objectVars, last_updated, data, dataKind>>

(* When the update time is noted.  Mutant: as soon as the object is fetched.  *)
StampedAtOnce(now) == seen

Stamped(now) == IF now = "returned" THEN seen ELSE last_updated

(* download_as_bytes, download_as_text.                                      *)
Download ==
    /\ task = "metadata"
    /\ task' = "callback" /\ data' = object /\ dataKind' = kind
    /\ last_updated' = Stamped("downloaded")
    /\ UNCHANGED <<objectVars, seen>>

Ends(how) ==
    /\ task' = "sleeping" /\ seen' = 0 /\ data' = 0 /\ dataKind' = "good"
    /\ last_updated' = Stamped(how)
    /\ UNCHANGED objectVars

(* It raises, as it may when the object was replaced: cron logs and goes on.  *)
DownloadFails == task = "metadata" /\ Ends("failed")

Replaced == object # seen

CallbackReturns == task = "callback" /\ Ends("returned")

CallbackRaises == task = "callback" /\ Ends("raised")

TypeOK ==
    /\ object \in 0..MaxVersion /\ {kind, dataKind} \subseteq Kinds
    /\ \A v \in {last_updated, seen, data} : v \in 0..MaxVersion
    /\ task \in {"sleeping", "metadata", "callback"}
=============================================================================
