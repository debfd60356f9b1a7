--------------------------- MODULE PictureOfTheDay -----------------------------
(***************************************************************************)
(* merino.providers.rss.wikimedia_potd: the job that copies Wikimedia's       *)
(* picture of the day to a bucket, into a directory per day, with a manifest  *)
(* last, and the provider that caches the manifest in a Merino process and    *)
(* serves it.  The code asks for the date again at every step, and midnight   *)
(* may come between any two of them.  A picture, its description and the      *)
(* files made from it are the day they belong to; 0 is none.  All images have *)
(* the same content type, and so the same names every day.                   *)
(***************************************************************************)
EXTENDS Naturals

CONSTANTS
    Requests,    \* requests that one Merino process serves at the same time
    MaxDay,      \* bound: days
    MaxFaults    \* bound: requests that fail, jobs that die and restarts

ASSUME PotdAssumption == MaxDay \in Nat \ {0} /\ MaxFaults \in Nat

Days == 1..MaxDay

VARIABLES
    today,       \* the day in UTC
    thumbnail,   \* for each directory: the picture it is of
    hi_res,
    manifest,    \* for each directory: potd.json, a set of at most one record
    pc,          \* the job: idle, fetch, parse, localize, thumbnail, hi_res or manifest
    item,        \* the PictureOfTheDay that it makes
    began,       \* history: the day on which it began
    overnight,   \* history: the directories into which a job of an earlier day wrote
    potd,        \* the provider's cache, a set of at most one record
    request,     \* idle, thread or fetched
    fetched,     \* what the thread of a request returned
    faults

bucketVars == <<thumbnail, hi_res, manifest>>
jobVars == <<pc, item, began, overnight>>
serverVars == <<potd, request, fetched>>
vars == <<today, bucketVars, jobVars, serverVars, faults>>

(* thumb and image are the directories that the two URLs point into.          *)
Items == [picture : 0..MaxDay, published : 0..MaxDay, localized : 0..MaxDay,
          thumb : 0..MaxDay, image : 0..MaxDay]

Empty == [picture |-> 0, published |-> 0, localized |-> 0, thumb |-> 0, image |-> 0]

Init ==
    /\ today = 1
    /\ thumbnail = [d \in Days |-> 0] /\ hi_res = [d \in Days |-> 0]
    /\ manifest = [d \in Days |-> {}]
    /\ pc = "idle" /\ item = Empty /\ began = 0 /\ overnight = {}
    /\ potd = {} /\ request = [r \in Requests |-> "idle"]
    /\ fetched = [r \in Requests |-> {}]
    /\ faults = 0

Midnight ==
    /\ today < MaxDay
    /\ today' = today + 1
    /\ UNCHANGED <<bucketVars, jobVars, serverVars, faults>>

Fault ==
    /\ faults < MaxFaults
    /\ faults' = faults + 1

-----------------------------------------------------------------------------
(* The job.  discover_languages takes the day it begins.                     *)
Begin ==
    /\ pc = "idle"
    /\ pc' = "fetch" /\ item' = Empty /\ began' = today
    /\ UNCHANGED <<today, bucketVars, overnight, serverVars, faults>>

(* A request of fetch_picture_of_the_day("en"); a retry asks for its own day. *)
Fetch ==
    /\ pc \in {"fetch", "parse"}
    /\ pc' = "parse" /\ item' = [item EXCEPT !.picture = today]
    /\ IF pc = "parse" THEN Fault ELSE UNCHANGED faults
    /\ UNCHANGED <<today, bucketVars, began, overnight, serverVars>>

(* parse_potd.                                                               *)
Parse ==
    /\ pc = "parse"
    /\ pc' = "localize" /\ item' = [item EXCEPT !.published = today]
    /\ UNCHANGED <<today, bucketVars, began, overnight, serverVars, faults>>

(* fetch_localized_descriptions: of the day of the request, or none.          *)
Localize ==
    /\ pc = "localize"
    /\ pc' = "thumbnail"
    /\ \E t \in {0, today} : item' = [item EXCEPT !.localized = t]
    /\ UNCHANGED <<today, bucketVars, began, overnight, serverVars, faults>>

(* build_potd_bucket_directory_path.  Mutant: one directory for all days.     *)
OneDirectory(day) == 1

Directory(day) == day

Wrote == overnight' = IF began < today THEN overnight \cup {Directory(today)} ELSE overnight

(* upload_content without forced_upload: an image that is there is kept.      *)
Kept(old) == IF old # 0 THEN old ELSE item.picture

(* Whether the upload counts.  Mutant: errors that it swallows go unnoticed.  *)
Unchecked(image) == TRUE

Landed(image) == image # 0

UploadThumbnail ==
    /\ pc = "thumbnail"
    /\ LET d == Directory(today) IN
       /\ \/ thumbnail' = [thumbnail EXCEPT ![d] = Kept(@)] /\ Wrote /\ UNCHANGED faults
          \/ Fault /\ UNCHANGED <<thumbnail, overnight>>
       /\ pc' = IF Landed(thumbnail'[d]) THEN "hi_res" ELSE "idle"
       /\ item' = [item EXCEPT !.thumb = d]
    /\ UNCHANGED <<today, hi_res, manifest, began, serverVars>>

UploadHiRes ==
    /\ pc = "hi_res"
    /\ LET d == Directory(today) IN
       /\ \/ hi_res' = [hi_res EXCEPT ![d] = Kept(@)] /\ Wrote /\ UNCHANGED faults
          \/ Fault /\ UNCHANGED <<hi_res, overnight>>
       /\ pc' = IF Landed(hi_res'[d]) THEN "manifest" ELSE "idle"
       /\ item' = [item EXCEPT !.image = d]
    /\ UNCHANGED <<today, thumbnail, manifest, began, serverVars>>

(* The manifest after an upload of m with forced_upload.  Mutant: without.    *)
KeptManifest(old, m) == IF old # {} THEN old ELSE {m}

Overwritten(old, m) == {m}

(* upload_potd_manifest; an overwrite that fails is not noticed.             *)
UploadManifest ==
    /\ pc = "manifest"
    /\ pc' = "idle"
    /\ \/ /\ manifest' = [manifest EXCEPT ![Directory(today)] = Overwritten(@, item)]
          /\ Wrote
          /\ UNCHANGED faults
       \/ Fault /\ UNCHANGED <<manifest, overnight>>
    /\ UNCHANGED <<today, thumbnail, hi_res, item, began, serverVars>>

(* The job dies, or one of its requests fails for good.                      *)
JobFails ==
    /\ pc # "idle"
    /\ Fault
    /\ pc' = "idle"
    /\ UNCHANGED <<today, bucketVars, item, began, overnight, serverVars>>

-----------------------------------------------------------------------------
(* get_picture_of_the_day, and initialize: the cached picture is not today's. *)
IsTodays == \E m \in potd : m.published = today

Refresh(r) ==
    /\ request[r] = "idle" /\ ~IsTodays
    /\ request' = [request EXCEPT ![r] = "thread"]
    /\ UNCHANGED <<today, bucketVars, jobVars, potd, fetched, faults>>

(* fetch_potd_from_gcs_bucket in the thread; it returns None after an error.  *)
Read(r) ==
    /\ request[r] = "thread"
    /\ request' = [request EXCEPT ![r] = "fetched"]
    /\ \/ fetched' = [fetched EXCEPT ![r] = manifest[Directory(today)]] /\ UNCHANGED faults
       \/ fetched' = [fetched EXCEPT ![r] = {}] /\ Fault
    /\ UNCHANGED <<today, bucketVars, jobVars, potd>>

(* _refresh_potd goes on: what was not found leaves the cache alone.          *)
Answer(r) ==
    /\ request[r] = "fetched"
    /\ request' = [request EXCEPT ![r] = "idle"]
    /\ potd' = IF fetched[r] # {} THEN fetched[r] ELSE potd
    /\ fetched' = [fetched EXCEPT ![r] = {}]
    /\ UNCHANGED <<today, bucketVars, jobVars, faults>>

Restart ==
    /\ Fault
    /\ potd' = {} /\ request' = [r \in Requests |-> "idle"]
    /\ fetched' = [r \in Requests |-> {}]
    /\ UNCHANGED <<today, bucketVars, jobVars>>

-----------------------------------------------------------------------------
Job ==
    Begin \/ Fetch \/ Parse \/ Localize \/ UploadThumbnail \/ UploadHiRes \/ UploadManifest

Serve(r) == Refresh(r) \/ Read(r) \/ Answer(r)

Next == Midnight \/ Job \/ JobFails \/ Restart \/ \E r \in Requests : Serve(r)

Spec == Init /\ [][Next]_vars

(* Cron starts the job again and again, and requests keep coming.            *)
FairSpec == Spec /\ WF_vars(Job) /\ \A r \in Requests : WF_vars(Serve(r))

-----------------------------------------------------------------------------
TypeOK ==
    /\ today \in Days /\ began \in 0..MaxDay
    /\ thumbnail \in [Days -> 0..MaxDay] /\ hi_res \in [Days -> 0..MaxDay]
    /\ \A d \in Days : manifest[d] \subseteq Items
    /\ pc \in {"idle", "fetch", "parse", "localize", "thumbnail", "hi_res", "manifest"}
    /\ item \in Items /\ overnight \subseteq Days
    /\ potd \subseteq Items
    /\ request \in [Requests -> {"idle", "thread", "fetched"}]
    /\ \A r \in Requests : fetched[r] \subseteq Items
    /\ faults \in 0..MaxFaults

(* What a manifest says and where its images are, all of one day.             *)
OfOneDay(m, d) ==
    /\ m.picture = d /\ m.published = d /\ m.localized \in {0, d}
    /\ m.thumb = d /\ thumbnail[d] = d
    /\ m.image = d /\ hi_res[d] = d

(* Whatever fails and wherever a job dies, a manifest in the bucket or in the *)
(* cache of a process points at images that are in the bucket: they are       *)
(* uploaded first and "confirmed" (wikimedia_potd.py:283-286).               *)
ImagesAreThere ==
    \A m \in potd \cup UNION {manifest[d] : d \in Days} :
        thumbnail[m.thumb] # 0 /\ hi_res[m.image] # 0

(* The directory of a day holds that day's picture, texts and date, unless a  *)
(* job that began on the day before wrote into it.                           *)
OnePictureADay ==
    \A d \in Days \ overnight : \A m \in manifest[d] : OfOneDay(m, d)

(* When no more midnights come, the picture served has that day's date, even  *)
(* if jobs ran overnight, died, or left a manifest of the day before, and old *)
(* answers overtook new ones.                                                *)
TodaysIsServed == <>[](\E m \in potd : m.published = today)
=============================================================================
