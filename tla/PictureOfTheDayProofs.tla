------------------------- MODULE PictureOfTheDayProofs -------------------------
(***************************************************************************)
(* Proofs about PictureOfTheDay, for every set of requests and number of days *)
(* and faults.                                                             *)
(***************************************************************************)
EXTENDS PictureOfTheDay, TLAPS

Types ==
    /\ today \in Days /\ began \in 0..today
    /\ thumbnail \in [Days -> 0..MaxDay] /\ hi_res \in [Days -> 0..MaxDay]
    /\ manifest \in [Days -> SUBSET Items]
    /\ item \in Items
    /\ fetched \in [Requests -> SUBSET Items]
    /\ potd \subseteq Items

(* The images that a manifest points at.                                     *)
ThumbIsThere(m) == m.thumb \in Days /\ thumbnail[m.thumb] # 0

ImageIsThere(m) == m.image \in Days /\ hi_res[m.image] # 0

(* The job goes on only when an image landed, and what was read, cached or    *)
(* stored is a manifest that it made.                                        *)
Confirmed ==
    /\ pc \in {"hi_res", "manifest"} => ThumbIsThere(item)
    /\ pc = "manifest" => ImageIsThere(item)
    /\ \A d \in Days : \A m \in manifest[d] : ThumbIsThere(m) /\ ImageIsThere(m)
    /\ \A r \in Requests : \A m \in fetched[r] : ThumbIsThere(m) /\ ImageIsThere(m)
    /\ \A m \in potd : ThumbIsThere(m) /\ ImageIsThere(m)

(* What a job that began today has is of today.                              *)
ItemOfToday ==
    began = today =>
        /\ pc \in {"parse", "localize", "thumbnail", "hi_res", "manifest"} => item.picture = today
        /\ pc \in {"localize", "thumbnail", "hi_res", "manifest"} => item.published = today
        /\ pc \in {"thumbnail", "hi_res", "manifest"} => item.localized \in {0, today}
        /\ pc \in {"hi_res", "manifest"} => item.thumb = today
        /\ pc = "manifest" => item.image = today

(* A directory that no overnight job wrote into has its own day's images.     *)
ImagesOfTheDay ==
    \A d \in Days \ overnight : thumbnail[d] \in {0, d} /\ hi_res[d] \in {0, d}

IndInv == Types /\ Confirmed /\ ItemOfToday /\ ImagesOfTheDay /\ OnePictureADay

-----------------------------------------------------------------------------
(* An item whose fields are replaced one by one is still an item.             *)
LEMMA ItemsExcept ==
  ASSUME NEW i \in Items, NEW v \in 0..MaxDay
  PROVE  /\ [i EXCEPT !.picture = v] \in Items /\ [i EXCEPT !.published = v] \in Items
         /\ [i EXCEPT !.localized = v] \in Items
         /\ [i EXCEPT !.thumb = v] \in Items /\ [i EXCEPT !.image = v] \in Items
  BY DEF Items

(* No image, no manifest, nothing cached.                                     *)
LEMMA InitInv == Init => IndInv
  BY PotdAssumption DEF PotdAssumption, Init, IndInv, Types, Confirmed, ItemOfToday, ImagesOfTheDay,
     OnePictureADay, Days, Items, Empty

(* A step of the upload job (upload_picture_of_the_day, 59-101).              *)
LEMMA JobInv ==
  ASSUME IndInv, Job \/ JobFails
  PROVE  IndInv'
<1> USE PotdAssumption DEF PotdAssumption, Days, Fault, IndInv, bucketVars, jobVars, serverVars
<1>1. CASE Begin
  <2> USE <1>1 DEF Begin, Empty
  <2>1. Types'
    <3>1. item' \in Items
      BY DEF Items
    <3> QED BY <3>1 DEF Types
  <2>2. Confirmed'
    BY DEF Types, Confirmed, ThumbIsThere, ImageIsThere
  <2>3. ItemOfToday'
    BY DEF Types, ItemOfToday
  <2>4. ImagesOfTheDay'
    BY DEF Types, ItemOfToday, ImagesOfTheDay
  <2>5. OnePictureADay'
    BY DEF Types, Confirmed, ThumbIsThere, ImageIsThere, ItemOfToday,
           ImagesOfTheDay, OnePictureADay, OfOneDay
  <2> QED BY <2>1, <2>2, <2>3, <2>4, <2>5 DEF IndInv
<1>2. CASE Fetch
  <2> USE <1>2 DEF Fetch
  <2>1. Types'
    <3>1. today \in 0..MaxDay
      BY DEF Types
    <3>2. item' = [item EXCEPT !.picture = today]
      BY Zenon
    <3>3. item' \in Items
      BY <3>1, <3>2, ItemsExcept DEF Types
    <3> QED BY <3>3 DEF Types
  <2>2. Confirmed'
    BY DEF Types, Confirmed, ThumbIsThere, ImageIsThere
  <2>3. ItemOfToday'
    BY DEF Types, ItemOfToday
  <2>4. ImagesOfTheDay'
    BY DEF Types, ItemOfToday, ImagesOfTheDay
  <2>5. OnePictureADay'
    BY DEF Types, Confirmed, ThumbIsThere, ImageIsThere, ItemOfToday,
           ImagesOfTheDay, OnePictureADay, OfOneDay
  <2> QED BY <2>1, <2>2, <2>3, <2>4, <2>5 DEF IndInv
<1>3. CASE Parse
  <2> USE <1>3 DEF Parse
  <2>1. Types'
    <3>1. today \in 0..MaxDay
      BY DEF Types
    <3>2. item' = [item EXCEPT !.published = today]
      BY Zenon
    <3>3. item' \in Items
      BY <3>1, <3>2, ItemsExcept DEF Types
    <3> QED BY <3>3 DEF Types
  <2>2. Confirmed'
    BY DEF Types, Confirmed, ThumbIsThere, ImageIsThere
  <2>3. ItemOfToday'
    BY DEF Types, ItemOfToday
  <2>4. ImagesOfTheDay'
    BY DEF Types, ItemOfToday, ImagesOfTheDay
  <2>5. OnePictureADay'
    BY DEF Types, Confirmed, ThumbIsThere, ImageIsThere, ItemOfToday,
           ImagesOfTheDay, OnePictureADay, OfOneDay
  <2> QED BY <2>1, <2>2, <2>3, <2>4, <2>5 DEF IndInv
<1>4. CASE Localize
  <2> USE <1>4 DEF Localize
  <2>1. Types'
    <3>1. PICK t \in {0, today} : item' = [item EXCEPT !.localized = t]
      OBVIOUS
    <3>2. item \in Items /\ t \in 0..MaxDay
      BY DEF Types
    <3>3. item' \in Items
      BY <3>1, <3>2, ItemsExcept
    <3> QED BY <3>3 DEF Types
  <2>2. Confirmed'
    BY DEF Types, Confirmed, ThumbIsThere, ImageIsThere
  <2>3. ItemOfToday'
    BY DEF Types, ItemOfToday
  <2>4. ImagesOfTheDay'
    BY DEF Types, ItemOfToday, ImagesOfTheDay
  <2>5. OnePictureADay'
    BY DEF Types, Confirmed, ThumbIsThere, ImageIsThere, ItemOfToday,
           ImagesOfTheDay, OnePictureADay, OfOneDay
  <2> QED BY <2>1, <2>2, <2>3, <2>4, <2>5 DEF IndInv
<1>5. CASE UploadThumbnail
  <2> USE <1>5
  <2>1. item.picture \in 0..MaxDay /\ today \in 0..MaxDay
    BY DEF Types, Items
  <2>2. item' = [item EXCEPT !.thumb = today]
    BY DEF UploadThumbnail, Directory
  <2>3. /\ item' \in Items /\ item'.thumb = today
        /\ item'.picture = item.picture /\ item'.published = item.published
        /\ item'.localized = item.localized /\ item'.image = item.image
    <3>1. item \in Items
      BY DEF Types
    <3>2. item' \in Items
      BY <2>1, <2>2, <3>1, ItemsExcept
    <3> QED BY <2>2, <3>1, <3>2 DEF Items
  <2>4. /\ pc = "thumbnail" /\ pc' \in {"hi_res", "idle"}
        /\ pc' = "hi_res" => thumbnail'[today] # 0
    BY DEF UploadThumbnail, Directory, Landed
  <2>5. /\ thumbnail' \in [Days -> 0..MaxDay]
        /\ \A d \in Days \ {today} : thumbnail'[d] = thumbnail[d]
        /\ thumbnail[today] # 0 => thumbnail'[today] = thumbnail[today]
        /\ thumbnail'[today] \in {thumbnail[today], item.picture}
    BY <2>1 DEF UploadThumbnail, Directory, Kept, Types
  <2>6. /\ overnight \subseteq overnight'
        /\ thumbnail'[today] # thumbnail[today] /\ began < today => today \in overnight'
    BY DEF UploadThumbnail, Directory, Wrote, Types
  <2>7. UNCHANGED <<today, began, hi_res, manifest, potd, fetched>>
    BY DEF UploadThumbnail
  <2> HIDE <1>5
  <2>8. Types'
    BY <2>3, <2>5, <2>7 DEF Types
  <2>9. Confirmed'
    <3>1. \A d \in Days : thumbnail[d] # 0 => thumbnail'[d] # 0
      BY <2>5
    <3>2. /\ pc' \in {"hi_res", "manifest"} => item'.thumb \in Days /\ thumbnail'[item'.thumb] # 0
          /\ pc' = "manifest" => item'.image \in Days /\ hi_res'[item'.image] # 0
      BY <2>3, <2>4, <2>5, <2>7 DEF Types, Confirmed, ThumbIsThere, ImageIsThere
    <3> QED BY <2>7, <3>1, <3>2 DEF Confirmed, ThumbIsThere, ImageIsThere
  <2>10. ItemOfToday'
    BY <2>3, <2>4, <2>7 DEF Types, ItemOfToday
  <2>11. ImagesOfTheDay'
    <3>1. began = today => item.picture = today
      BY <2>4 DEF ItemOfToday
    <3>2. today \notin overnight' => thumbnail'[today] \in {0, today}
      BY <2>5, <2>6, <3>1 DEF Types, ImagesOfTheDay
    <3> QED BY <2>5, <2>6, <2>7, <3>2 DEF Types, ImagesOfTheDay
  <2>12. OnePictureADay'
    BY <2>5, <2>6, <2>7 DEF Types, OnePictureADay, OfOneDay
  <2> QED BY <2>8, <2>9, <2>10, <2>11, <2>12 DEF IndInv
<1>6. CASE UploadHiRes
  <2> USE <1>6
  <2>1. item.picture \in 0..MaxDay /\ today \in 0..MaxDay
    BY DEF Types, Items
  <2>2. item' = [item EXCEPT !.image = today]
    BY DEF UploadHiRes, Directory
  <2>3. /\ item' \in Items /\ item'.image = today
        /\ item'.picture = item.picture /\ item'.published = item.published
        /\ item'.localized = item.localized /\ item'.thumb = item.thumb
    <3>1. item \in Items
      BY DEF Types
    <3>2. item' \in Items
      BY <2>1, <2>2, <3>1, ItemsExcept
    <3> QED BY <2>2, <3>1, <3>2 DEF Items
  <2>4. /\ pc = "hi_res" /\ pc' \in {"manifest", "idle"}
        /\ pc' = "manifest" => hi_res'[today] # 0
    BY DEF UploadHiRes, Directory, Landed
  <2>5. /\ hi_res' \in [Days -> 0..MaxDay]
        /\ \A d \in Days \ {today} : hi_res'[d] = hi_res[d]
        /\ hi_res[today] # 0 => hi_res'[today] = hi_res[today]
        /\ hi_res'[today] \in {hi_res[today], item.picture}
    BY <2>1 DEF UploadHiRes, Directory, Kept, Types
  <2>6. /\ overnight \subseteq overnight'
        /\ hi_res'[today] # hi_res[today] /\ began < today => today \in overnight'
    BY DEF UploadHiRes, Directory, Wrote, Types
  <2>7. UNCHANGED <<today, began, thumbnail, manifest, potd, fetched>>
    BY DEF UploadHiRes
  <2> HIDE <1>6
  <2>8. Types'
    BY <2>3, <2>5, <2>7 DEF Types
  <2>9. Confirmed'
    <3>1. \A d \in Days : hi_res[d] # 0 => hi_res'[d] # 0
      BY <2>5
    <3>2. /\ pc' \in {"hi_res", "manifest"} => item'.thumb \in Days /\ thumbnail'[item'.thumb] # 0
          /\ pc' = "manifest" => item'.image \in Days /\ hi_res'[item'.image] # 0
      BY <2>3, <2>4, <2>5, <2>7 DEF Types, Confirmed, ThumbIsThere, ImageIsThere
    <3> QED BY <2>7, <3>1, <3>2 DEF Confirmed, ThumbIsThere, ImageIsThere
  <2>10. ItemOfToday'
    BY <2>3, <2>4, <2>7 DEF Types, ItemOfToday
  <2>11. ImagesOfTheDay'
    <3>1. began = today => item.picture = today
      BY <2>4 DEF ItemOfToday
    <3>2. today \notin overnight' => hi_res'[today] \in {0, today}
      BY <2>5, <2>6, <3>1 DEF Types, ImagesOfTheDay
    <3> QED BY <2>5, <2>6, <2>7, <3>2 DEF Types, ImagesOfTheDay
  <2>12. OnePictureADay'
    BY <2>5, <2>6, <2>7 DEF Types, OnePictureADay, OfOneDay
  <2> QED BY <2>8, <2>9, <2>10, <2>11, <2>12 DEF IndInv
<1>7. CASE UploadManifest
  <2> USE <1>7 DEF UploadManifest, Overwritten, Directory, Wrote
  <2>1. Types'
    BY DEF Types
  <2>2. Confirmed'
    <3>1. \A d \in Days : \A m \in manifest'[d] : m = item \/ m \in manifest[d]
      BY DEF Types
    <3>2. UNCHANGED <<thumbnail, hi_res, potd, fetched>> /\ pc' = "idle"
      OBVIOUS
    <3>3. ThumbIsThere(item) /\ ImageIsThere(item)
      BY DEF Confirmed
    <3> QED BY <3>1, <3>2, <3>3 DEF Confirmed, ThumbIsThere, ImageIsThere
  <2>3. ItemOfToday'
    BY DEF Types, ItemOfToday
  <2>4. ImagesOfTheDay'
    BY DEF Types, ItemOfToday, ImagesOfTheDay
  <2>5. OnePictureADay'
    <3>1. \A d \in Days : \A m \in manifest'[d] : m \in manifest[d] \/ (d = today /\ m = item)
      BY DEF Types
    <3>2. UNCHANGED <<thumbnail, hi_res>> /\ overnight \subseteq overnight'
      OBVIOUS
    <3>3. manifest'[today] # manifest[today] /\ today \notin overnight' => began = today
      BY DEF Types
    <3>4. began = today /\ today \notin overnight' => OfOneDay(item, today)
      BY DEF Types, Confirmed, ThumbIsThere, ImageIsThere, ItemOfToday, ImagesOfTheDay, OfOneDay
    <3> QED BY <3>1, <3>2, <3>3, <3>4 DEF Types, OnePictureADay, OfOneDay
  <2> QED BY <2>1, <2>2, <2>3, <2>4, <2>5 DEF IndInv
<1>8. CASE JobFails
  <2> USE <1>8 DEF JobFails
  <2>1. Types'
    BY DEF Types
  <2>2. Confirmed'
    BY DEF Types, Confirmed, ThumbIsThere, ImageIsThere
  <2>3. ItemOfToday'
    BY DEF Types, ItemOfToday
  <2>4. ImagesOfTheDay'
    BY DEF Types, ItemOfToday, ImagesOfTheDay
  <2>5. OnePictureADay'
    BY DEF Types, Confirmed, ThumbIsThere, ImageIsThere, ItemOfToday,
           ImagesOfTheDay, OnePictureADay, OfOneDay
  <2> QED BY <2>1, <2>2, <2>3, <2>4, <2>5 DEF IndInv
<1> QED BY <1>1, <1>2, <1>3, <1>4, <1>5, <1>6, <1>7, <1>8 DEF Job

(* A step of a request that refreshes the cached picture (provider.py:52-105). *)
LEMMA ServeInv ==
  ASSUME IndInv, Midnight \/ Restart \/ \E r \in Requests : Serve(r)
  PROVE  IndInv'
<1> USE PotdAssumption DEF PotdAssumption, Days, Fault, IndInv, bucketVars, jobVars, serverVars
<1>1. CASE Midnight
  <2> USE <1>1 DEF Midnight
  <2>1. Types'
    BY DEF Types
  <2>2. Confirmed'
    BY DEF Types, Confirmed, ThumbIsThere, ImageIsThere
  <2>3. ItemOfToday'
    BY DEF Types, ItemOfToday
  <2>4. ImagesOfTheDay'
    BY DEF Types, ItemOfToday, ImagesOfTheDay
  <2>5. OnePictureADay'
    BY DEF Types, Confirmed, ThumbIsThere, ImageIsThere, ItemOfToday,
           ImagesOfTheDay, OnePictureADay, OfOneDay
  <2> QED BY <2>1, <2>2, <2>3, <2>4, <2>5 DEF IndInv
<1>2. CASE Restart
  <2> USE <1>2 DEF Restart
  <2>1. Types'
    BY DEF Types
  <2>2. Confirmed'
    BY DEF Types, Confirmed, ThumbIsThere, ImageIsThere
  <2>3. ItemOfToday'
    BY DEF Types, ItemOfToday
  <2>4. ImagesOfTheDay'
    BY DEF Types, ItemOfToday, ImagesOfTheDay
  <2>5. OnePictureADay'
    BY DEF Types, Confirmed, ThumbIsThere, ImageIsThere, ItemOfToday,
           ImagesOfTheDay, OnePictureADay, OfOneDay
  <2> QED BY <2>1, <2>2, <2>3, <2>4, <2>5 DEF IndInv
<1>3. CASE \E r \in Requests : Refresh(r)
  <2> USE <1>3 DEF Refresh
  <2>1. Types'
    BY DEF Types
  <2>2. Confirmed'
    BY DEF Types, Confirmed, ThumbIsThere, ImageIsThere
  <2>3. ItemOfToday'
    BY DEF Types, ItemOfToday
  <2>4. ImagesOfTheDay'
    BY DEF Types, ItemOfToday, ImagesOfTheDay
  <2>5. OnePictureADay'
    BY DEF Types, Confirmed, ThumbIsThere, ImageIsThere, ItemOfToday,
           ImagesOfTheDay, OnePictureADay, OfOneDay
  <2> QED BY <2>1, <2>2, <2>3, <2>4, <2>5 DEF IndInv
<1>4. CASE \E r \in Requests : Read(r)
  <2> USE <1>4 DEF Read, Directory
  <2>1. Types'
    BY DEF Types
  <2>2. Confirmed'
    BY DEF Types, Confirmed, ThumbIsThere, ImageIsThere
  <2>3. ItemOfToday'
    BY DEF Types, ItemOfToday
  <2>4. ImagesOfTheDay'
    BY DEF Types, ItemOfToday, ImagesOfTheDay
  <2>5. OnePictureADay'
    BY DEF Types, Confirmed, ThumbIsThere, ImageIsThere, ItemOfToday,
           ImagesOfTheDay, OnePictureADay, OfOneDay
  <2> QED BY <2>1, <2>2, <2>3, <2>4, <2>5 DEF IndInv
<1>5. CASE \E r \in Requests : Answer(r)
  <2> USE <1>5 DEF Answer
  <2>1. Types'
    BY DEF Types
  <2>2. Confirmed'
    BY DEF Types, Confirmed, ThumbIsThere, ImageIsThere
  <2>3. ItemOfToday'
    BY DEF Types, ItemOfToday
  <2>4. ImagesOfTheDay'
    BY DEF Types, ItemOfToday, ImagesOfTheDay
  <2>5. OnePictureADay'
    BY DEF Types, Confirmed, ThumbIsThere, ImageIsThere, ItemOfToday,
           ImagesOfTheDay, OnePictureADay, OfOneDay
  <2> QED BY <2>1, <2>2, <2>3, <2>4, <2>5 DEF IndInv
<1> QED BY <1>1, <1>2, <1>3, <1>4, <1>5 DEF Serve

-----------------------------------------------------------------------------
(* The inductive invariant holds in every reachable state of every instance.  *)
THEOREM Inductive == Spec => []IndInv
<1>1. IndInv /\ [Next]_vars => IndInv'
  <2> SUFFICES ASSUME IndInv, [Next]_vars PROVE IndInv'
    OBVIOUS
  <2>1. CASE UNCHANGED vars
    BY <2>1 DEF vars, bucketVars, jobVars, serverVars, IndInv, Types, Confirmed, ThumbIsThere,
                ImageIsThere, ItemOfToday, ImagesOfTheDay, OnePictureADay, OfOneDay
  <2> QED BY <2>1, JobInv, ServeInv DEF Next
<1> QED BY <1>1, InitInv, PTL DEF Spec

(* Whatever fails and wherever a job dies, a manifest points at images that    *)
(* are in the bucket (upload_potd_image, 283-286).                           *)
THEOREM ImagesConfirmed == Spec => []ImagesAreThere
<1>1. IndInv => ImagesAreThere
  BY DEF IndInv, Confirmed, ThumbIsThere, ImageIsThere, ImagesAreThere
<1> QED BY <1>1, Inductive, PTL

(* Without a job that runs overnight, the directory of a day is of that day   *)
(* in all its parts, although every step asks for the date again              *)
(* (build_potd_bucket_directory_path, 86-90).                                *)
THEOREM DirectoryOfADay == Spec => []OnePictureADay
<1>1. IndInv => OnePictureADay
  BY DEF IndInv
<1> QED BY <1>1, Inductive, PTL

(* The job, the bucket and the provider keep their types.                     *)
THEOREM TypeCorrect == Spec => []TypeOK
<1> DEFINE Rest == /\ pc \in {"idle", "fetch", "parse", "localize", "thumbnail", "hi_res", "manifest"}
                   /\ overnight \subseteq Days /\ faults \in 0..MaxFaults
                   /\ request \in [Requests -> {"idle", "thread", "fetched"}]
<1>0. MaxDay \in Nat /\ MaxFaults \in Nat
  BY PotdAssumption DEF PotdAssumption
<1>1. Init => Rest
  BY <1>0 DEF Init
<1>2. ASSUME IndInv, Rest, [Next]_vars PROVE Rest'
  <2>1. today \in Days
    BY <1>2 DEF IndInv, Types
  <2>2. CASE UNCHANGED vars \/ Midnight \/ Restart
    BY <1>0, <1>2, <2>2 DEF vars, jobVars, serverVars, Midnight, Restart, Fault
  <2>3. CASE Job \/ JobFails
    BY <1>0, <1>2, <2>1, <2>3 DEF Job, JobFails, Begin, Fetch, Parse, Localize, UploadThumbnail,
       UploadHiRes, UploadManifest, Wrote, Directory, Fault, serverVars
  <2>4. CASE \E r \in Requests : Serve(r)
    BY <1>0, <1>2, <2>4 DEF Serve, Refresh, Read, Answer, Fault, jobVars
  <2> QED BY <1>2, <2>2, <2>3, <2>4 DEF Next
<1>3. IndInv /\ Rest => TypeOK
  BY <1>0 DEF IndInv, Types, TypeOK, Days
<1> HIDE DEF Rest
<1> QED BY <1>1, <1>2, <1>3, Inductive, PTL DEF Spec
=============================================================================
