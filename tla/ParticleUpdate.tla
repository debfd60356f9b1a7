---------------------------- MODULE ParticleUpdate -----------------------------
(***************************************************************************)
(* merino.providers.games.particle: the job that copies a game from its       *)
(* publisher into a GCS bucket, channel by channel, blue/green, and stores    *)
(* the publisher's manifest last.  Cron starts it again and again; it may die *)
(* anywhere.  The files of a version of a channel are a page, whose name in   *)
(* the bucket all versions share (index.html of the runtime, the puzzle       *)
(* document of the daily channel), and an asset whose name carries a hash of  *)
(* its content.  The content of a file is the version it belongs to.         *)
(***************************************************************************)
EXTENDS Naturals

CONSTANTS
    MaxVersion,     \* bound: versions of a channel
    MaxPublishes,   \* bound: times the publisher changes a channel
    MaxFaults       \* bound: requests that fail and jobs that die

ASSUME ParticleAssumption ==
    /\ MaxVersion \in Nat \ {0}
    /\ MaxPublishes \in Nat /\ MaxFaults \in Nat

(* RemoteChannelEnum.                                                        *)
Channels == {"daily", "runtime"}

Versions == 1..MaxVersion

(* The name of a file: the page of its channel, or the asset of a version.    *)
Page(c) == <<c, 0>>

Asset(c, v) == <<c, v>>

Files == Channels \X (0..MaxVersion)

(* get_files_from_manifest_for_channel, in no particular order.              *)
FilesOf(manifest, c) == {Page(c), Asset(c, manifest[c])}

Manifests == [Channels -> Versions]

(* No manifest in the bucket yet.                                            *)
NoManifest == [c \in Channels |-> 0]

VARIABLES
    remote,      \* the publisher's manifest: the version of each channel
    publishes,   \* times it changed
    root,        \* the bucket root: the content of each file, 0 for none
    staging,     \* the green folder
    stored,      \* the manifest in the bucket
    pc,          \* idle, read, channel, stage, deploy, cleanup or manifest
    chan,        \* the channel that update_channel_files is at
    man,         \* remote_manifest_json
    gcs,         \* gcs_manifest_json
    todo,        \* the files that the loop has not reached
    ok,          \* deploy_staged_files: success
    updated,     \* the channels for which it returned True
    faults,      \* requests that failed and jobs that died
    drift        \* history: why the stored manifest may not tell what is served

bucketVars == <<root, staging, stored>>
remoteVars == <<remote, publishes>>
localVars == <<chan, man, gcs, todo, ok, updated>>
vars == <<remoteVars, bucketVars, pc, localVars, faults, drift>>

Init ==
    /\ remote = [c \in Channels |-> 1] /\ publishes = 0
    /\ root = [f \in Files |-> 0] /\ staging = [f \in Files |-> 0]
    /\ stored = NoManifest
    /\ pc = "idle" /\ chan = "daily" /\ man = remote /\ gcs = NoManifest
    /\ todo = {} /\ ok = TRUE /\ updated = {}
    /\ faults = 0
    /\ drift = [c \in Channels |-> "none"]

(* The publisher releases a version of a channel, or goes back to one.        *)
Publish(c) ==
    /\ publishes < MaxPublishes
    /\ \E v \in Versions \ {remote[c]} : remote' = [remote EXCEPT ![c] = v]
    /\ publishes' = publishes + 1
    /\ UNCHANGED <<bucketVars, pc, localVars, faults, drift>>

Fault ==
    /\ faults < MaxFaults
    /\ faults' = faults + 1

-----------------------------------------------------------------------------
(* run_update_process: the manifest is fetched and valid.                    *)
Fetch ==
    /\ pc = "idle"
    /\ pc' = "read"
    /\ man' = remote
    /\ updated' = {}
    /\ UNCHANGED <<remoteVars, bucketVars, chan, gcs, todo, ok, faults, drift>>

(* fetch_manifest_json_from_gcs.                                             *)
ReadStored ==
    /\ pc = "read"
    /\ pc' = "channel" /\ chan' = "daily"
    /\ gcs' = stored
    /\ UNCHANGED <<remoteVars, bucketVars, man, todo, ok, updated, faults, drift>>

(* It raises: return early.                                                  *)
ReadFails ==
    /\ pc = "read"
    /\ Fault
    /\ pc' = "idle"
    /\ UNCHANGED <<remoteVars, bucketVars, localVars, drift>>

(* Whether a manifest is stored after a run.  Mutant: only if all channels    *)
(* were updated.                                                             *)
AllUpdated(u) == u = Channels

AnyUpdated(u) == u # {}

(* update_channel_files returns: daily first, then runtime, then the manifest.*)
Return(u) ==
    /\ updated' = u
    /\ chan' = "runtime"
    /\ pc' = IF chan = "daily" THEN "channel"
             ELSE IF AnyUpdated(u) THEN "manifest" ELSE "idle"

(* remote_manifest_channel_is_updated.                                       *)
Outdated(c) == gcs = NoManifest \/ man[c] # gcs[c]

Compare ==
    /\ pc = "channel"
    /\ \/ /\ Outdated(chan)
          /\ pc' = "stage" /\ todo' = FilesOf(man, chan)
          /\ UNCHANGED <<chan, updated>>
       \/ /\ ~Outdated(chan)
          /\ Return(updated)
          /\ UNCHANGED todo
    /\ UNCHANGED <<remoteVars, bucketVars, man, gcs, ok, faults, drift>>

(* What downloading a file gives: the puzzle document is the publisher's      *)
(* current one; the other files, index.html among them, have a name of their  *)
(* own for every version on the publisher's side.                            *)
Downloaded(f) == IF f = Page("daily") THEN remote["daily"] ELSE man[chan]

(* sha_target = sha_computed.  Mutant: not compared.                         *)
AnyContent(f) == TRUE

Verified(f) == Downloaded(f) = man[chan]

(* One turn of stage_channel_files: download, verify and upload.             *)
Stage(f) ==
    /\ pc = "stage" /\ f \in todo
    /\ Verified(f)
    /\ staging' = [staging EXCEPT ![f] = Downloaded(f)]
    /\ IF todo = {f} THEN pc' = "deploy" /\ todo' = FilesOf(man, chan)
                     ELSE todo' = todo \ {f} /\ UNCHANGED pc
    /\ ok' = TRUE
    /\ UNCHANGED <<remoteVars, root, stored, chan, man, gcs, updated, faults, drift>>

(* A file cannot be downloaded, is not the one of the manifest or is not      *)
(* uploaded (although it may have landed): the loop ends, and the files       *)
(* uploaded before are deleted, as far as the deletions succeed.             *)
StageFails(f) ==
    /\ pc = "stage" /\ f \in todo
    /\ Fault \/ (~Verified(f) /\ UNCHANGED faults)
    /\ \E gone \in SUBSET (FilesOf(man, chan) \ todo), landed \in {staging[f], man[chan]} :
           staging' = [g \in Files |-> IF g \in gone THEN 0
                                       ELSE IF g = f THEN landed ELSE staging[g]]
    /\ Return(updated)
    /\ todo' = {}
    /\ UNCHANGED <<remoteVars, root, stored, man, gcs, ok, drift>>

(* get_files_for_cleanup_for_channel: the files of the stored manifest that   *)
(* the new one does not have.                                                *)
Old(c) == IF gcs = NoManifest THEN {} ELSE FilesOf(gcs, c) \ FilesOf(man, c)

(* The loop of deploy_staged_files goes on after a move that failed; cleanup  *)
(* follows only when none did.                                               *)
Moved(f, success) ==
    /\ ok' = success
    /\ IF todo # {f} THEN todo' = todo \ {f} /\ UNCHANGED <<pc, chan, updated, drift>>
       ELSE /\ drift' = [drift EXCEPT ![chan] = IF success THEN "ahead" ELSE "halfway"]
            /\ IF success THEN pc' = "cleanup" /\ todo' = Old(chan) /\ UNCHANGED <<chan, updated>>
                          ELSE Return(updated) /\ todo' = {}

Move(f) ==
    /\ pc = "deploy" /\ f \in todo
    /\ root' = [root EXCEPT ![f] = staging[f]]
    /\ staging' = [staging EXCEPT ![f] = 0]
    /\ Moved(f, ok)
    /\ UNCHANGED <<remoteVars, stored, man, gcs, faults>>

(* move_file raises, before or after it copied the file.                     *)
MoveFails(f) ==
    /\ pc = "deploy" /\ f \in todo
    /\ Fault
    /\ root' \in {root, [root EXCEPT ![f] = staging[f]]}
    /\ Moved(f, FALSE)
    /\ UNCHANGED <<remoteVars, staging, stored, man, gcs>>

(* cleanup_old_files_for_channel: a deletion that fails is not repeated.      *)
Cleanup ==
    /\ pc = "cleanup"
    /\ \E gone \in SUBSET todo :
           root' = [f \in Files |-> IF f \in gone THEN 0 ELSE root[f]]
    /\ Return(updated \cup {chan})
    /\ todo' = {}
    /\ UNCHANGED <<remoteVars, staging, stored, man, gcs, ok, faults, drift>>

(* The manifest lands: it tells the version of the channels just updated, and *)
(* claims the new version of those that were not.                            *)
Store(manifest) ==
    /\ stored' = manifest
    /\ drift' = [c \in Channels |->
                     IF c \in updated THEN "none"
                     ELSE IF Outdated(c) /\ drift[c] # "halfway" THEN "left" ELSE drift[c]]

(* The manifest that is stored.  Mutant: the one the publisher has by now.    *)
Refetched == remote

Fetched == man

(* update_manifest.                                                          *)
UploadManifest ==
    /\ pc = "manifest"
    /\ pc' = "idle"
    /\ Store(Fetched)
    /\ UNCHANGED <<remoteVars, root, staging, localVars, faults>>

(* The upload raises, before or after it landed.                             *)
UploadFails ==
    /\ pc = "manifest"
    /\ Fault
    /\ pc' = "idle"
    /\ Store(Fetched) \/ UNCHANGED <<stored, drift>>
    /\ UNCHANGED <<remoteVars, root, staging, localVars>>

(* The job dies; the next one starts from the bucket.                        *)
Crash ==
    /\ pc # "idle"
    /\ Fault
    /\ pc' = "idle"
    /\ drift' = IF pc = "deploy" THEN [drift EXCEPT ![chan] = "halfway"] ELSE drift
    /\ UNCHANGED <<remoteVars, bucketVars, localVars>>

-----------------------------------------------------------------------------
Job ==
    \/ Fetch \/ ReadStored \/ ReadFails \/ Compare
    \/ \E f \in Files : Stage(f) \/ StageFails(f) \/ Move(f) \/ MoveFails(f)
    \/ Cleanup \/ UploadManifest \/ UploadFails

Next == Job \/ Crash \/ \E c \in Channels : Publish(c)

Spec == Init /\ [][Next]_vars

(* Cron starts the job again and again, and every request ends.              *)
FairSpec == Spec /\ WF_vars(Job)

-----------------------------------------------------------------------------
TypeOK ==
    /\ remote \in Manifests /\ publishes \in 0..MaxPublishes
    /\ root \in [Files -> 0..MaxVersion] /\ staging \in [Files -> 0..MaxVersion]
    /\ \A m \in {stored, gcs} : m \in Manifests \cup {NoManifest}
    /\ pc \in {"idle", "read", "channel", "stage", "deploy", "cleanup", "manifest"}
    /\ chan \in Channels /\ man \in Manifests
    /\ todo \subseteq Files /\ ok \in BOOLEAN /\ updated \subseteq Channels
    /\ faults \in 0..MaxFaults
    /\ drift \in [Channels -> {"none", "halfway", "ahead", "left"}]

(* The bucket serves a version of a channel: its page and the page's asset.   *)
Serves(c, v) == root[Page(c)] = v /\ root[Asset(c, v)] = v

(* "the game may be in a broken state" (filemanager.py:171) only while its    *)
(* files are being moved, or when the last move of them was cut short: a      *)
(* page always has its assets, whatever was staged, cleaned up, stored,       *)
(* released or rolled back, and wherever a job died.                         *)
PlayableUnlessDeployFails ==
    \A c \in Channels :
        \/ root[Page(c)] = 0 \/ Serves(c, root[Page(c)])
        \/ pc = "deploy" /\ chan = c
        \/ drift[c] = "halfway"

(* The stored manifest "describes the current version of Particle we are      *)
(* serving" (particle.md:65), except for a channel whose deployment was cut   *)
(* short, one deployed by a run that could not store its manifest, and one    *)
(* that a run left behind when it stored the manifest for the other channel. *)
StoredIsServed ==
    pc = "idle" /\ stored # NoManifest =>
        \A c \in Channels : Serves(c, stored[c]) \/ drift[c] # "none"

(* A run that fails is made up for by the next ones (provider.py:71, 97-98):  *)
(* as long as the publisher's manifest is not the stored one, they try.      *)
ManifestCatchesUp == <>[](stored = remote)
=============================================================================
