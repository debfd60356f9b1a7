------------------------- MODULE ParticleUpdateProofs --------------------------
(***************************************************************************)
(* Proofs about ParticleUpdate, for every number of versions, publications    *)
(* and faults.                                                             *)
(***************************************************************************)
EXTENDS ParticleUpdate, TLAPS

Working == pc \in {"channel", "stage", "deploy", "cleanup", "manifest"}

Types ==
    /\ remote \in Manifests /\ man \in Manifests
    /\ stored \in Manifests \cup {NoManifest} /\ gcs \in Manifests \cup {NoManifest}
    /\ root \in [Files -> 0..MaxVersion] /\ staging \in [Files -> 0..MaxVersion]
    /\ chan \in Channels /\ ok \in BOOLEAN
    /\ drift \in [Channels -> {"none", "halfway", "ahead", "left"}]

(* The channels that were updated come before the one at hand.               *)
InOrder ==
    /\ pc = "read" => updated = {}
    /\ Working => /\ updated \subseteq {"daily", "runtime"} /\ gcs = stored
                  /\ pc # "manifest" => chan \notin updated
                  /\ chan = "daily" => updated = {} /\ pc # "manifest"

(* Staging is complete but for todo; deploying moves it, unless a move failed.*)
Progress ==
    /\ pc = "stage" => todo \subseteq FilesOf(man, chan)
                       /\ \A f \in FilesOf(man, chan) \ todo : staging[f] = man[chan]
    /\ pc = "deploy" =>
           /\ todo \subseteq FilesOf(man, chan)
           /\ ok => \A f \in FilesOf(man, chan) :
                        IF f \in todo THEN staging[f] = man[chan] ELSE root[f] = man[chan]
    /\ pc = "cleanup" => todo = Old(chan) /\ Serves(chan, man[chan]) /\ drift[chan] = "ahead"

(* What a run has updated is served.                                         *)
UpdatedServed == Working => \A c \in updated : Serves(c, man[c])

(* StoredIsServed at every moment.                                           *)
StoredOrDrifting ==
    stored # NoManifest =>
        \A c \in Channels : \/ Serves(c, stored[c]) \/ drift[c] # "none"
                            \/ pc = "deploy" /\ chan = c

IndInv ==
    /\ Types /\ InOrder /\ Progress /\ UpdatedServed /\ StoredOrDrifting
    /\ PlayableUnlessDeployFails

-----------------------------------------------------------------------------
(* A page and its asset are two different files of the manifest.              *)
LEMMA FilesFacts ==
  ASSUME NEW c \in Channels, NEW m \in Manifests
  PROVE  /\ Page(c) \in Files /\ Asset(c, m[c]) \in Files /\ Page(c) # Asset(c, m[c])
         /\ FilesOf(m, c) = {Page(c), Asset(c, m[c])} /\ m[c] \in Versions
  BY ParticleAssumption DEF ParticleAssumption, Files, Page, Asset, FilesOf, Manifests, Versions

(* Nothing is staged, and the bucket serves what the stored manifest says.    *)
LEMMA InitInv == Init => IndInv
<1> SUFFICES ASSUME Init PROVE IndInv
  OBVIOUS
<1>1. Types
  BY ParticleAssumption DEF ParticleAssumption, Init, Types, Manifests, Versions, Channels
<1>2. InOrder /\ Progress /\ UpdatedServed /\ StoredOrDrifting
  BY DEF Init, InOrder, Progress, UpdatedServed, StoredOrDrifting, Working
<1>3. PlayableUnlessDeployFails
  BY ParticleAssumption DEF ParticleAssumption, Init, PlayableUnlessDeployFails, Files, Page
<1> QED BY <1>1, <1>2, <1>3 DEF IndInv

(* The steps before anything is staged, a death of the job and a publication. *)
LEMMA FetchInv ==
  ASSUME IndInv, Fetch \/ ReadStored \/ ReadFails \/ Compare \/ Crash \/ \E c \in Channels : Publish(c)
  PROVE  IndInv'
<1> USE ParticleAssumption DEF ParticleAssumption, IndInv, bucketVars, remoteVars, localVars
<1>1. CASE \E c \in Channels : Publish(c)
  <2> USE <1>1 DEF Publish
  <2>1. Types'
    BY DEF Types, Manifests, Versions
  <2>2. InOrder'
    BY DEF Types, InOrder, Working
  <2>3. Progress'
    BY DEF Progress, Old, FilesOf, Serves
  <2>4. UpdatedServed'
    BY DEF Types, InOrder, UpdatedServed, Working, Serves
  <2>5. StoredOrDrifting'
    BY DEF Types, StoredOrDrifting, Serves
  <2>6. PlayableUnlessDeployFails'
    BY DEF Types, PlayableUnlessDeployFails, Serves
  <2> QED BY <2>1, <2>2, <2>3, <2>4, <2>5, <2>6 DEF IndInv
<1>2. CASE Fetch
  <2> USE <1>2 DEF Fetch
  <2>1. Types'
    BY DEF Types
  <2>2. InOrder'
    BY DEF Types, InOrder, Working
  <2>3. Progress'
    BY DEF Types, InOrder, Progress, Working
  <2>4. UpdatedServed'
    BY DEF Types, InOrder, UpdatedServed, Working, Serves
  <2>5. StoredOrDrifting'
    BY DEF Types, StoredOrDrifting, Serves
  <2>6. PlayableUnlessDeployFails'
    BY DEF Types, PlayableUnlessDeployFails, Serves
  <2> QED BY <2>1, <2>2, <2>3, <2>4, <2>5, <2>6 DEF IndInv
<1>3. CASE ReadStored
  <2> USE <1>3 DEF ReadStored, Channels
  <2>1. Types'
    BY DEF Types
  <2>2. InOrder'
    BY DEF Types, InOrder, Working
  <2>3. Progress'
    BY DEF Types, InOrder, Progress, Working
  <2>4. UpdatedServed'
    BY DEF Types, InOrder, UpdatedServed, Working, Serves
  <2>5. StoredOrDrifting'
    BY DEF Types, StoredOrDrifting, Serves
  <2>6. PlayableUnlessDeployFails'
    BY DEF Types, PlayableUnlessDeployFails, Serves
  <2> QED BY <2>1, <2>2, <2>3, <2>4, <2>5, <2>6 DEF IndInv
<1>4. CASE ReadFails
  <2> USE <1>4 DEF ReadFails
  <2>1. Types'
    BY DEF Types
  <2>2. InOrder'
    BY DEF Types, InOrder, Working
  <2>3. Progress'
    BY DEF Types, InOrder, Progress, Working
  <2>4. UpdatedServed'
    BY DEF Types, InOrder, UpdatedServed, Working, Serves
  <2>5. StoredOrDrifting'
    BY DEF Types, StoredOrDrifting, Serves
  <2>6. PlayableUnlessDeployFails'
    BY DEF Types, PlayableUnlessDeployFails, Serves
  <2> QED BY <2>1, <2>2, <2>3, <2>4, <2>5, <2>6 DEF IndInv
<1>5. CASE Compare
  <2> USE <1>5 DEF Compare, Return, AnyUpdated, Channels
  <2>1. Types'
    BY DEF Types
  <2>2. InOrder'
    BY DEF Types, InOrder, Working
  <2>3. Progress'
    BY DEF Types, InOrder, Progress, Working
  <2>4. UpdatedServed'
    BY DEF Types, InOrder, UpdatedServed, Working, Serves
  <2>5. StoredOrDrifting'
    BY DEF Types, StoredOrDrifting, Serves
  <2>6. PlayableUnlessDeployFails'
    BY DEF Types, PlayableUnlessDeployFails, Serves
  <2> QED BY <2>1, <2>2, <2>3, <2>4, <2>5, <2>6 DEF IndInv
<1>6. CASE Crash
  <2> USE <1>6 DEF Crash
  <2>1. Types'
    BY DEF Types
  <2>2. InOrder'
    BY DEF Types, InOrder, Working
  <2>3. Progress'
    BY DEF Types, InOrder, Progress, Working
  <2>4. UpdatedServed'
    BY DEF Types, InOrder, UpdatedServed, Working, Serves
  <2>5. StoredOrDrifting'
    BY DEF Types, StoredOrDrifting, Serves
  <2>6. PlayableUnlessDeployFails'
    BY DEF Types, PlayableUnlessDeployFails, Serves
  <2> QED BY <2>1, <2>2, <2>3, <2>4, <2>5, <2>6 DEF IndInv
<1> QED BY <1>1, <1>2, <1>3, <1>4, <1>5, <1>6

(* Staging leaves the root as it is (stage_files).                            *)
LEMMA StageInv ==
  ASSUME IndInv, \E f \in Files : Stage(f) \/ StageFails(f)
  PROVE  IndInv'
<1> USE ParticleAssumption DEF ParticleAssumption, IndInv, bucketVars, remoteVars, localVars
<1>1. CASE \E f \in Files : Stage(f)
  <2> USE <1>1 DEF Stage, Verified
  <2>1. Types'
    <3>1. man[chan] \in 0..MaxVersion
      BY FilesFacts DEF Types, Versions
    <3> QED BY <3>1 DEF Types
  <2>2. InOrder'
    BY DEF Types, InOrder, Working
  <2>3. Progress'
    BY DEF Types, InOrder, Progress, Working
  <2>4. UpdatedServed'
    BY DEF Types, InOrder, UpdatedServed, Working, Serves
  <2>5. StoredOrDrifting'
    BY DEF Types, StoredOrDrifting, Serves
  <2>6. PlayableUnlessDeployFails'
    BY DEF Types, PlayableUnlessDeployFails, Serves
  <2> QED BY <2>1, <2>2, <2>3, <2>4, <2>5, <2>6 DEF IndInv
<1>2. CASE \E f \in Files : StageFails(f)
  <2> USE <1>2 DEF StageFails, Return, AnyUpdated, Channels
  <2>1. Types'
    <3>1. man[chan] \in 0..MaxVersion
      BY FilesFacts DEF Types, Versions
    <3> QED BY <3>1 DEF Types
  <2>2. InOrder'
    BY DEF Types, InOrder, Working
  <2>3. Progress'
    BY DEF Types, InOrder, Progress, Working
  <2>4. UpdatedServed'
    BY DEF Types, InOrder, UpdatedServed, Working, Serves
  <2>5. StoredOrDrifting'
    BY DEF Types, StoredOrDrifting, Serves
  <2>6. PlayableUnlessDeployFails'
    BY DEF Types, PlayableUnlessDeployFails, Serves
  <2> QED BY <2>1, <2>2, <2>3, <2>4, <2>5, <2>6 DEF IndInv
<1> QED BY <1>1, <1>2

(* The files of the other channels stay.                                     *)
LEMMA OtherChannels ==
  ASSUME NEW c, \A g \in Files : g[1] = c \/ root'[g] = root[g]
  PROVE  \A d \in Channels \ {c} :
             /\ root'[Page(d)] = root[Page(d)]
             /\ \A v \in 0..MaxVersion : root'[Asset(d, v)] = root[Asset(d, v)]
<1> TAKE d \in Channels \ {c}
<1>1. Page(d) \in Files /\ Page(d)[1] = d
  BY ParticleAssumption DEF ParticleAssumption, Files, Page
<1>2. root'[Page(d)] = root[Page(d)]
  BY <1>1
<1>3. ASSUME NEW v \in 0..MaxVersion PROVE root'[Asset(d, v)] = root[Asset(d, v)]
  <2>1. Asset(d, v) \in Files /\ Asset(d, v)[1] = d
    BY DEF Files, Asset
  <2> QED BY <2>1
<1> QED BY <1>2, <1>3

(* One turn of deploy_staged_files, whether or not the move succeeded.        *)
LEMMA MovedInv ==
  ASSUME IndInv, pc = "deploy", NEW f \in todo, NEW success \in BOOLEAN, Moved(f, success),
         success => ok /\ root'[f] = staging[f],
         root' \in [Files -> 0..MaxVersion], staging' \in [Files -> 0..MaxVersion],
         \A g \in Files \ {f} : root'[g] = root[g] /\ staging'[g] = staging[g],
         UNCHANGED <<remoteVars, stored, man, gcs>>
  PROVE  IndInv'
<1> USE DEF IndInv, remoteVars
<1> DEFINE F == FilesOf(man, chan)
           V == man[chan]
<1>1. /\ chan \in Channels /\ V \in 0..MaxVersion
      /\ F = {Page(chan), Asset(chan, V)} /\ F \subseteq Files /\ f \in F /\ todo \subseteq F
      /\ f[1] = chan
  <2>1. chan \in Channels /\ man \in Manifests /\ todo \subseteq F
    BY DEF Types, Progress
  <2>2. V \in Versions /\ F = {Page(chan), Asset(chan, V)} /\ F \subseteq Files
    BY <2>1, FilesFacts
  <2>3. Page(chan)[1] = chan /\ Asset(chan, V)[1] = chan
    BY DEF Page, Asset
  <2> QED BY <2>1, <2>2, <2>3 DEF Versions
<1>2. \A g \in Files : g[1] = chan \/ root'[g] = root[g]
  BY <1>1
<1>3. \A d \in Channels \ {chan} :
          /\ root'[Page(d)] = root[Page(d)]
          /\ \A v \in 0..MaxVersion : root'[Asset(d, v)] = root[Asset(d, v)]
  BY <1>2, OtherChannels
<1>4. /\ root'[Page(chan)] = root[Page(chan)] \/ pc = "deploy"
      /\ \A d \in Channels : /\ root[Page(d)] \in 0..MaxVersion
                             /\ man[d] \in 0..MaxVersion
                             /\ stored # NoManifest => stored[d] \in 0..MaxVersion
  BY FilesFacts DEF Types, Manifests, Versions
<1>5. CASE todo # {f}
  <2>1. /\ todo' = todo \ {f} /\ ok' = success /\ UNCHANGED <<pc, chan, updated, drift>>
    BY <1>5 DEF Moved
  <2>2. Types' /\ InOrder'
    BY <2>1 DEF Types, InOrder, Working
  <2>3. Progress'
    <3>1. success => \A g \in F : IF g \in todo' THEN staging'[g] = V ELSE root'[g] = V
      BY <1>1, <2>1 DEF Progress
    <3> QED BY <1>1, <2>1, <3>1 DEF Progress, FilesOf
  <2>4. UpdatedServed'
    <3>1. updated' = updated /\ chan \notin updated /\ Working
      BY <2>1 DEF InOrder, Working
    <3>2. \A d \in updated : d \in Channels
      BY <3>1 DEF InOrder, Channels
    <3> QED BY <1>3, <1>4, <3>1, <3>2 DEF UpdatedServed, Serves
  <2>5. StoredOrDrifting' /\ PlayableUnlessDeployFails'
    BY <1>3, <1>4, <2>1 DEF StoredOrDrifting, PlayableUnlessDeployFails, Serves
  <2> QED BY <2>2, <2>3, <2>4, <2>5
<1>6. CASE todo = {f} /\ success
  <2>1. /\ drift' = [drift EXCEPT ![chan] = "ahead"]
        /\ pc' = "cleanup" /\ todo' = Old(chan) /\ ok' = success /\ UNCHANGED <<chan, updated>>
    BY <1>6 DEF Moved
  <2>2. \A g \in F : root'[g] = V
    BY <1>1, <1>6 DEF Progress
  <2>3. root'[Page(chan)] = V /\ root'[Asset(chan, V)] = V
    BY <1>1, <2>2
  <2>4. Types' /\ InOrder'
    BY <2>1 DEF Types, InOrder, Working
  <2>5. drift'[chan] = "ahead" /\ \A d \in Channels \ {chan} : drift'[d] = drift[d]
    BY <1>1, <2>1 DEF Types
  <2>6. Progress'
    BY <2>1, <2>3, <2>5 DEF Progress, Serves, Old, FilesOf
  <2>7. UpdatedServed'
    <3>1. updated' = updated /\ chan \notin updated /\ Working
      BY <2>1 DEF InOrder, Working
    <3>2. \A d \in updated : d \in Channels
      BY <3>1 DEF InOrder, Channels
    <3> QED BY <1>3, <1>4, <3>1, <3>2 DEF UpdatedServed, Serves
  <2>8. StoredOrDrifting' /\ PlayableUnlessDeployFails'
    BY <1>3, <1>4, <2>1, <2>3, <2>5 DEF StoredOrDrifting, PlayableUnlessDeployFails, Serves
  <2> QED BY <2>4, <2>6, <2>7, <2>8
<1>7. CASE todo = {f} /\ ~success
  <2>1. drift' = [drift EXCEPT ![chan] = "halfway"] /\ Return(updated) /\ todo' = {} /\ ok' = success
    BY <1>7 DEF Moved
  <2>2. drift'[chan] = "halfway" /\ \A d \in Channels \ {chan} : drift'[d] = drift[d]
    BY <1>1, <2>1 DEF Types
  <2>3. Types' /\ InOrder' /\ Progress'
    BY <2>1 DEF Types, InOrder, Progress, Working, Return, AnyUpdated, Channels
  <2>4. UpdatedServed'
    <3>1. updated' = updated /\ chan \notin updated /\ Working
      BY <2>1 DEF InOrder, Working, Return
    <3>2. \A d \in updated : d \in Channels
      BY <3>1 DEF InOrder, Channels
    <3> QED BY <1>3, <1>4, <3>1, <3>2 DEF UpdatedServed, Serves
  <2>5. StoredOrDrifting' /\ PlayableUnlessDeployFails'
    BY <1>3, <1>4, <2>2 DEF StoredOrDrifting, PlayableUnlessDeployFails, Serves
  <2> QED BY <2>3, <2>4, <2>5
<1> QED BY <1>5, <1>6, <1>7

(* One file is moved into the root: only the channel at work changes.         *)
LEMMA MoveInv ==
  ASSUME IndInv, NEW f \in Files, Move(f) \/ MoveFails(f)
  PROVE  IndInv'
<1>1. staging \in [Files -> 0..MaxVersion] /\ root \in [Files -> 0..MaxVersion] /\ ok \in BOOLEAN
  BY DEF IndInv, Types
<1>2. CASE Move(f)
  <2>1. pc = "deploy" /\ f \in todo /\ Moved(f, ok) /\ UNCHANGED <<remoteVars, stored, man, gcs>>
    BY <1>2 DEF Move
  <2>2. /\ root' = [root EXCEPT ![f] = staging[f]] /\ staging' = [staging EXCEPT ![f] = 0]
    BY <1>2 DEF Move
  <2>3. /\ root' \in [Files -> 0..MaxVersion] /\ staging' \in [Files -> 0..MaxVersion]
        /\ \A g \in Files \ {f} : root'[g] = root[g] /\ staging'[g] = staging[g]
        /\ root'[f] = staging[f]
    BY <1>1, <2>2, ParticleAssumption DEF ParticleAssumption
  <2> QED BY <1>1, <2>1, <2>3, MovedInv
<1>3. CASE MoveFails(f)
  <2>1. /\ pc = "deploy" /\ f \in todo /\ Moved(f, FALSE)
        /\ UNCHANGED <<remoteVars, staging, stored, man, gcs>>
        /\ root' \in {root, [root EXCEPT ![f] = staging[f]]}
    BY <1>3 DEF MoveFails
  <2>2. /\ root' \in [Files -> 0..MaxVersion]
        /\ \A g \in Files \ {f} : root'[g] = root[g]
    BY <1>1, <2>1
  <2> QED BY <1>1, <2>1, <2>2, MovedInv
<1> QED BY <1>2, <1>3

(* Cleaning up deletes what the page in place does not use.                   *)
LEMMA CleanupInv ==
  ASSUME IndInv, Cleanup
  PROVE  IndInv'
<1> USE DEF IndInv, remoteVars
<1> DEFINE V == man[chan]
<1>1. /\ pc = "cleanup" /\ Return(updated \cup {chan}) /\ todo' = {}
      /\ UNCHANGED <<remoteVars, staging, stored, man, gcs, ok, drift>>
      /\ \E gone \in SUBSET todo : root' = [f \in Files |-> IF f \in gone THEN 0 ELSE root[f]]
  BY DEF Cleanup
<1>2. /\ root' \in [Files -> 0..MaxVersion]
      /\ \A g \in Files \ todo : root'[g] = root[g]
  BY <1>1, ParticleAssumption DEF Types, ParticleAssumption
<1>3. chan \in Channels /\ V \in 0..MaxVersion /\ Page(chan) \in Files /\ Asset(chan, V) \in Files
  BY FilesFacts DEF Types, Versions
<1>4. /\ Page(chan) \notin todo /\ Asset(chan, V) \notin todo
      /\ \A g \in todo : g[1] = chan
  BY <1>1 DEF Progress, Old, FilesOf, Page, Asset
<1>5. \A g \in Files : g[1] = chan \/ root'[g] = root[g]
  BY <1>2, <1>4
<1>6. root'[Page(chan)] = V /\ root'[Asset(chan, V)] = V
  BY <1>1, <1>2, <1>3, <1>4 DEF Progress, Serves
<1>7. \A d \in Channels \ {chan} :
          /\ root'[Page(d)] = root[Page(d)]
          /\ \A v \in 0..MaxVersion : root'[Asset(d, v)] = root[Asset(d, v)]
  BY <1>5, OtherChannels
<1>8. \A d \in Channels : /\ root[Page(d)] \in 0..MaxVersion
                          /\ man[d] \in 0..MaxVersion
                          /\ stored # NoManifest => stored[d] \in 0..MaxVersion
  BY FilesFacts DEF Types, Manifests, Versions
<1>9. Types' /\ InOrder' /\ Progress'
  BY <1>1, <1>2 DEF Types, InOrder, Progress, Working, Return, AnyUpdated, Channels
<1>10. UpdatedServed'
  <2>1. updated' = updated \cup {chan} /\ Working /\ \A d \in updated : d \in Channels \ {chan}
    BY <1>1 DEF InOrder, Working, Return, Channels
  <2> QED BY <1>1, <1>6, <1>7, <1>8, <2>1 DEF UpdatedServed, Serves
<1>11. StoredOrDrifting' /\ PlayableUnlessDeployFails'
  BY <1>1, <1>6, <1>7, <1>8 DEF Progress, StoredOrDrifting, PlayableUnlessDeployFails, Serves
<1> QED BY <1>9, <1>10, <1>11

(* Storing the manifest describes what the channels just got (update_manifest). *)
LEMMA StoreInv ==
  ASSUME IndInv, UploadManifest \/ UploadFails
  PROVE  IndInv'
<1> USE DEF IndInv, remoteVars, localVars
<1>1. /\ pc = "manifest" /\ pc' = "idle" /\ UNCHANGED <<remoteVars, root, staging, localVars>>
      /\ Store(man) \/ UNCHANGED <<stored, drift>>
  BY DEF UploadManifest, UploadFails, Fetched
<1>2. CASE Store(man)
  <2>1. /\ stored' = man /\ drift' \in [Channels -> {"none", "halfway", "ahead", "left"}]
        /\ \A c \in Channels :
               \/ c \in updated /\ drift'[c] = "none"
               \/ c \notin updated /\ drift'[c] = "left" /\ drift[c] # "halfway"
               \/ c \notin updated /\ drift'[c] = drift[c]
                  /\ (drift[c] = "halfway" \/ ~Outdated(c))
    BY <1>2 DEF Store, Types
  <2>2. Types' /\ InOrder' /\ Progress' /\ UpdatedServed'
    BY <1>1, <2>1 DEF Types, InOrder, Progress, UpdatedServed, Working
  <2>3. \A c \in updated : c \in Channels => root[Page(c)] = man[c] /\ Serves(c, man[c])
    BY <1>1 DEF UpdatedServed, Working, Serves
  <2>4. \A c \in Channels : ~Outdated(c) => stored # NoManifest /\ man[c] = stored[c]
    BY <1>1 DEF Outdated, InOrder, Working
  <2>5. StoredOrDrifting'
    BY <1>1, <2>1, <2>3, <2>4 DEF StoredOrDrifting, Serves
  <2>6. PlayableUnlessDeployFails'
    BY <1>1, <2>1, <2>3 DEF PlayableUnlessDeployFails, Serves
  <2> QED BY <2>2, <2>5, <2>6
<1>3. CASE UNCHANGED <<stored, drift>>
  BY <1>1, <1>3 DEF Types, InOrder, Progress, UpdatedServed, Working, StoredOrDrifting,
                    PlayableUnlessDeployFails, Serves
<1> QED BY <1>1, <1>2, <1>3

-----------------------------------------------------------------------------
(* The inductive invariant holds in every reachable state of every instance.  *)
THEOREM Inductive == Spec => []IndInv
<1>1. IndInv /\ [Next]_vars => IndInv'
  <2> SUFFICES ASSUME IndInv, [Next]_vars PROVE IndInv'
    OBVIOUS
  <2>1. CASE UNCHANGED vars
    BY <2>1 DEF vars, bucketVars, remoteVars, localVars, IndInv, Types, InOrder, Progress,
                UpdatedServed, StoredOrDrifting, PlayableUnlessDeployFails, Working, Serves,
                Old, FilesOf
  <2> QED BY <2>1, FetchInv, StageInv, MoveInv, CleanupInv, StoreInv DEF Next, Job
<1> QED BY <1>1, InitInv, PTL DEF Spec

(* A page never lacks its asset, whatever was staged, cleaned up, released or *)
(* rolled back, but while its files are moved or when that was cut short      *)
(* (deploy_staged_files, 154-179).                                           *)
THEOREM Playable == Spec => []PlayableUnlessDeployFails
<1>1. IndInv => PlayableUnlessDeployFails
  BY DEF IndInv
<1> QED BY <1>1, Inductive, PTL

(* Between runs the stored manifest tells what is served, but for the named   *)
(* ways to drift (update_manifest, particle.md:65).                          *)
THEOREM StoredDescribes == Spec => []StoredIsServed
<1>1. IndInv => StoredIsServed
  BY DEF IndInv, StoredOrDrifting, StoredIsServed
<1> QED BY <1>1, Inductive, PTL

(* The job, the bucket and the publisher keep their types: in particular a     *)
(* job only ever handles files of the two channels.                          *)
THEOREM TypeCorrect == Spec => []TypeOK
<1> DEFINE Rest == /\ publishes \in 0..MaxPublishes /\ faults \in 0..MaxFaults
                   /\ pc \in {"idle", "read", "channel", "stage", "deploy", "cleanup", "manifest"}
                   /\ todo \subseteq Files /\ updated \subseteq Channels
<1>0. MaxPublishes \in Nat /\ MaxFaults \in Nat
  BY ParticleAssumption DEF ParticleAssumption
<1>1. Init => Rest
  BY <1>0 DEF Init
<1>2. ASSUME IndInv, Rest, [Next]_vars PROVE Rest'
  <2>1. FilesOf(man, chan) \subseteq Files /\ Old(chan) \subseteq Files /\ chan \in Channels
    BY <1>2, FilesFacts DEF IndInv, Types, Old, FilesOf
  <2>2. CASE UNCHANGED vars
    BY <1>2, <2>2 DEF vars, bucketVars, remoteVars, localVars
  <2>3. CASE Fetch \/ ReadStored \/ ReadFails \/ Compare \/ Cleanup \/ UploadManifest \/ UploadFails \/ Crash
    BY <1>0, <1>2, <2>1, <2>3 DEF Fetch, ReadStored, ReadFails, Compare, Cleanup, UploadManifest,
       UploadFails, Crash, Fault, Return, localVars, remoteVars
  <2>4. CASE \E f \in Files : Stage(f) \/ StageFails(f)
    BY <1>0, <1>2, <2>1, <2>4 DEF Stage, StageFails, Fault, Return, remoteVars
  <2>5. CASE \E f \in Files : Move(f) \/ MoveFails(f)
    BY <1>0, <1>2, <2>1, <2>5 DEF Move, MoveFails, Moved, Fault, Return, remoteVars
  <2>6. CASE \E c \in Channels : Publish(c)
    BY <1>0, <1>2, <2>6 DEF Publish, localVars
  <2> QED BY <1>2, <2>2, <2>3, <2>4, <2>5, <2>6 DEF Next, Job
<1>3. IndInv /\ Rest => TypeOK
  BY DEF IndInv, Types, TypeOK
<1> HIDE DEF Rest
<1> QED BY <1>1, <1>2, <1>3, Inductive, PTL DEF Spec
=============================================================================
