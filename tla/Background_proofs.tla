-------------------------- MODULE Background_proofs ---------------------------
(* What holds of the components that are about one thing each, for any number *)
(* of builds, services, environments, branches and consumers, any limits and  *)
(* any number of restarts.                                                    *)
(*                                                                            *)
(* Builds: while a build lives it is in memory (InMemoryWhileLive), so no     *)
(* tool looks for it on disk, and no earlier lookup can still be under way,   *)
(* for its file did not say that it runs before it was in memory (NoLookupYet,*)
(* NotOnDiskYet).  And what can be published stays: fewer than Keep builds    *)
(* ended after one of the newest (EndedOnce), so that no retention that has   *)
(* counted them removes it, however long that retention takes (NewestSpared). *)
(*                                                                            *)
(* Services: who starts or replaces a container has the registry's mutex      *)
(* (HoldsRegistry), and who has found a volume or an image unused has it too, *)
(* so that nothing comes to use it before it is removed (FoundUnused).        *)
(*                                                                            *)
(* Add-ons: what was handed out is recent until its container mounts it, and  *)
(* a removal knows of all that is mounted (Spared); a checkout that somebody  *)
(* has, or will have, is there (Kept).                                        *)
(*                                                                            *)
(* Generations: outside a refresh an environment is of one piece (AsOne,      *)
(* Mounts); during one, each of its parts is old or new as the step says      *)
(* (Midway); a refresh that was left in between keeps its journal, and with   *)
(* it all of the old data (Left, Returnable), whose generation nobody deletes *)
(* (OnDisk).                                                                  *)
EXTENDS MCFocus, FiniteSetTheorems, TLAPS

focusVars == <<focus, migVars, genVars, svcVars, buildVars, addonVars>>

-----------------------------------------------------------------------------
(* Builds.                                                                   *)

Live == {"created", "saved", "sealed", "building"}

(* The part of BuildTypeOK that is about each build by itself.                *)
JobsTyped ==
    /\ thread \in [Builds -> {"unborn", "created", "saved", "sealed", "building", "decided",
                              "written", "retention", "pruning", "over"}]
    /\ known \in [Builds -> {"none"} \cup Running \cup Terminal]
    /\ file \in [Builds -> {"none"} \cup Running \cup Terminal]
    /\ lookup \in [Builds -> {"none", "stale", "marked"}]

InMemoryWhileLive == \A b \in Builds : thread[b] \in Live => b \in active

NoLookupYet ==
    \A b \in Builds : thread[b] \in Live \cup {"unborn"} => lookup[b] = "none"

NotOnDiskYet ==
    \A b \in Builds : thread[b] \in {"unborn", "created"} => file[b] = "none"

(* Only a build that ended is published, and so saved as one that succeeded.  *)
NotPublished ==
    \A b \in Builds : thread[b] \in Live \cup {"unborn"} => b \notin publishing

OnDiskWhileLive ==
    \A b \in Builds : thread[b] \in Live \ {"created"} => file[b] \in Running

HasContext == \A b \in Builds : thread[b] \in {"sealed", "building"} => b \in sealed

BuildInv ==
    /\ JobsTyped /\ InMemoryWhileLive /\ NoLookupYet /\ NotOnDiskYet
    /\ NotPublished /\ OnDiskWhileLive /\ HasContext

(* A build's own steps touch what is kept of no other build.                  *)
LEMMA OwnSteps ==
    ASSUME BuildInv, NEW b \in Builds,
           \/ CreateJob(b) \/ SaveJob(b) \/ SnapshotContext(b) \/ RunBuild(b) \/ WorkerTags(b)
           \/ WorkerEnds(b) \/ SaveOutcome(b) \/ DropContext(b) \/ FindOld(b) \/ PruneOne(b)
    PROVE  BuildInv'
<1> USE DEF BuildInv, JobsTyped, InMemoryWhileLive, NoLookupYet, NotOnDiskYet, NotPublished,
            OnDiskWhileLive, HasContext, Live, Running, Terminal, Goes, Status, Saved, Disk, Others
<1>1. CASE CreateJob(b) BY <1>1 DEF CreateJob
<1>2. CASE SaveJob(b) BY <1>2 DEF SaveJob
<1>3. CASE SnapshotContext(b) BY <1>3 DEF SnapshotContext, Decide
<1>4. CASE RunBuild(b) BY <1>4 DEF RunBuild
<1>5. CASE WorkerTags(b) BY <1>5 DEF WorkerTags
<1>6. CASE WorkerEnds(b)
  <2>1. PICK s \in {"failed", "cancelled", "succeeded"} : Decide(b, s)
    BY <1>6 DEF WorkerEnds
  <2>2. UNCHANGED <<Disk, Others>> BY <1>6 DEF WorkerEnds
  <2>. QED BY <2>1, <2>2 DEF Decide
<1>7. CASE SaveOutcome(b) BY <1>7 DEF SaveOutcome
<1>8. CASE DropContext(b) BY <1>8 DEF DropContext
<1>9. CASE FindOld(b) BY <1>9 DEF FindOld
<1>10. CASE PruneOne(b) BY <1>10 DEF PruneOne
<1>. QED BY <1>1, <1>2, <1>3, <1>4, <1>5, <1>6, <1>7, <1>8, <1>9, <1>10

(* What tools do with a build: a publication and a lookup find its record on  *)
(* disk and the build not in memory, so it has ended.                         *)
LEMMA ToolSteps ==
    ASSUME BuildInv, NEW b \in Builds,
           \/ Publish(b) \/ Published(b) \/ Cancel(b)
           \/ ReadStale(b) \/ MarkInterrupted(b) \/ SweepContext(b)
    PROVE  BuildInv'
<1> USE DEF BuildInv, JobsTyped, InMemoryWhileLive, NoLookupYet, NotOnDiskYet, NotPublished,
            OnDiskWhileLive, HasContext, Live, Running, Terminal, Saved, Disk, Others
<1>1. CASE Publish(b) BY <1>1 DEF Publish
<1>2. CASE Published(b) BY <1>2 DEF Published
<1>3. CASE Cancel(b) BY <1>3 DEF Cancel
<1>4. CASE ReadStale(b) BY <1>4 DEF ReadStale, InMemory
<1>5. CASE MarkInterrupted(b) BY <1>5 DEF MarkInterrupted
<1>6. CASE SweepContext(b) BY <1>6 DEF SweepContext
<1>. QED BY <1>1, <1>2, <1>3, <1>4, <1>5, <1>6

(* A death ends every build and every lookup of its process.                  *)
LEMMA AfterADeath == BuildInv /\ ServerDies => BuildInv'
  BY DEF BuildInv, JobsTyped, InMemoryWhileLive, NoLookupYet, NotOnDiskYet, NotPublished,
         OnDiskWhileLive, HasContext, Live, Running, Terminal, ServerDies, Disk

(* Both are invariants of the builds,                                        *)
LEMMA BuildInductive == BuildSpec => []BuildInv
<1>1. BuildInit => BuildInv
  BY DEF BuildInit, BuildInv, JobsTyped, InMemoryWhileLive, NoLookupYet, NotOnDiskYet,
         NotPublished, OnDiskWhileLive, HasContext, Live
<1>2. BuildInv /\ [BuildNext]_buildVars => BuildInv'
  <2>. SUFFICES ASSUME BuildInv, [BuildNext]_buildVars PROVE BuildInv' OBVIOUS
  <2>1. CASE BuildNext BY <2>1, OwnSteps, ToolSteps, AfterADeath DEF BuildNext
  <2>2. CASE UNCHANGED buildVars
    BY <2>2 DEF buildVars, BuildInv, JobsTyped, InMemoryWhileLive, NoLookupYet, NotOnDiskYet,
                NotPublished, OnDiskWhileLive, HasContext
  <2>. QED BY <2>1, <2>2
<1>. QED BY <1>1, <1>2, PTL DEF BuildSpec

(* A tool that looks at a build never takes a live one for a dead one's       *)
(* remains: it keeps its context and its record (BuildJobStore.load).         *)
THEOREM LiveBuildsAreLeftAlone == BuildSpec => []LiveBuildsKeepTheirContext
<1>1. BuildInv => LiveBuildsKeepTheirContext
  BY DEF BuildInv, LiveBuildsKeepTheirContext, NoLookupYet, OnDiskWhileLive, HasContext, Live
<1>. QED BY BuildInductive, <1>1, PTL

-----------------------------------------------------------------------------
(* The builds that succeeded, in the order in which they ended, and what the  *)
(* retentions under way are still to remove.                                  *)
EndedTyped == ended \in Seq(Builds) /\ doomed \in [Builds -> SUBSET Builds]

(* A build ends once, and does not live any more.                             *)
EndedOnce ==
    /\ \A i, j \in DOMAIN ended : ended[i] = ended[j] => i = j
    /\ \A i \in DOMAIN ended : thread[ended[i]] \notin Live \cup {"unborn"}

(* A retention removes images of builds that have ended.                      *)
DoomedEnded == \A b \in Builds : \A v \in doomed[b] : \E i \in DOMAIN ended : v = ended[i]

(* The newest are there, and no retention that has begun is to remove one.    *)
NewestSpared ==
    \A i \in DOMAIN ended : i > Len(ended) - Keep =>
        ended[i] \in image /\ \A b \in Builds : ended[i] \notin doomed[b]

EndedInv ==
    EndedTyped /\ EndedOnce /\ DoomedEnded /\ NewestSpared /\ publishing \subseteq image

(* Fewer than Keep builds come after one of the newest Keep.                  *)
LEMMA NewestNotExpendable ==
    ASSUME EndedTyped, EndedOnce, NEW i \in DOMAIN ended, i > Len(ended) - Keep
    PROVE  ended[i] \notin Expendable(Keep)
<1> DEFINE Later == {k \in Successes : k > i}
<1>1. DOMAIN ended = 1..Len(ended) /\ Len(ended) \in Nat /\ i \in 1..Len(ended)
  BY DEF EndedTyped
<1>2. Later \subseteq (i + 1)..Len(ended)
  BY <1>1 DEF Successes
<1>3. /\ IsFiniteSet((i + 1)..Len(ended))
      /\ Cardinality((i + 1)..Len(ended)) = Len(ended) - i
  <2>1. i + 1 \in Int /\ Len(ended) \in Int
    BY <1>1
  <2>2. /\ IsFiniteSet((i + 1)..Len(ended))
        /\ Cardinality((i + 1)..Len(ended)) =
              IF i + 1 > Len(ended) THEN 0 ELSE Len(ended) - (i + 1) + 1
    BY <2>1, FS_Interval, Zenon
  <2>. QED BY <1>1, <2>2
<1>4. IsFiniteSet(Later) /\ Cardinality(Later) <= Len(ended) - i
  BY <1>2, <1>3, FS_Subset
<1>5. Cardinality(Later) < Keep
  BY <1>1, <1>4, FS_CardinalityType, BuildConstants
<1>. QED
  <2> SUFFICES ASSUME NEW j \in Successes, ended[i] = ended[j],
                      Cardinality({k \in Successes : k > j}) >= Keep
               PROVE  FALSE
    BY DEF Expendable
  <2>1. j = i
    BY DEF EndedOnce, Successes
  <2>. QED
    BY <2>1, <1>4, <1>5, FS_CardinalityType, BuildConstants

(* A build that succeeds is the newest, and has an image nobody is to remove. *)
LEMMA OneMoreEnded ==
    ASSUME BuildInv, EndedInv, NEW b \in Builds, thread[b] = "building", b \in image,
           Decide(b, "succeeded"), UNCHANGED <<Disk, Others>>
    PROVE  EndedInv'
<1> DEFINE n == Len(ended) + 1
<1>1. /\ ended' = Append(ended, b) /\ ended' \in Seq(Builds) /\ Len(ended') = n /\ n \in Nat
      /\ DOMAIN ended' = 1..n /\ DOMAIN ended = 1..(n - 1)
      /\ ended'[n] = b /\ \A i \in DOMAIN ended : ended'[i] = ended[i]
  BY DEF Decide, EndedInv, EndedTyped
<1>2. UNCHANGED <<image, doomed, publishing>>
  BY DEF Disk, Others
<1>3. \A i \in DOMAIN ended : ended[i] # b
  BY DEF EndedInv, EndedOnce, Live
<1>4. thread' = [thread EXCEPT ![b] = "decided"]
  BY DEF Decide, Goes
<1> HIDE DEF n
<1>5. EndedTyped'
  BY <1>1, <1>2 DEF EndedInv, EndedTyped
<1>6. EndedOnce'
  <2>1. \A i, j \in DOMAIN ended' : ended'[i] = ended'[j] => i = j
    BY <1>1, <1>3 DEF EndedInv, EndedOnce
  <2>2. \A i \in DOMAIN ended' : ended'[i] # b => thread'[ended'[i]] \notin Live \cup {"unborn"}
    BY <1>1, <1>4 DEF EndedInv, EndedOnce, EndedTyped, BuildInv, JobsTyped
  <2>3. thread'[b] \notin Live \cup {"unborn"}
    BY <1>4 DEF BuildInv, JobsTyped, Live
  <2>. QED
    BY <2>1, <2>2, <2>3 DEF EndedOnce
<1>7. DoomedEnded'
  BY <1>1, <1>2 DEF EndedInv, DoomedEnded
<1>8. NewestSpared'
  <2> SUFFICES ASSUME NEW i \in DOMAIN ended', i > n - Keep
               PROVE  ended'[i] \in image /\ \A c \in Builds : ended'[i] \notin doomed[c]
    BY <1>1, <1>2 DEF NewestSpared
  <2>1. CASE i = n
    BY <2>1, <1>1, <1>3 DEF EndedInv, DoomedEnded
  <2>2. CASE i # n
    <3>1. i \in DOMAIN ended /\ Len(ended) = n - 1 /\ i > Len(ended) - Keep
      BY <2>2, <1>1, BuildConstants DEF EndedInv, EndedTyped
    <3>. QED
      BY <3>1, <1>1 DEF EndedInv, NewestSpared
  <2>. QED BY <2>1, <2>2
<1>. QED BY <1>2, <1>5, <1>6, <1>7, <1>8 DEF EndedInv

(* Steps that do not end a build as successful nor remove an image.           *)
LEMMA NothingEnds ==
    ASSUME BuildInv, EndedInv, UNCHANGED <<ended, doomed>>, image \subseteq image',
           publishing' \subseteq image',
           \A b \in Builds : thread'[b] \in Live \cup {"unborn"} =>
                                thread[b] \in Live \cup {"unborn"}
    PROVE  EndedInv'
<1>1. EndedOnce'
  BY DEF EndedInv, EndedOnce, EndedTyped
<1>2. EndedTyped' /\ DoomedEnded' /\ NewestSpared'
  BY DEF EndedInv, EndedTyped, DoomedEnded, NewestSpared
<1>. QED BY <1>1, <1>2 DEF EndedInv

(* A retention that begins, and one that removes an image or nothing more.    *)
LEMMA RetentionSteps ==
    ASSUME BuildInv, EndedInv, NEW b \in Builds, FindOld(b) \/ PruneOne(b)
    PROVE  EndedInv'
<1>1. ended' = ended /\ publishing' = publishing
  BY DEF FindOld, PruneOne
<1>2. \A c \in Builds : thread'[c] \in Live \cup {"unborn"} => thread[c] \in Live \cup {"unborn"}
  BY DEF FindOld, PruneOne, Goes, BuildInv, JobsTyped, Live
<1>3. EndedOnce'
  BY <1>1, <1>2 DEF EndedInv, EndedOnce, EndedTyped
<1>4. CASE FindOld(b)
  <2>1. doomed' = [doomed EXCEPT ![b] = Expendable(Keep)] /\ image' = image
    BY <1>4 DEF FindOld, Disk
  <2>2. \A v \in Expendable(Keep) : \E i \in DOMAIN ended : v = ended[i]
    BY DEF Expendable, Successes
  <2>3. Expendable(Keep) \subseteq Builds
    BY <2>2 DEF EndedInv, EndedTyped
  <2>4. EndedTyped' /\ DoomedEnded'
    BY <1>1, <2>1, <2>2, <2>3 DEF EndedInv, EndedTyped, DoomedEnded
  <2>5. NewestSpared'
    BY <1>1, <2>1, NewestNotExpendable DEF EndedInv, EndedTyped, NewestSpared
  <2>. QED BY <1>1, <1>3, <2>1, <2>4, <2>5 DEF EndedInv
<1>5. CASE PruneOne(b)
  <2>1. \A c \in Builds : doomed'[c] \subseteq doomed[c]
    BY <1>5 DEF PruneOne, EndedInv, EndedTyped
  <2>2. doomed' \in [Builds -> SUBSET Builds]
    BY <1>5 DEF PruneOne, EndedInv, EndedTyped
  <2>3. image' = image \/ \E v \in doomed[b] : v \notin publishing /\ image' = image \ {v}
    BY <1>5 DEF PruneOne, Unpublished
  <2>4. EndedTyped' /\ DoomedEnded'
    BY <1>1, <2>1, <2>2 DEF EndedInv, EndedTyped, DoomedEnded
  <2>5. NewestSpared'
    BY <1>1, <2>1, <2>3 DEF EndedInv, NewestSpared
  <2>6. publishing \subseteq image'
    BY <2>3 DEF EndedInv
  <2>. QED BY <1>1, <1>3, <2>4, <2>5, <2>6 DEF EndedInv
<1>. QED BY <1>4, <1>5

(* and so is what was counted.                                               *)
LEMMA EndedInductive == BuildSpec => []EndedInv
<1>1. BuildInit => EndedInv
  BY DEF BuildInit, EndedInv, EndedTyped, EndedOnce, DoomedEnded, NewestSpared
<1>2. BuildInv /\ EndedInv /\ [BuildNext]_buildVars => EndedInv'
  <2>. SUFFICES ASSUME BuildInv, EndedInv, [BuildNext]_buildVars PROVE EndedInv' OBVIOUS
  <2>1. publishing \subseteq image BY DEF EndedInv
  <2>. USE DEF Goes, Status, Saved, Disk, Others, Live
  <2>2. ASSUME NEW b \in Builds, CreateJob(b) \/ SaveJob(b) \/ RunBuild(b) PROVE EndedInv'
    BY <2>1, <2>2, NothingEnds DEF CreateJob, SaveJob, RunBuild, BuildInv, JobsTyped
  <2>3. ASSUME NEW b \in Builds, SnapshotContext(b) PROVE EndedInv'
    BY <2>1, <2>3, NothingEnds DEF SnapshotContext, Decide, BuildInv, JobsTyped
  <2>4. ASSUME NEW b \in Builds, WorkerTags(b) PROVE EndedInv'
    BY <2>1, <2>4, NothingEnds DEF WorkerTags
  <2>5. ASSUME NEW b \in Builds, WorkerEnds(b) PROVE EndedInv'
    <3>1. CASE b \in image /\ Decide(b, "succeeded")
      BY <2>5, <3>1, OneMoreEnded DEF WorkerEnds
    <3>2. CASE Decide(b, "failed") \/ Decide(b, "cancelled")
      BY <2>1, <2>5, <3>2, NothingEnds DEF WorkerEnds, Decide, BuildInv, JobsTyped
    <3>. QED BY <2>5, <3>1, <3>2 DEF WorkerEnds
  <2>6. ASSUME NEW b \in Builds, SaveOutcome(b) \/ DropContext(b) PROVE EndedInv'
    BY <2>1, <2>6, NothingEnds DEF SaveOutcome, DropContext, BuildInv, JobsTyped
  <2>7. ASSUME NEW b \in Builds, Publish(b) \/ Published(b) \/ Cancel(b) PROVE EndedInv'
    BY <2>1, <2>7, NothingEnds DEF Publish, Published, Cancel
  <2>8. ASSUME NEW b \in Builds, ReadStale(b) \/ MarkInterrupted(b) \/ SweepContext(b)
        PROVE  EndedInv'
    BY <2>1, <2>8, NothingEnds DEF ReadStale, MarkInterrupted, SweepContext
  <2>9. CASE ServerDies
    <3>1. /\ ended' = ended /\ image' = image /\ publishing' = {}
          /\ doomed' = [b \in Builds |-> {}]
          /\ \A b \in Builds : thread'[b] \in Live \cup {"unborn"} => thread[b] = "unborn"
      BY <2>9 DEF ServerDies
    <3>2. EndedOnce'
      BY <3>1 DEF EndedInv, EndedOnce, EndedTyped
    <3>3. EndedTyped' /\ DoomedEnded' /\ NewestSpared'
      BY <3>1 DEF EndedInv, EndedTyped, DoomedEnded, NewestSpared
    <3>. QED BY <3>1, <3>2, <3>3 DEF EndedInv
  <2>10. CASE UNCHANGED buildVars
    BY <2>1, <2>10, NothingEnds DEF buildVars
  <2>. QED
    BY <2>2, <2>3, <2>4, <2>5, <2>6, <2>7, <2>8, <2>9, <2>10, RetentionSteps DEF BuildNext
<1>. QED BY BuildInductive, <1>1, <1>2, PTL DEF BuildSpec

SetsTyped ==
    /\ active \subseteq Builds /\ told \subseteq Builds /\ sealed \subseteq Builds
    /\ image \subseteq Builds /\ publishing \subseteq Builds /\ buildDeaths \in 0..MaxBuildDeaths

(* What is kept of a build, in memory and on disk, keeps its type.            *)
THEOREM BuildTypes == BuildSpec => []BuildTypeOK
<1>1. BuildInit => SetsTyped BY BuildConstants DEF BuildInit, SetsTyped
<1>2. SetsTyped /\ [BuildNext]_buildVars => SetsTyped'
  <2>. SUFFICES ASSUME SetsTyped, [BuildNext]_buildVars PROVE SetsTyped' OBVIOUS
  <2>. USE DEF SetsTyped, Goes, Status, Saved, Disk, Others
  <2>1. ASSUME NEW b \in Builds, CreateJob(b) \/ SaveJob(b) \/ SnapshotContext(b) \/ RunBuild(b)
        PROVE  SetsTyped'
    BY <2>1 DEF CreateJob, SaveJob, SnapshotContext, RunBuild, Decide
  <2>2. ASSUME NEW b \in Builds, WorkerTags(b) \/ WorkerEnds(b) \/ SaveOutcome(b) \/ DropContext(b)
        PROVE  SetsTyped'
    BY <2>2 DEF WorkerTags, WorkerEnds, Decide, SaveOutcome, DropContext
  <2>3. ASSUME NEW b \in Builds, FindOld(b) \/ PruneOne(b) PROVE SetsTyped'
    BY <2>3 DEF FindOld, PruneOne
  <2>4. ASSUME NEW b \in Builds, Publish(b) \/ Published(b) \/ Cancel(b) PROVE SetsTyped'
    BY <2>4 DEF Publish, Published, Cancel
  <2>5. ASSUME NEW b \in Builds, ReadStale(b) \/ MarkInterrupted(b) \/ SweepContext(b)
        PROVE  SetsTyped'
    BY <2>5 DEF ReadStale, MarkInterrupted, SweepContext
  <2>6. CASE ServerDies BY <2>6, BuildConstants DEF ServerDies
  <2>7. CASE UNCHANGED buildVars BY <2>7 DEF buildVars
  <2>. QED BY <2>1, <2>2, <2>3, <2>4, <2>5, <2>6, <2>7 DEF BuildNext
<1>3. BuildInv /\ EndedInv /\ SetsTyped => BuildTypeOK
  BY DEF BuildInv, JobsTyped, EndedInv, EndedTyped, SetsTyped, BuildTypeOK
<1>. QED BY BuildInductive, EndedInductive, <1>1, <1>2, <1>3, PTL DEF BuildSpec

(* A publication has its image until it has pushed every tag, and the images  *)
(* of the last builds that succeeded stay, however many retentions run at     *)
(* once (docker_ops/build_ops.py: _prune_staging_images).                     *)
THEOREM PublishableStays == BuildSpec => []PublishableIsThere
<1>1. EndedInv => PublishableIsThere
  BY DEF EndedInv, NewestSpared, PublishableIsThere
<1>. QED BY EndedInductive, <1>1, PTL

-----------------------------------------------------------------------------
(* Services.                                                                 *)

(* Who replaces or starts a container has the team's registry, in which the  *)
(* image was found again.                                                    *)
HoldsRegistry ==
    \A s \in Names : at[s] \in {"remove", "start"} =>
        mutex = s /\ Service!Here(cfg[s].image)

(* A service that has the registry is between its entry and its release.     *)
HeldByOne == \A s \in Names : mutex = s => at[s] \in {"remove", "start", "save", "write"}

(* What is replaced runs until it is removed.                                *)
Replaces ==
    \A s \in Names :
        /\ at[s] \in {"pull", "enter", "remove"} /\ s \notin fresh => unit[s] # None
        /\ at[s] = "remove" => s \notin fresh
        /\ at[s] = "write" => draft[s] \in Service!Files

(* What was found unused stays so, since no container starts meanwhile.      *)
FoundUnused ==
    /\ mutex = "volume" => ~Service!Mounted
    /\ mutex = "retention" => ~Service!RunsStaged

SvcInv ==
    /\ Service!SvcTypeOK /\ HoldsRegistry /\ HeldByOne /\ Replaces /\ FoundUnused
    /\ Service!UsesWhatExists /\ Service!WithinSlots

(* The names of services are none of the other holders of the registry.      *)
LEMMA SvcNames ==
    /\ Service!IsFiniteSet(Names) /\ Nobody \notin Names /\ None \notin Names
    /\ "volume" \notin Names /\ "retention" \notin Names
    /\ Nobody # "volume" /\ Nobody # "retention"
    /\ None \notin Service!Configs /\ Slots \in Nat \ {0}
    /\ MaxVersions \in Nat /\ MaxFailures \in Nat
BY FocusConstants DEF Service!SvcConstants, Service!Configs

(* The set operators of the instance are those of the library.               *)
LEMMA SvcCounting ==
    ASSUME NEW S
    PROVE  Service!Cardinality(S) = Cardinality(S) /\ (Service!IsFiniteSet(S) <=> IsFiniteSet(S))
<1>1. Service!Cardinality(S) = Cardinality(S) BY DEF Service!Cardinality, Cardinality
<1>2. Service!IsFiniteSet(S) <=> IsFiniteSet(S) BY DEF Service!IsFiniteSet, IsFiniteSet
<1>. QED BY <1>1, <1>2

Units(u) == {s \in Names : u[s] # None}

(* Fewer containers need fewer slots, and one more needs one more.           *)
LEMMA SlotsCounted ==
    ASSUME NEW u, NEW w, NEW s \in Names
    PROVE  /\ Service!Cardinality(Units(u)) \in Nat
           /\ Units(w) \subseteq Units(u) => Service!Cardinality(Units(w)) <= Service!Cardinality(Units(u))
           /\ Units(w) \subseteq Units(u) \cup {s} =>
                Service!Cardinality(Units(w)) <= Service!Cardinality(Units(u)) + 1
           /\ Units(w) \subseteq Units(u) \ {s} /\ s \in Units(u) =>
                Service!Cardinality(Units(w)) < Service!Cardinality(Units(u))
<1>1. IsFiniteSet(Names) BY SvcNames, SvcCounting
<1>2. IsFiniteSet(Units(u)) /\ IsFiniteSet(Units(w))
  BY <1>1, FS_Subset DEF Units
<1>3. Cardinality(Units(u)) \in Nat /\ Cardinality(Units(w)) \in Nat BY <1>2, FS_CardinalityType
<1>4. Units(w) \subseteq Units(u) => Cardinality(Units(w)) <= Cardinality(Units(u))
  BY <1>2, FS_Subset
<1>5. IsFiniteSet(Units(u) \cup {s}) /\ Cardinality(Units(u) \cup {s}) <= Cardinality(Units(u)) + 1
  <2>1. IsFiniteSet(Units(u) \cup {s})
        /\ (Cardinality(Units(u) \cup {s}) = Cardinality(Units(u))
            \/ Cardinality(Units(u) \cup {s}) = Cardinality(Units(u)) + 1)
    BY <1>2, FS_AddElement
  <2>. QED BY <1>3, <2>1
<1>6. Units(w) \subseteq Units(u) \cup {s} => Cardinality(Units(w)) <= Cardinality(Units(u)) + 1
  <2>1. IsFiniteSet(Units(u) \cup {s}) BY <1>5
  <2>2. Cardinality(Units(u) \cup {s}) \in Nat BY <2>1, FS_CardinalityType
  <2>3. Units(w) \subseteq Units(u) \cup {s} => Cardinality(Units(w)) <= Cardinality(Units(u) \cup {s})
    BY <2>1, FS_Subset
  <2>. QED BY <1>3, <1>5, <2>2, <2>3
<1>7. s \in Units(u) => IsFiniteSet(Units(u) \ {s}) /\ Cardinality(Units(u) \ {s}) = Cardinality(Units(u)) - 1
  BY <1>2, FS_RemoveElement
<1>8. Units(w) \subseteq Units(u) \ {s} /\ s \in Units(u) => Cardinality(Units(w)) < Cardinality(Units(u))
  <2> SUFFICES ASSUME Units(w) \subseteq Units(u) \ {s}, s \in Units(u)
               PROVE  Cardinality(Units(w)) < Cardinality(Units(u))
    OBVIOUS
  <2>1. Cardinality(Units(w)) <= Cardinality(Units(u) \ {s}) BY <1>7, FS_Subset
  <2>. QED BY <1>3, <1>7, <2>1
<1>. QED BY <1>3, <1>4, <1>6, <1>8, SvcCounting

SvcTyped == Service!SvcTypeOK
SvcHeld == HoldsRegistry /\ HeldByOne /\ Replaces /\ FoundUnused
SvcUsed == Service!UsesWhatExists /\ Service!WithinSlots

(* A service is created,                                                     *)
LEMMA BeginCreateKeeps ==
    ASSUME SvcInv, NEW s \in Names, Service!BeginCreate(s)
    PROVE SvcInv'
<1>1. SvcTyped'
  BY SvcNames DEF SvcInv, Service!SvcTypeOK, SvcTyped, Service!BeginCreate, Replaces,
     Service!Move, Service!Works, Service!Lasting, Service!Mountable, Service!HasSlot,
     Service!Files, Service!Configs
<1>2. SvcHeld'
  <2>1. HoldsRegistry'
    <3> SUFFICES ASSUME NEW r \in Names, at'[r] \in {"remove", "start"}
                 PROVE  mutex' = r /\ Service!Here(cfg[r].image) /\ tag' = tag /\ cfg'[r] = cfg[r]
      BY DEF HoldsRegistry, Service!Here
    <3>1. r # s
      BY SvcNames DEF SvcInv, Service!SvcTypeOK, Service!BeginCreate, HoldsRegistry, Service!Move,
         Service!Works
    <3>2. at[r] = at'[r] /\ cfg'[r] = cfg[r] /\ tag' = tag
      BY <3>1, SvcNames DEF SvcInv, Service!SvcTypeOK, Service!BeginCreate, Service!Move,
         Service!Works, Service!Lasting, Service!Files
    <3>3. mutex = r /\ Service!Here(cfg[r].image) BY <3>2 DEF SvcInv, HoldsRegistry
    <3>4. mutex' = r
      BY <3>1, <3>3 DEF Service!BeginCreate
    <3>. QED BY <3>2, <3>3, <3>4
  <2>2. HeldByOne'
    BY SvcNames DEF SvcInv, Service!SvcTypeOK, Service!BeginCreate, HoldsRegistry, HeldByOne,
       Replaces, Service!Files, Service!Configs, Service!Move, Service!Works, Service!Lasting,
       Service!Mountable, Service!Here, Service!HasSlot
  <2>3. Replaces'
    BY SvcNames DEF SvcInv, Service!SvcTypeOK, Service!BeginCreate, HoldsRegistry, HeldByOne,
       Replaces, Service!Files, Service!Configs, Service!Move, Service!Works, Service!Lasting,
       Service!Mountable, Service!Here, Service!HasSlot
  <2>4. FoundUnused'
    BY SvcNames DEF SvcInv, Service!SvcTypeOK, Service!BeginCreate, HoldsRegistry, HeldByOne,
       FoundUnused, Service!Move, Service!Works, Service!Lasting, Service!Mountable, Service!Here,
       Service!HasSlot, Service!Mounted, Service!RunsStaged
  <2>. QED BY <2>1, <2>2, <2>3, <2>4 DEF SvcHeld
<1>3. Service!UsesWhatExists'
  BY SvcNames DEF SvcInv, Service!UsesWhatExists, Service!SvcTypeOK, Service!BeginCreate,
     HoldsRegistry, HeldByOne, Replaces, FoundUnused, Service!Move, Service!Works,
     Service!Lasting, Service!Mountable, Service!Here, Service!HasSlot, Service!Mounted,
     Service!RunsStaged, Service!Configs, Service!Files
<1>4. Service!WithinSlots'
  BY SvcNames, SlotsCounted DEF SvcInv, Service!WithinSlots, Units, Service!SvcTypeOK,
     Service!BeginCreate, HoldsRegistry, HeldByOne, Replaces, Service!Move, Service!Works,
     Service!Lasting, Service!Mountable, Service!Here, Service!HasSlot
<1>. QED BY <1>1, <1>2, <1>3, <1>4 DEF SvcInv, SvcTyped, SvcHeld

(* or replaced;                                                              *)
LEMMA BeginUpdateKeeps ==
    ASSUME SvcInv, NEW s \in Names, Service!BeginUpdate(s)
    PROVE SvcInv'
<1>1. SvcTyped'
  <2>1. PICK kind \in {"hub", "staged"}, v \in BOOLEAN :
          LET c == [Service!Current(s) EXCEPT !.image = kind, !.volume = v] IN
            \/ Service!Works(s, [c EXCEPT !.version = versions + 1], FALSE) /\ versions' = versions + 1
            \/ Service!Works(s, c, FALSE) /\ UNCHANGED versions
    BY DEF Service!BeginUpdate
  <2> DEFINE c == [Service!Current(s) EXCEPT !.image = kind, !.volume = v]
  <2>2. Service!Current(s) \in Service!Configs
    BY SvcNames DEF SvcInv, Service!SvcTypeOK, Service!BeginUpdate, Service!Current, Service!Files
  <2>3. versions + 1 \in 1..MaxVersions
    BY SvcNames DEF SvcInv, Service!SvcTypeOK, Service!BeginUpdate
  <2>4. c \in Service!Configs /\ [c EXCEPT !.version = versions + 1] \in Service!Configs
    BY <2>2, <2>3 DEF Service!Configs
  <2>5. cfg' \in Service!Files
    BY <2>1, <2>4 DEF SvcInv, Service!SvcTypeOK, Service!Works, Service!Files
  <2>6. fresh' \subseteq Names /\ versions' \in 0..MaxVersions
    BY <2>1, <2>3, SvcNames DEF SvcInv, Service!SvcTypeOK, Service!Works
  <2>. QED
    BY <2>5, <2>6 DEF SvcInv, Service!SvcTypeOK, SvcTyped, Service!BeginUpdate, Service!Move,
       Service!Lasting
<1>2. SvcHeld'
  <2>1. HoldsRegistry'
    <3> SUFFICES ASSUME NEW r \in Names, at'[r] \in {"remove", "start"}
                 PROVE  mutex' = r /\ Service!Here(cfg[r].image) /\ tag' = tag /\ cfg'[r] = cfg[r]
      BY DEF HoldsRegistry, Service!Here
    <3>1. r # s
      BY SvcNames DEF SvcInv, Service!SvcTypeOK, Service!BeginUpdate, HoldsRegistry, Service!Move,
         Service!Works
    <3>2. at[r] = at'[r] /\ cfg'[r] = cfg[r] /\ tag' = tag
      BY <3>1, SvcNames DEF SvcInv, Service!SvcTypeOK, Service!BeginUpdate, Service!Move,
         Service!Works, Service!Lasting, Service!Files
    <3>3. mutex = r /\ Service!Here(cfg[r].image) BY <3>2 DEF SvcInv, HoldsRegistry
    <3>4. mutex' = r
      BY <3>1, <3>3 DEF Service!BeginUpdate
    <3>. QED BY <3>2, <3>3, <3>4
  <2>2. HeldByOne'
    BY SvcNames DEF SvcInv, Service!SvcTypeOK, Service!BeginUpdate, HoldsRegistry, HeldByOne,
       Replaces, Service!Files, Service!Configs, Service!Move, Service!Works, Service!Lasting,
       Service!Mountable, Service!Here
  <2>3. Replaces'
    BY SvcNames DEF SvcInv, Service!SvcTypeOK, Service!BeginUpdate, HoldsRegistry, HeldByOne,
       Replaces, Service!Files, Service!Configs, Service!Move, Service!Works, Service!Lasting,
       Service!Mountable, Service!Here
  <2>4. FoundUnused'
    BY SvcNames DEF SvcInv, Service!SvcTypeOK, Service!BeginUpdate, HoldsRegistry, HeldByOne,
       FoundUnused, Service!Move, Service!Works, Service!Lasting, Service!Mountable, Service!Here,
       Service!Mounted, Service!RunsStaged
  <2>. QED BY <2>1, <2>2, <2>3, <2>4 DEF SvcHeld
<1>3. Service!UsesWhatExists'
  BY SvcNames DEF SvcInv, Service!UsesWhatExists, Service!SvcTypeOK, Service!BeginUpdate,
     HoldsRegistry, HeldByOne, Replaces, FoundUnused, Service!Move, Service!Works,
     Service!Lasting, Service!Mountable, Service!Here, Service!Mounted, Service!RunsStaged,
     Service!Configs, Service!Files
<1>4. Service!WithinSlots'
  BY SvcNames, SlotsCounted DEF SvcInv, Service!WithinSlots, Units, Service!SvcTypeOK,
     Service!BeginUpdate, HoldsRegistry, HeldByOne, Replaces, Service!Move, Service!Works,
     Service!Lasting, Service!Mountable, Service!Here, Service!HasSlot
<1>. QED BY <1>1, <1>2, <1>3, <1>4 DEF SvcInv, SvcTyped, SvcHeld

(* its image is pulled;                                                      *)
LEMMA PullKeeps == ASSUME SvcInv, NEW s \in Names, Service!Pull(s) PROVE SvcInv'
<1>1. SvcTyped'
  BY SvcNames DEF SvcInv, Service!SvcTypeOK, SvcTyped, Service!Pull, Replaces, Service!Move,
     Service!Lasting, Service!Fails, Service!Release, Service!Here, Service!Files, Service!Configs
<1>2. SvcHeld'
  <2>1. HoldsRegistry'
    <3> SUFFICES ASSUME NEW r \in Names, at'[r] \in {"remove", "start"}
                 PROVE  mutex' = r /\ Service!Here(cfg[r].image) /\ tag' = tag /\ cfg'[r] = cfg[r]
      BY DEF HoldsRegistry, Service!Here
    <3>1. r # s
      BY SvcNames DEF SvcInv, Service!SvcTypeOK, Service!Pull, HoldsRegistry, Service!Move,
         Service!Release
    <3>2. at[r] = at'[r] /\ cfg'[r] = cfg[r] /\ tag' = tag
      BY <3>1, SvcNames DEF SvcInv, Service!SvcTypeOK, Service!Pull, Service!Move,
         Service!Release, Service!Lasting, Service!Files
    <3>3. mutex = r /\ Service!Here(cfg[r].image) BY <3>2 DEF SvcInv, HoldsRegistry
    <3>4. mutex' = r
      BY <3>1, <3>3 DEF Service!Pull, Service!Release
    <3>. QED BY <3>2, <3>3, <3>4
  <2>2. HeldByOne'
    BY SvcNames DEF SvcInv, Service!SvcTypeOK, Service!Pull, HoldsRegistry, HeldByOne, Replaces,
       Service!Files, Service!Configs, Service!Move, Service!Lasting, Service!Fails,
       Service!Release, Service!Here
  <2>3. Replaces'
    BY SvcNames DEF SvcInv, Service!SvcTypeOK, Service!Pull, HoldsRegistry, HeldByOne, Replaces,
       Service!Files, Service!Configs, Service!Move, Service!Lasting, Service!Fails,
       Service!Release, Service!Here
  <2>4. FoundUnused'
    BY SvcNames DEF SvcInv, Service!SvcTypeOK, Service!Pull, HoldsRegistry, HeldByOne,
       FoundUnused, Service!Move, Service!Lasting, Service!Fails, Service!Release, Service!Here,
       Service!Mounted, Service!RunsStaged
  <2>. QED BY <2>1, <2>2, <2>3, <2>4 DEF SvcHeld
<1>3. Service!UsesWhatExists'
  BY SvcNames DEF SvcInv, Service!UsesWhatExists, Service!SvcTypeOK, Service!Pull, HoldsRegistry,
     HeldByOne, Replaces, FoundUnused, Service!Move, Service!Lasting, Service!Fails,
     Service!Release, Service!Mountable, Service!Here, Service!Mounted, Service!RunsStaged,
     Service!Configs, Service!Files
<1>4. Service!WithinSlots'
  BY SvcNames, SlotsCounted DEF SvcInv, Service!WithinSlots, Units, Service!SvcTypeOK,
     Service!Pull, HoldsRegistry, HeldByOne, Replaces, Service!Move, Service!Lasting,
     Service!Fails, Service!Release, Service!Here, Service!HasSlot
<1>. QED BY <1>1, <1>2, <1>3, <1>4 DEF SvcInv, SvcTyped, SvcHeld

(* it takes the registry, where all is looked at again;                      *)
LEMMA EnterRegistryKeeps ==
    ASSUME SvcInv, NEW s \in Names, Service!EnterRegistry(s)
    PROVE SvcInv'
<1>1. SvcTyped'
  BY SvcNames DEF SvcInv, Service!SvcTypeOK, SvcTyped, Service!EnterRegistry, Service!Move,
     Service!Lasting, Service!Release, Service!Files
<1>2. SvcHeld'
  BY SvcNames DEF SvcInv, SvcHeld, Service!SvcTypeOK, Service!EnterRegistry, HoldsRegistry,
     HeldByOne, Replaces, FoundUnused, Service!Move, Service!Lasting, Service!Release,
     Service!Here, Service!Mounted, Service!RunsStaged
<1>3. Service!UsesWhatExists'
  BY SvcNames DEF SvcInv, Service!UsesWhatExists, Service!SvcTypeOK, Service!EnterRegistry,
     HoldsRegistry, HeldByOne, Replaces, FoundUnused, Service!Move, Service!Lasting,
     Service!Release, Service!Mountable, Service!Here, Service!Mounted, Service!RunsStaged,
     Service!Configs, Service!Files
<1>4. Service!WithinSlots'
  BY SvcNames, SlotsCounted DEF SvcInv, Service!WithinSlots, Units, Service!SvcTypeOK,
     Service!EnterRegistry, HoldsRegistry, HeldByOne, Replaces, Service!Move, Service!Lasting,
     Service!Release, Service!Here, Service!HasSlot
<1>. QED BY <1>1, <1>2, <1>3, <1>4 DEF SvcInv, SvcTyped, SvcHeld

(* the old container goes;                                                   *)
LEMMA RemoveOldKeeps == ASSUME SvcInv, NEW s \in Names, Service!RemoveOld(s) PROVE SvcInv'
<1>1. SvcTyped'
  BY SvcNames DEF SvcInv, Service!SvcTypeOK, SvcTyped, Service!RemoveOld, Replaces, Service!Move,
     Service!HeldOver, Service!Files, Service!Configs
<1>2. SvcHeld'
  BY SvcNames DEF SvcInv, SvcHeld, Service!SvcTypeOK, Service!RemoveOld, HoldsRegistry, HeldByOne,
     Replaces, FoundUnused, Service!Move, Service!Here, Service!HeldOver, Service!Mounted,
     Service!RunsStaged
<1>3. Service!UsesWhatExists'
  BY SvcNames DEF SvcInv, Service!UsesWhatExists, Service!SvcTypeOK, Service!RemoveOld,
     HoldsRegistry, HeldByOne, Replaces, FoundUnused, Service!Move, Service!Mountable,
     Service!Here, Service!HeldOver, Service!Mounted, Service!RunsStaged, Service!Configs,
     Service!Files
<1>4. Service!WithinSlots'
  <2>1. Units(unit') \subseteq Units(unit) \ {s} /\ s \in Units(unit)
    BY SvcNames DEF SvcInv, Units, Service!SvcTypeOK, Service!Files, Service!RemoveOld, Replaces
  <2>2. Service!Cardinality(Units(unit)) <= Slots BY DEF SvcInv, Service!WithinSlots, Units
  <2>5. Service!HasSlot <=> Service!Cardinality(Units(unit)) < Slots BY DEF Service!HasSlot, Units
  <2>6. Service!Cardinality(Units(unit)) \in Nat /\ Service!Cardinality(Units(unit')) \in Nat
    BY SlotsCounted
  <2>7. Service!Cardinality(Units(unit')) < Service!Cardinality(Units(unit))
    BY <2>1, SlotsCounted
  <2>3. Service!Cardinality(Units(unit')) <= Slots
    BY <2>1, <2>2, <2>5, <2>6, <2>7, SvcNames
  <2>4. ASSUME NEW r \in Names, at'[r] = "start", r \notin fresh' PROVE Service!Cardinality(Units(unit')) < Slots
    BY <2>2, <2>6, <2>7, SvcNames
  <2>. QED BY <2>3, <2>4 DEF Service!WithinSlots, Service!HasSlot, Units
<1>. QED BY <1>1, <1>2, <1>3, <1>4 DEF SvcInv, SvcTyped, SvcHeld

(* the new one starts, which takes a slot;                                   *)
LEMMA StartContainerKeeps ==
    ASSUME SvcInv, NEW s \in Names, Service!StartContainer(s)
    PROVE SvcInv'
<1>1. SvcTyped'
  BY SvcNames DEF SvcInv, Service!SvcTypeOK, SvcTyped, Service!StartContainer, Replaces,
     Service!Move, Service!Fails, Service!Release, Service!Mountable, Service!Admitted,
     Service!HasSlot, Service!Files, Service!Configs
<1>2. SvcHeld'
  <2>1. HoldsRegistry'
    <3> SUFFICES ASSUME NEW r \in Names, at'[r] \in {"remove", "start"}
                 PROVE  mutex' = r /\ Service!Here(cfg[r].image) /\ tag' = tag /\ cfg'[r] = cfg[r]
      BY DEF HoldsRegistry, Service!Here
    <3>1. r # s
      BY SvcNames DEF SvcInv, Service!SvcTypeOK, Service!StartContainer, HoldsRegistry,
         Service!Move, Service!Release
    <3>2. at[r] = at'[r] /\ cfg'[r] = cfg[r] /\ tag' = tag
      BY <3>1, SvcNames DEF SvcInv, Service!SvcTypeOK, Service!StartContainer, Service!Move,
         Service!Release, Service!Files
    <3>3. mutex = r /\ Service!Here(cfg[r].image) BY <3>2 DEF SvcInv, HoldsRegistry
    <3>4. mutex' = r
      BY <3>1, <3>3 DEF Service!StartContainer, Service!Release
    <3>. QED BY <3>2, <3>3, <3>4
  <2>2. HeldByOne'
    BY SvcNames DEF SvcInv, Service!SvcTypeOK, Service!StartContainer, HoldsRegistry, HeldByOne,
       Replaces, Service!Files, Service!Configs, Service!Move, Service!Fails, Service!Release,
       Service!Mountable, Service!Here, Service!Admitted, Service!HasSlot
  <2>3. Replaces'
    BY SvcNames DEF SvcInv, Service!SvcTypeOK, Service!StartContainer, HoldsRegistry, HeldByOne,
       Replaces, Service!Files, Service!Configs, Service!Move, Service!Fails, Service!Release,
       Service!Mountable, Service!Here, Service!Admitted, Service!HasSlot
  <2>4. FoundUnused'
    BY SvcNames DEF SvcInv, Service!SvcTypeOK, Service!StartContainer, HoldsRegistry, HeldByOne,
       FoundUnused, Service!Move, Service!Fails, Service!Release, Service!Mountable, Service!Here,
       Service!Admitted, Service!HasSlot, Service!Mounted, Service!RunsStaged
  <2>. QED BY <2>1, <2>2, <2>3, <2>4 DEF SvcHeld
<1>3. Service!UsesWhatExists'
  BY SvcNames DEF SvcInv, Service!UsesWhatExists, Service!SvcTypeOK, Service!StartContainer,
     HoldsRegistry, HeldByOne, Replaces, FoundUnused, Service!Move, Service!Fails,
     Service!Release, Service!Mountable, Service!Here, Service!Admitted, Service!HasSlot,
     Service!Mounted, Service!RunsStaged, Service!Configs, Service!Files
<1>4. Service!WithinSlots'
  <2>1. Units(unit') \subseteq Units(unit) \cup {s} /\ (unit' # unit => Service!HasSlot)
    BY SvcNames DEF SvcInv, Units, Service!SvcTypeOK, Service!Files, Service!StartContainer,
       Replaces, Service!Release, Service!Admitted, Service!Fails
  <2>2. Service!Cardinality(Units(unit)) <= Slots BY DEF SvcInv, Service!WithinSlots, Units
  <2>5. Service!HasSlot <=> Service!Cardinality(Units(unit)) < Slots BY DEF Service!HasSlot, Units
  <2>6. Service!Cardinality(Units(unit)) \in Nat /\ Service!Cardinality(Units(unit')) \in Nat
    BY SlotsCounted
  <2>7. unit' = unit \/ Service!Cardinality(Units(unit')) <= Service!Cardinality(Units(unit)) + 1
    BY <2>1, SlotsCounted
  <2>3. Service!Cardinality(Units(unit')) <= Slots
    BY <2>1, <2>2, <2>5, <2>6, <2>7, SvcNames
  <2>4. ASSUME NEW r \in Names, at'[r] = "start", r \notin fresh' PROVE Service!Cardinality(Units(unit')) < Slots
    BY <2>4, SvcNames DEF SvcInv, Service!SvcTypeOK, HoldsRegistry, Service!StartContainer,
       Service!Release, Service!Move
  <2>. QED BY <2>3, <2>4 DEF Service!WithinSlots, Service!HasSlot, Units
<1>. QED BY <1>1, <1>2, <1>3, <1>4 DEF SvcInv, SvcTyped, SvcHeld

(* the presets are read                                                      *)
LEMMA ReadPresetsKeeps ==
    ASSUME SvcInv, NEW s \in Names, Service!ReadPresets(s)
    PROVE SvcInv'
<1>1. SvcTyped'
  BY SvcNames DEF SvcInv, Service!SvcTypeOK, SvcTyped, Service!ReadPresets, Replaces,
     Service!Move, Service!Lasting, Service!Files, Service!Configs
<1>2. SvcHeld'
  <2>1. HoldsRegistry'
    <3> SUFFICES ASSUME NEW r \in Names, at'[r] \in {"remove", "start"}
                 PROVE  mutex' = r /\ Service!Here(cfg[r].image) /\ tag' = tag /\ cfg'[r] = cfg[r]
      BY DEF HoldsRegistry, Service!Here
    <3>1. r # s
      BY SvcNames DEF SvcInv, Service!SvcTypeOK, Service!ReadPresets, HoldsRegistry, Service!Move
    <3>2. at[r] = at'[r] /\ cfg'[r] = cfg[r] /\ tag' = tag
      BY <3>1, SvcNames DEF SvcInv, Service!SvcTypeOK, Service!ReadPresets, Service!Move,
         Service!Lasting, Service!Files
    <3>3. mutex = r /\ Service!Here(cfg[r].image) BY <3>2 DEF SvcInv, HoldsRegistry
    <3>4. mutex' = r
      BY <3>1, <3>3 DEF Service!ReadPresets
    <3>. QED BY <3>2, <3>3, <3>4
  <2>2. HeldByOne'
    BY SvcNames DEF SvcInv, Service!SvcTypeOK, Service!ReadPresets, HoldsRegistry, HeldByOne,
       Replaces, Service!Files, Service!Configs, Service!Move, Service!Lasting, Service!Here
  <2>3. Replaces'
    BY SvcNames DEF SvcInv, Service!SvcTypeOK, Service!ReadPresets, HoldsRegistry, HeldByOne,
       Replaces, Service!Files, Service!Configs, Service!Move, Service!Lasting, Service!Here
  <2>4. FoundUnused'
    BY SvcNames DEF SvcInv, Service!SvcTypeOK, Service!ReadPresets, HoldsRegistry, HeldByOne,
       FoundUnused, Service!Move, Service!Lasting, Service!Here, Service!Mounted,
       Service!RunsStaged
  <2>. QED BY <2>1, <2>2, <2>3, <2>4 DEF SvcHeld
<1>3. Service!UsesWhatExists'
  BY SvcNames DEF SvcInv, Service!UsesWhatExists, Service!SvcTypeOK, Service!ReadPresets,
     HoldsRegistry, HeldByOne, Replaces, FoundUnused, Service!Move, Service!Lasting,
     Service!Mountable, Service!Here, Service!Mounted, Service!RunsStaged, Service!Configs,
     Service!Files
<1>4. Service!WithinSlots'
  BY SvcNames, SlotsCounted DEF SvcInv, Service!WithinSlots, Units, Service!SvcTypeOK,
     Service!ReadPresets, HoldsRegistry, HeldByOne, Replaces, Service!Move, Service!Lasting,
     Service!Here, Service!HasSlot
<1>. QED BY <1>1, <1>2, <1>3, <1>4 DEF SvcInv, SvcTyped, SvcHeld

(* and written, with or without its own;                                     *)
LEMMA WritePresetsKeeps ==
    ASSUME SvcInv, NEW s \in Names, Service!WritePresets(s)
    PROVE SvcInv'
<1>1. SvcTyped'
  BY SvcNames DEF SvcInv, Service!SvcTypeOK, SvcTyped, Service!WritePresets, Replaces,
     Service!Fails, Service!Release, Service!Files, Service!Configs
<1>2. SvcHeld'
  BY SvcNames DEF SvcInv, SvcHeld, Service!SvcTypeOK, Service!WritePresets, HoldsRegistry,
     HeldByOne, Replaces, FoundUnused, Service!Fails, Service!Release, Service!Here,
     Service!Mounted, Service!RunsStaged
<1>3. Service!UsesWhatExists'
  BY SvcNames DEF SvcInv, Service!UsesWhatExists, Service!SvcTypeOK, Service!WritePresets,
     HoldsRegistry, HeldByOne, Replaces, FoundUnused, Service!Fails, Service!Release,
     Service!Mountable, Service!Here, Service!Mounted, Service!RunsStaged, Service!Configs,
     Service!Files
<1>4. Service!WithinSlots'
  BY SvcNames, SlotsCounted DEF SvcInv, Service!WithinSlots, Units, Service!SvcTypeOK,
     Service!WritePresets, HoldsRegistry, HeldByOne, Replaces, Service!Fails, Service!Release,
     Service!Here, Service!HasSlot
<1>. QED BY <1>1, <1>2, <1>3, <1>4 DEF SvcInv, SvcTyped, SvcHeld

(* it is deleted.                                                            *)
LEMMA DeleteKeeps == ASSUME SvcInv, NEW s \in Names, Service!Delete(s) PROVE SvcInv'
<1>1. SvcTyped'
  BY SvcNames DEF SvcInv, Service!SvcTypeOK, SvcTyped, Service!Delete, Replaces, Service!Move,
     Service!Works, Service!Files, Service!Configs
<1>2. SvcHeld'
  BY SvcNames DEF SvcInv, SvcHeld, Service!SvcTypeOK, Service!Delete, HoldsRegistry, HeldByOne,
     Replaces, FoundUnused, Service!Move, Service!Works, Service!Here, Service!Mounted,
     Service!RunsStaged
<1>3. Service!UsesWhatExists'
  BY SvcNames DEF SvcInv, Service!UsesWhatExists, Service!SvcTypeOK, Service!Delete,
     HoldsRegistry, HeldByOne, Replaces, FoundUnused, Service!Move, Service!Works,
     Service!Mountable, Service!Here, Service!Mounted, Service!RunsStaged, Service!Configs,
     Service!Files
<1>4. Service!WithinSlots'
  <2>1. Units(unit') \subseteq Units(unit)
    BY SvcNames DEF SvcInv, Units, Service!SvcTypeOK, Service!Files, Service!Delete, Replaces
  <2>2. Service!Cardinality(Units(unit)) <= Slots BY DEF SvcInv, Service!WithinSlots, Units
  <2>5. Service!HasSlot <=> Service!Cardinality(Units(unit)) < Slots BY DEF Service!HasSlot, Units
  <2>6. Service!Cardinality(Units(unit)) \in Nat /\ Service!Cardinality(Units(unit')) \in Nat
    BY SlotsCounted
  <2>7. Service!Cardinality(Units(unit')) <= Service!Cardinality(Units(unit))
    BY <2>1, SlotsCounted
  <2>3. Service!Cardinality(Units(unit')) <= Slots
    BY <2>1, <2>2, <2>5, <2>6, <2>7, SvcNames
  <2>4. ASSUME NEW r \in Names, at'[r] = "start", r \notin fresh' PROVE Service!Cardinality(Units(unit')) < Slots
    <3>1. at[r] = "start" /\ r \notin fresh
      BY <2>4, SvcNames DEF SvcInv, Service!SvcTypeOK, Service!Delete, Service!Move, Service!Works
    <3>2. Service!Cardinality(Units(unit)) < Slots
      BY <3>1 DEF SvcInv, Service!WithinSlots, Service!HasSlot, Units
    <3>. QED BY <2>6, <2>7, <3>2, SvcNames
  <2>. QED BY <2>3, <2>4 DEF Service!WithinSlots, Service!HasSlot, Units
<1>. QED BY <1>1, <1>2, <1>3, <1>4 DEF SvcInv, SvcTyped, SvcHeld

(* The server dies, and its mutex with it.                                   *)
LEMMA ServerDiesKeeps == ASSUME SvcInv, Service!ServerDies PROVE SvcInv'
<1>1. SvcTyped'
  BY SvcNames DEF SvcInv, Service!SvcTypeOK, SvcTyped, Service!ServerDies, Replaces,
     Service!Lasting, Service!Fails, Service!Files, Service!Configs
<1>2. SvcHeld'
  BY SvcNames DEF SvcInv, SvcHeld, Service!SvcTypeOK, Service!ServerDies, HoldsRegistry,
     HeldByOne, Replaces, FoundUnused, Service!Lasting, Service!Fails, Service!Here,
     Service!Mounted, Service!RunsStaged
<1>3. Service!UsesWhatExists'
  BY SvcNames DEF SvcInv, Service!UsesWhatExists, Service!SvcTypeOK, Service!ServerDies,
     HoldsRegistry, HeldByOne, Replaces, FoundUnused, Service!Lasting, Service!Fails,
     Service!Mountable, Service!Here, Service!Mounted, Service!RunsStaged, Service!Configs,
     Service!Files
<1>4. Service!WithinSlots'
  BY SvcNames, SlotsCounted DEF SvcInv, Service!WithinSlots, Units, Service!SvcTypeOK,
     Service!ServerDies, HoldsRegistry, HeldByOne, Replaces, Service!Lasting, Service!Fails,
     Service!Here, Service!HasSlot
<1>. QED BY <1>1, <1>2, <1>3, <1>4 DEF SvcInv, SvcTyped, SvcHeld

(* The volume is created,                                                    *)
LEMMA CreateVolumeKeeps == ASSUME SvcInv, Service!CreateVolume PROVE SvcInv'
<1>1. SvcTyped'
  BY SvcNames DEF SvcInv, Service!SvcTypeOK, SvcTyped, Service!CreateVolume, Replaces,
     Service!Elsewhere, Service!Files, Service!Configs
<1>2. SvcHeld'
  BY SvcNames DEF SvcInv, SvcHeld, Service!SvcTypeOK, Service!CreateVolume, HoldsRegistry,
     HeldByOne, Replaces, FoundUnused, Service!Elsewhere, Service!Here, Service!Mounted,
     Service!RunsStaged
<1>3. Service!UsesWhatExists'
  BY SvcNames DEF SvcInv, Service!UsesWhatExists, Service!SvcTypeOK, Service!CreateVolume,
     HoldsRegistry, HeldByOne, Replaces, FoundUnused, Service!Elsewhere, Service!Mountable,
     Service!Here, Service!Mounted, Service!RunsStaged, Service!Configs, Service!Files
<1>4. Service!WithinSlots'
  BY SvcNames, SlotsCounted DEF SvcInv, Service!WithinSlots, Units, Service!SvcTypeOK,
     Service!CreateVolume, HoldsRegistry, HeldByOne, Replaces, Service!Elsewhere, Service!Here,
     Service!HasSlot
<1>. QED BY <1>1, <1>2, <1>3, <1>4 DEF SvcInv, SvcTyped, SvcHeld

(* found unused under the registry,                                          *)
LEMMA ReadUsageKeeps == ASSUME SvcInv, Service!ReadUsage PROVE SvcInv'
<1>1. SvcTyped'
  BY SvcNames DEF SvcInv, Service!SvcTypeOK, SvcTyped, Service!ReadUsage, Replaces,
     Service!Elsewhere, Service!Mounted, Service!Files, Service!Configs
<1>2. SvcHeld'
  BY SvcNames DEF SvcInv, SvcHeld, Service!SvcTypeOK, Service!ReadUsage, HoldsRegistry, HeldByOne,
     Replaces, FoundUnused, Service!Elsewhere, Service!Here, Service!Mounted, Service!RunsStaged
<1>3. Service!UsesWhatExists'
  BY SvcNames DEF SvcInv, Service!UsesWhatExists, Service!SvcTypeOK, Service!ReadUsage,
     HoldsRegistry, HeldByOne, Replaces, FoundUnused, Service!Elsewhere, Service!Mountable,
     Service!Here, Service!Mounted, Service!RunsStaged, Service!Configs, Service!Files
<1>4. Service!WithinSlots'
  BY SvcNames, SlotsCounted DEF SvcInv, Service!WithinSlots, Units, Service!SvcTypeOK,
     Service!ReadUsage, HoldsRegistry, HeldByOne, Replaces, Service!Elsewhere, Service!Here,
     Service!HasSlot, Service!Mounted
<1>. QED BY <1>1, <1>2, <1>3, <1>4 DEF SvcInv, SvcTyped, SvcHeld

(* and removed, while nothing can come to mount it.                          *)
LEMMA RemoveVolumeKeeps == ASSUME SvcInv, Service!RemoveVolume PROVE SvcInv'
<1>1. SvcTyped'
  BY SvcNames DEF SvcInv, Service!SvcTypeOK, SvcTyped, Service!RemoveVolume, Replaces,
     Service!Elsewhere, Service!Mounted, Service!Files, Service!Configs
<1>2. SvcHeld'
  BY SvcNames DEF SvcInv, SvcHeld, Service!SvcTypeOK, Service!RemoveVolume, HoldsRegistry,
     HeldByOne, Replaces, FoundUnused, Service!Elsewhere, Service!Here, Service!Mounted,
     Service!RunsStaged
<1>3. Service!UsesWhatExists'
  BY SvcNames DEF SvcInv, Service!UsesWhatExists, Service!SvcTypeOK, Service!RemoveVolume,
     HoldsRegistry, HeldByOne, Replaces, FoundUnused, Service!Elsewhere, Service!Mountable,
     Service!Here, Service!Mounted, Service!RunsStaged, Service!Configs, Service!Files
<1>4. Service!WithinSlots'
  BY SvcNames, SlotsCounted DEF SvcInv, Service!WithinSlots, Units, Service!SvcTypeOK,
     Service!RemoveVolume, HoldsRegistry, HeldByOne, Replaces, Service!Elsewhere, Service!Here,
     Service!HasSlot, Service!Mounted
<1>. QED BY <1>1, <1>2, <1>3, <1>4 DEF SvcInv, SvcTyped, SvcHeld

(* A build stages its image;                                                 *)
LEMMA StageImageKeeps == ASSUME SvcInv, Service!StageImage PROVE SvcInv'
<1>1. SvcTyped'
  BY SvcNames DEF SvcInv, Service!SvcTypeOK, SvcTyped, Service!StageImage, Replaces,
     Service!Elsewhere, Service!Files, Service!Configs
<1>2. SvcHeld'
  BY SvcNames DEF SvcInv, SvcHeld, Service!SvcTypeOK, Service!StageImage, HoldsRegistry,
     HeldByOne, Replaces, FoundUnused, Service!Elsewhere, Service!Here, Service!Mounted,
     Service!RunsStaged
<1>3. Service!UsesWhatExists'
  BY SvcNames DEF SvcInv, Service!UsesWhatExists, Service!SvcTypeOK, Service!StageImage,
     HoldsRegistry, HeldByOne, Replaces, FoundUnused, Service!Elsewhere, Service!Mountable,
     Service!Here, Service!Mounted, Service!RunsStaged, Service!Configs, Service!Files
<1>4. Service!WithinSlots'
  BY SvcNames, SlotsCounted DEF SvcInv, Service!WithinSlots, Units, Service!SvcTypeOK,
     Service!StageImage, HoldsRegistry, HeldByOne, Replaces, Service!Elsewhere, Service!Here,
     Service!HasSlot
<1>. QED BY <1>1, <1>2, <1>3, <1>4 DEF SvcInv, SvcTyped, SvcHeld

(* retention finds it unused under the registry                              *)
LEMMA FindUnusedKeeps == ASSUME SvcInv, Service!FindUnused PROVE SvcInv'
<1>1. SvcTyped'
  BY SvcNames DEF SvcInv, Service!SvcTypeOK, SvcTyped, Service!FindUnused, Replaces,
     Service!Elsewhere, Service!RunsStaged, Service!Files, Service!Configs
<1>2. SvcHeld'
  BY SvcNames DEF SvcInv, SvcHeld, Service!SvcTypeOK, Service!FindUnused, HoldsRegistry,
     HeldByOne, Replaces, FoundUnused, Service!Elsewhere, Service!Here, Service!Mounted,
     Service!RunsStaged
<1>3. Service!UsesWhatExists'
  BY SvcNames DEF SvcInv, Service!UsesWhatExists, Service!SvcTypeOK, Service!FindUnused,
     HoldsRegistry, HeldByOne, Replaces, FoundUnused, Service!Elsewhere, Service!Mountable,
     Service!Here, Service!Mounted, Service!RunsStaged, Service!Configs, Service!Files
<1>4. Service!WithinSlots'
  BY SvcNames, SlotsCounted DEF SvcInv, Service!WithinSlots, Units, Service!SvcTypeOK,
     Service!FindUnused, HoldsRegistry, HeldByOne, Replaces, Service!Elsewhere, Service!Here,
     Service!HasSlot, Service!RunsStaged
<1>. QED BY <1>1, <1>2, <1>3, <1>4 DEF SvcInv, SvcTyped, SvcHeld

(* and removes it.                                                           *)
LEMMA PruneImageKeeps == ASSUME SvcInv, Service!PruneImage PROVE SvcInv'
<1>1. SvcTyped'
  BY SvcNames DEF SvcInv, Service!SvcTypeOK, SvcTyped, Service!PruneImage, Replaces,
     Service!Elsewhere, Service!Files, Service!Configs
<1>2. SvcHeld'
  BY SvcNames DEF SvcInv, SvcHeld, Service!SvcTypeOK, Service!PruneImage, HoldsRegistry,
     HeldByOne, Replaces, FoundUnused, Service!Elsewhere, Service!Here, Service!Mounted,
     Service!RunsStaged
<1>3. Service!UsesWhatExists'
  BY SvcNames DEF SvcInv, Service!UsesWhatExists, Service!SvcTypeOK, Service!PruneImage,
     HoldsRegistry, HeldByOne, Replaces, FoundUnused, Service!Elsewhere, Service!Mountable,
     Service!Here, Service!Mounted, Service!RunsStaged, Service!Configs, Service!Files
<1>4. Service!WithinSlots'
  BY SvcNames, SlotsCounted DEF SvcInv, Service!WithinSlots, Units, Service!SvcTypeOK,
     Service!PruneImage, HoldsRegistry, HeldByOne, Replaces, Service!Elsewhere, Service!Here,
     Service!HasSlot
<1>. QED BY <1>1, <1>2, <1>3, <1>4 DEF SvcInv, SvcTyped, SvcHeld

(* At the start.                                                             *)
LEMMA SvcInitially == Service!SvcInit => SvcInv
<1> SUFFICES ASSUME Service!SvcInit PROVE SvcInv
  OBVIOUS
<1>1. Service!SvcTypeOK BY SvcNames DEF Service!SvcInit, Service!SvcTypeOK, Service!Files
<1>2. Service!Cardinality(Units(unit)) = 0
  <2>1. Units(unit) = {} BY DEF Service!SvcInit, Units
  <2>. QED BY <2>1, SvcCounting, FS_EmptySet
<1>3. HoldsRegistry /\ HeldByOne /\ Replaces /\ FoundUnused
  BY SvcNames DEF Service!SvcInit, HoldsRegistry, HeldByOne, Replaces, FoundUnused
<1>4. Service!UsesWhatExists BY DEF Service!SvcInit, Service!UsesWhatExists
<1>5. Service!WithinSlots
  BY <1>2, SvcNames DEF Service!SvcInit, Service!WithinSlots, Units
<1>. QED BY <1>1, <1>3, <1>4, <1>5 DEF SvcInv

(* A step of another component.                                              *)
LEMMA SvcStands == ASSUME SvcInv, UNCHANGED svcVars PROVE SvcInv'
BY DEF svcVars, SvcInv, Service!SvcTypeOK, HoldsRegistry, HeldByOne, Replaces, FoundUnused,
   Service!UsesWhatExists, Service!WithinSlots, Service!Here, Service!Mountable, Service!HasSlot,
   Service!Mounted, Service!RunsStaged

(* Every step of the services.                                               *)
LEMMA SvcKept == ASSUME SvcInv, Service!SvcNext PROVE SvcInv'
<1>1. CASE \E s \in Names :
             Service!BeginCreate(s) \/ Service!BeginUpdate(s) \/ Service!Pull(s)
             \/ Service!EnterRegistry(s) \/ Service!RemoveOld(s) \/ Service!StartContainer(s)
             \/ Service!ReadPresets(s) \/ Service!WritePresets(s) \/ Service!Delete(s)
  BY <1>1, BeginCreateKeeps, BeginUpdateKeeps, PullKeeps, EnterRegistryKeeps, RemoveOldKeeps,
     StartContainerKeeps, ReadPresetsKeeps, WritePresetsKeeps, DeleteKeeps
<1>2. CASE Service!ServerDies \/ Service!CreateVolume \/ Service!ReadUsage \/ Service!RemoveVolume
           \/ Service!StageImage \/ Service!FindUnused \/ Service!PruneImage
  BY <1>2, ServerDiesKeeps, CreateVolumeKeeps, ReadUsageKeeps, RemoveVolumeKeeps, StageImageKeeps,
     FindUnusedKeeps, PruneImageKeeps
<1>. QED BY <1>1, <1>2 DEF Service!SvcNext

-----------------------------------------------------------------------------
(* The services, when they are in focus.                                     *)
ServicesHold == focus = "services" => SvcInv

(* The invariant of the services, in every behaviour.                        *)
LEMMA ServicesKept == FocusSpec => []ServicesHold
<1>1. FocusInit => ServicesHold BY SvcInitially DEF FocusInit, Begun, ServicesHold
<1>2. ServicesHold /\ [FocusNext]_focusVars => ServicesHold'
  <2>1. ASSUME ServicesHold, FocusNext PROVE ServicesHold'
    BY <2>1, SvcKept DEF ServicesHold, FocusNext
  <2>2. ASSUME ServicesHold, UNCHANGED focusVars PROVE ServicesHold'
    BY <2>2, SvcStands DEF ServicesHold, focusVars
  <2>. QED BY <2>1, <2>2
<1>. QED BY <1>1, <1>2, PTL DEF FocusSpec, focusVars

(* The registry, the containers and what is under way keep their types.      *)
THEOREM ServiceTypes == FocusSpec => [](focus = "services" => Service!SvcTypeOK)
<1>1. ServicesHold => (focus = "services" => Service!SvcTypeOK) BY DEF ServicesHold, SvcInv
<1>. QED BY <1>1, ServicesKept, PTL

(* No volume is deleted under a container that mounts it, no image removed   *)
(* under one that runs it, however a creation, a deletion and a retention    *)
(* meet (delete_volume, _prune_staging_images, create_service).              *)
THEOREM NothingUsedIsTaken == FocusSpec => []UsesWhatExists
<1>1. ServicesHold => UsesWhatExists BY DEF ServicesHold, SvcInv, UsesWhatExists
<1>. QED BY <1>1, ServicesKept, PTL

(* The team never runs more services than its limit, not even when one is    *)
(* restored while another is created (create_service, under the registry).   *)
THEOREM SlotsStand == FocusSpec => []WithinSlots
<1>1. ServicesHold => WithinSlots BY DEF ServicesHold, SvcInv, WithinSlots
<1>. QED BY <1>1, ServicesKept, PTL

-----------------------------------------------------------------------------
(* Extra add-ons.                                                            *)

(* A removal or an update holds the repository's lock, and so does who is    *)
(* being handed a checkout.                                                  *)
LockHeld ==
    /\ task.do # "none" <=> holder = "task"
    /\ \A e \in Consumers : step[e] \in {"fetch", "checkout", "adding"} => holder = e

(* What each operation wants at each of its steps.                           *)
Wants ==
    \A e \in Consumers :
        /\ step[e] \in {"fetch", "checkout"} => goal[e] \in Branches
        /\ step[e] = "checkout" => refs[goal[e]] # 0
        /\ step[e] \in {"adding", "held", "bare"} => goal[e] \in Addons!Commits

Has(e, c) == box[e] = c \/ (step[e] \in {"held", "bare"} /\ goal[e] = c)

(* A checkout that somebody has, or will have, is there, and one that is not *)
(* whole is being made, for nobody yet, or was cut by a death.               *)
Kept ==
    ~Overlap => \A c \in Addons!Commits :
        /\ \A e \in Consumers : Has(e, c) => cache[c] # "none"
        /\ cache[c] = "half" => c \in cut \/ \E e \in Consumers : step[e] = "adding" /\ goal[e] = c
        /\ \A e, x \in Consumers : step[e] = "adding" /\ goal[e] = c => cache[c] = "half" /\ ~Has(x, c)

(* What was handed out counts as recent until its container is there, and a  *)
(* removal knows of all the others.                                          *)
Removing == task.do \in {"convert", "narrow", "forget", "detach"}
Spared ==
    /\ \A e \in Consumers : step[e] = "held" => goal[e] \in recent
    /\ Removing /\ ~Overlap =>
         \A c \in Addons!Commits, e \in Consumers : Has(e, c) => c \in pinned \cup recent

(* A clone from which a branch was removed tracks branches one by one, and   *)
(* not that one.                                                             *)
Tracked ==
    /\ removed # {} => ~wildcard /\ onDemand
    /\ \A b \in removed : refs[b] = 0 /\ b \notin specs
    /\ Removing => task.branch \in Branches
    /\ task.do = "narrow" => onDemand
    /\ task.do \in {"forget", "detach"} => ~wildcard
    /\ task.do = "detach" => onDemand /\ refs[task.branch] = 0 /\ task.branch \notin specs

AddonsTyped == Addons!AddonsTypeOK /\ goal \in [Consumers -> Branches \cup Addons!Commits \cup {None}]
AddonsInv == AddonsTyped /\ LockHeld /\ Wants /\ Kept /\ Spared /\ Tracked

(* Who holds the repository's lock can be told apart.                        *)
LEMMA AddonNames ==
    /\ Nobody \notin Consumers /\ "task" \notin Consumers /\ Nobody # "task"
    /\ None \notin Branches /\ None \notin Addons!Commits /\ Overlap \in BOOLEAN
    /\ MaxCommits \in Nat \ {0} /\ MaxFailures \in Nat
BY FocusConstants DEF Addons!AddonsConstants, Addons!Commits

(* A consumer takes the lock,                                                *)
LEMMA BeginKeeps ==
    ASSUME AddonsInv, NEW q \in Consumers, Addons!Begin(q)
    PROVE AddonsInv'
<1>1. AddonsTyped'
  BY AddonNames DEF AddonsInv, AddonsTyped, Addons!AddonsTypeOK, Addons!Commits, Wants, Tracked,
     Removing, LockHeld, Addons!Begin, Addons!Goes, Addons!Free, Addons!History, Addons!clone
<1>2. LockHeld'
  BY AddonNames DEF AddonsInv, AddonsTyped, Addons!AddonsTypeOK, LockHeld, Addons!Begin,
     Addons!Goes, Addons!Free, Addons!History, Addons!clone
<1>3. Wants'
  BY AddonNames DEF AddonsInv, AddonsTyped, Addons!AddonsTypeOK, LockHeld, Wants, Addons!Commits,
     Addons!Begin, Addons!Goes, Addons!Free, Addons!History, Addons!clone
<1>4. Kept'
  BY AddonNames DEF AddonsInv, AddonsTyped, Addons!AddonsTypeOK, LockHeld, Wants, Kept, Has,
     Spared, Removing, Addons!Begin, Addons!Goes, Addons!Free, Addons!History, Addons!clone
<1>5. Spared'
  BY AddonNames DEF AddonsInv, AddonsTyped, Addons!AddonsTypeOK, LockHeld, Wants, Has, Spared,
     Removing, Addons!Begin, Addons!Goes, Addons!Free, Addons!History, Addons!clone
<1>6. Tracked'
  BY AddonNames DEF AddonsInv, AddonsTyped, Addons!AddonsTypeOK, LockHeld, Wants, Tracked,
     Removing, Addons!Begin, Addons!Goes, Addons!Free, Addons!History, Addons!clone
<1>. QED BY <1>1, <1>2, <1>3, <1>4, <1>5, <1>6 DEF AddonsInv

(* fetches the branch it wants,                                              *)
LEMMA FetchKeeps ==
    ASSUME AddonsInv, NEW q \in Consumers, Addons!Fetch(q)
    PROVE AddonsInv'
<1>7. goal[q] \in Branches BY DEF AddonsInv, Wants, Addons!Fetch
<1>8. /\ step' \in [Consumers -> {"idle", "fetch", "checkout", "adding", "held", "bare"}]
      /\ goal' \in [Consumers -> Branches \cup Addons!Commits \cup {None}]
  BY <1>7 DEF AddonsInv, AddonsTyped, Addons!AddonsTypeOK, Addons!Fetch, Addons!Ends, Addons!Goes
<1>9. /\ refs' \in [Branches -> 0..MaxCommits] /\ specs' \subseteq Branches /\ removed' \subseteq Branches
      /\ {repo', wildcard', onDemand'} \subseteq BOOLEAN
  BY <1>7, AddonNames DEF AddonsInv, AddonsTyped, Addons!AddonsTypeOK, Addons!Fetch,
     Addons!FetchBranch, Addons!Repaired, Addons!clone, Addons!History
<1>1. AddonsTyped'
  BY <1>7, <1>8, <1>9, AddonNames DEF AddonsInv, AddonsTyped, Addons!AddonsTypeOK, Addons!Fetch,
     Addons!FetchBranch, Addons!Fine, Addons!Fails, Addons!Releases, Addons!NoTask,
     Addons!Commits, Addons!clone, Addons!History
<1>2. LockHeld'
  BY AddonNames DEF AddonsInv, AddonsTyped, Addons!AddonsTypeOK, LockHeld, Addons!Fetch,
     Addons!Fails, Addons!Fine, Addons!Goes, Addons!Ends, Addons!Releases, Addons!History,
     Addons!clone, Addons!FetchBranch, Addons!NoTask
<1>3. Wants'
  BY AddonNames DEF AddonsInv, AddonsTyped, Addons!AddonsTypeOK, LockHeld, Wants, Addons!Commits,
     Addons!Fetch, Addons!Fails, Addons!Fine, Addons!Goes, Addons!Ends, Addons!Releases,
     Addons!History, Addons!clone, Addons!FetchBranch, Addons!NoTask
<1>4. Kept'
  BY AddonNames DEF AddonsInv, AddonsTyped, Addons!AddonsTypeOK, LockHeld, Wants, Kept, Has,
     Spared, Removing, Addons!Fetch, Addons!Fails, Addons!Fine, Addons!Goes, Addons!Ends,
     Addons!Releases, Addons!History, Addons!clone, Addons!FetchBranch, Addons!NoTask
<1>5. Spared'
  BY AddonNames DEF AddonsInv, AddonsTyped, Addons!AddonsTypeOK, LockHeld, Wants, Has, Spared,
     Removing, Addons!Fetch, Addons!Fails, Addons!Fine, Addons!Goes, Addons!Ends, Addons!Releases,
     Addons!History, Addons!clone, Addons!FetchBranch, Addons!NoTask
<1>6. Tracked'
  BY AddonNames DEF AddonsInv, AddonsTyped, Addons!AddonsTypeOK, LockHeld, Wants, Tracked,
     Removing, Addons!Repaired, Addons!Fetch, Addons!Fails, Addons!Fine, Addons!Goes, Addons!Ends,
     Addons!Releases, Addons!History, Addons!clone, Addons!FetchBranch, Addons!NoTask
<1>. QED BY <1>1, <1>2, <1>3, <1>4, <1>5, <1>6 DEF AddonsInv

(* takes a checkout that is there for its commit                             *)
LEMMA CheckoutKeeps ==
    ASSUME AddonsInv, NEW q \in Consumers, Addons!Checkout(q)
    PROVE AddonsInv'
<1>0. <<goal[q], refs[goal[q]]>> \in Addons!Commits
  BY AddonNames DEF AddonsInv, AddonsTyped, Addons!AddonsTypeOK, Wants, Addons!Commits,
     Addons!Checkout
<1>1. AddonsTyped'
  <2> DEFINE c == <<goal[q], refs[goal[q]]>>
  <2>1. c \in Addons!Commits BY <1>0
  <2> HIDE DEF c
  <2>2. CASE Addons!HandOut(q, c) /\ recent' = Addons!Touched(c) /\ UNCHANGED cache
    BY <2>1, <2>2, AddonNames DEF AddonsInv, AddonsTyped, Addons!AddonsTypeOK, Addons!Checkout,
       Addons!HandOut, Addons!Releases, Addons!Ends, Addons!Goes, Addons!Touched, Addons!NoTask,
       Addons!clone, Addons!History
  <2>3. CASE /\ cache' = [cache EXCEPT ![c] = "half"]
             /\ Addons!Goes(q, "adding") /\ goal' = [goal EXCEPT ![q] = c]
             /\ UNCHANGED <<recent, holder, task, pinned>>
    BY <2>1, <2>3, AddonNames DEF AddonsInv, AddonsTyped, Addons!AddonsTypeOK, Addons!Checkout,
       Addons!Goes, Addons!clone, Addons!History
  <2>. QED BY <2>2, <2>3 DEF Addons!Checkout, c
<1>2. LockHeld'
  BY AddonNames DEF AddonsInv, AddonsTyped, Addons!AddonsTypeOK, LockHeld, Addons!Checkout,
     Addons!Goes, Addons!Ends, Addons!Releases, Addons!History, Addons!clone, Addons!HandOut,
     Addons!Touched, Addons!NoTask
<1>3. Wants'
  BY AddonNames DEF AddonsInv, AddonsTyped, Addons!AddonsTypeOK, LockHeld, Wants, Addons!Commits,
     Addons!Checkout, Addons!Goes, Addons!Ends, Addons!Releases, Addons!History, Addons!clone,
     Addons!HandOut, Addons!Touched, Addons!NoTask
<1>4. Kept'
  <2> DEFINE c == <<goal[q], refs[goal[q]]>>
  <2>1. c \in Addons!Commits BY <1>0
  <2>0. \A x \in Consumers : step[x] # "adding"
    BY AddonNames DEF AddonsInv, LockHeld, Addons!Checkout
  <2>4. UNCHANGED <<box, cut>> BY DEF Addons!Checkout, Addons!History
  <2> HIDE DEF c
  <2>2. CASE cache[c] # "none" /\ Addons!HandOut(q, c) /\ UNCHANGED cache
    <3>1. \A x \in Consumers : step'[x] # "adding"
      BY <2>0, <2>2 DEF AddonsInv, AddonsTyped, Addons!AddonsTypeOK, Addons!HandOut, Addons!Ends,
         Addons!Goes
    <3>2. \A x \in Consumers, d \in Addons!Commits : Has(x, d)' => Has(x, d) \/ d = c
      BY <2>2, <2>4 DEF AddonsInv, AddonsTyped, Addons!AddonsTypeOK, Addons!HandOut, Addons!Ends,
         Addons!Goes, Has
    <3>. QED BY <2>0, <2>2, <2>4, <3>1, <3>2 DEF AddonsInv, Kept
  <2>3. CASE /\ cache[c] = "none" /\ cache' = [cache EXCEPT ![c] = "half"]
             /\ Addons!Goes(q, "adding") /\ goal' = [goal EXCEPT ![q] = c]
    <3>1. /\ step'[q] = "adding" /\ goal'[q] = c
          /\ \A x \in Consumers \ {q} : step'[x] = step[x] /\ goal'[x] = goal[x]
      BY <2>3 DEF AddonsInv, AddonsTyped, Addons!AddonsTypeOK, Addons!Goes
    <3>2. \A d \in Addons!Commits : cache'[d] = IF d = c THEN "half" ELSE cache[d]
      BY <2>3 DEF AddonsInv, AddonsTyped, Addons!AddonsTypeOK
    <3>3. \A x \in Consumers, d \in Addons!Commits : Has(x, d)' => Has(x, d)
      BY <2>4, <3>1 DEF Has
    <3>4. \A x \in Consumers : Overlap \/ ~Has(x, c) BY <2>1, <2>3 DEF AddonsInv, Kept
    <3>. QED BY <2>0, <2>1, <2>4, <3>1, <3>2, <3>3, <3>4 DEF AddonsInv, Kept
  <2>. QED BY <2>2, <2>3 DEF Addons!Checkout, c
<1>5. Spared'
  BY AddonNames DEF AddonsInv, AddonsTyped, Addons!AddonsTypeOK, LockHeld, Wants, Has, Spared,
     Removing, Addons!Checkout, Addons!Goes, Addons!Ends, Addons!Releases, Addons!History,
     Addons!clone, Addons!HandOut, Addons!Touched, Addons!NoTask
<1>6. Tracked'
  BY AddonNames DEF AddonsInv, AddonsTyped, Addons!AddonsTypeOK, LockHeld, Wants, Tracked,
     Removing, Addons!Checkout, Addons!Goes, Addons!Ends, Addons!Releases, Addons!History,
     Addons!clone, Addons!HandOut, Addons!Touched, Addons!NoTask
<1>. QED BY <1>1, <1>2, <1>3, <1>4, <1>5, <1>6 DEF AddonsInv

(* or has made the one it began;                                             *)
LEMMA AddWorktreeKeeps ==
    ASSUME AddonsInv, NEW q \in Consumers, Addons!AddWorktree(q)
    PROVE AddonsInv'
<1>1. AddonsTyped'
  <2> DEFINE c == goal[q]
  <2>1. c \in Addons!Commits BY DEF AddonsInv, Wants, Addons!AddWorktree
  <2> HIDE DEF c
  <2>2. CASE cache' = [cache EXCEPT ![c] = "whole"] /\ recent' = recent \cup {c} /\ Addons!HandOut(q, c) /\ Addons!Fine
    BY <2>1, <2>2, AddonNames DEF AddonsInv, AddonsTyped, Addons!AddonsTypeOK, Addons!AddWorktree,
       Addons!HandOut, Addons!Releases, Addons!Ends, Addons!Goes, Addons!NoTask, Addons!Fine,
       Addons!clone, Addons!History
  <2>3. CASE cache' = [cache EXCEPT ![c] = "none"] /\ UNCHANGED recent /\ Addons!Ends(q) /\ Addons!Releases /\ Addons!Fails
    BY <2>1, <2>3, AddonNames DEF AddonsInv, AddonsTyped, Addons!AddonsTypeOK, Addons!AddWorktree,
       Addons!Releases, Addons!Ends, Addons!Goes, Addons!NoTask, Addons!Fails, Addons!clone,
       Addons!History
  <2>. QED BY <2>2, <2>3 DEF Addons!AddWorktree, c
<1>2. LockHeld'
  BY AddonNames DEF AddonsInv, AddonsTyped, Addons!AddonsTypeOK, LockHeld, Addons!AddWorktree,
     Addons!Fails, Addons!Fine, Addons!Goes, Addons!Ends, Addons!Releases, Addons!History,
     Addons!clone, Addons!HandOut, Addons!NoTask
<1>a. /\ \A x \in Consumers \ {q} : step'[x] = step[x] /\ goal'[x] = goal[x]
      /\ step'[q] = "idle" \/ (step'[q] = "held" /\ goal'[q] = goal[q])
      /\ goal[q] \in Addons!Commits /\ UNCHANGED refs
  BY DEF AddonsInv, AddonsTyped, Addons!AddonsTypeOK, Wants, Addons!AddWorktree, Addons!HandOut,
     Addons!Ends, Addons!Goes, Addons!clone
<1>3. Wants'
  BY <1>a DEF AddonsInv, Wants, Addons!Commits
<1>4. Kept'
  BY AddonNames DEF AddonsInv, AddonsTyped, Addons!AddonsTypeOK, LockHeld, Wants, Kept, Has,
     Spared, Removing, Addons!AddWorktree, Addons!Fails, Addons!Fine, Addons!Goes, Addons!Ends,
     Addons!Releases, Addons!History, Addons!clone, Addons!HandOut, Addons!NoTask
<1>5. Spared'
  BY AddonNames DEF AddonsInv, AddonsTyped, Addons!AddonsTypeOK, LockHeld, Wants, Has, Spared,
     Removing, Addons!AddWorktree, Addons!Fails, Addons!Fine, Addons!Goes, Addons!Ends,
     Addons!Releases, Addons!History, Addons!clone, Addons!HandOut, Addons!NoTask
<1>6. Tracked'
  BY AddonNames DEF AddonsInv, AddonsTyped, Addons!AddonsTypeOK, LockHeld, Wants, Tracked,
     Removing, Addons!AddWorktree, Addons!Fails, Addons!Fine, Addons!Goes, Addons!Ends,
     Addons!Releases, Addons!History, Addons!clone, Addons!HandOut, Addons!NoTask
<1>. QED BY <1>1, <1>2, <1>3, <1>4, <1>5, <1>6 DEF AddonsInv

(* its old container goes                                                    *)
LEMMA RemoveContainerKeeps ==
    ASSUME AddonsInv, NEW q \in Consumers, Addons!RemoveContainer(q)
    PROVE AddonsInv'
<1>1. AddonsTyped'
  BY AddonNames DEF AddonsInv, AddonsTyped, Addons!AddonsTypeOK, Addons!Commits, Wants, Tracked,
     Removing, LockHeld, Addons!RemoveContainer, Addons!Goes, Addons!History, Addons!clone
<1>2. LockHeld'
  BY AddonNames DEF AddonsInv, AddonsTyped, Addons!AddonsTypeOK, LockHeld, Addons!RemoveContainer,
     Addons!Goes, Addons!History, Addons!clone
<1>3. Wants'
  BY AddonNames DEF AddonsInv, AddonsTyped, Addons!AddonsTypeOK, LockHeld, Wants, Addons!Commits,
     Addons!RemoveContainer, Addons!Goes, Addons!History, Addons!clone
<1>a. box' = [box EXCEPT ![q] = None] /\ step' = [step EXCEPT ![q] = "bare"]
  BY DEF Addons!RemoveContainer, Addons!Goes
<1>7. /\ step[q] # "adding" /\ (step[q] = "held" => goal' = goal)
      /\ step[q] # "held" => box[q] # None /\ goal' = [goal EXCEPT ![q] = box[q]]
  BY DEF Addons!RemoveContainer
<1>8. \A x \in Consumers : x # q => step'[x] = step[x] /\ goal'[x] = goal[x] /\ box'[x] = box[x]
  BY <1>a, <1>7 DEF AddonsInv, AddonsTyped, Addons!AddonsTypeOK
<1>9. step'[q] = "bare" /\ box'[q] = None /\ (goal'[q] = goal[q] \/ goal'[q] = box[q])
      /\ (step[q] = "held" => goal'[q] = goal[q]) /\ (step[q] # "held" => goal'[q] = box[q])
  BY <1>a, <1>7 DEF AddonsInv, AddonsTyped, Addons!AddonsTypeOK
<1>0. /\ \A x \in Consumers, c \in Addons!Commits : Has(x, c)' => Has(x, c)
      /\ \A x \in Consumers : step'[x] = "adding" <=> step[x] = "adding"
      /\ \A x \in Consumers : step[x] = "adding" => goal'[x] = goal[x]
  BY <1>7, <1>8, <1>9, AddonNames DEF Has
<1>4. Kept'
  BY <1>0 DEF AddonsInv, Kept, Addons!RemoveContainer, Addons!History
<1>5. Spared'
  <2>1. \A x \in Consumers : step'[x] = "held" => step[x] = "held" /\ goal'[x] = goal[x]
    BY DEF AddonsInv, AddonsTyped, Addons!AddonsTypeOK, Addons!RemoveContainer, Addons!Goes
  <2>. QED BY <1>0, <2>1 DEF AddonsInv, Spared, Removing, Addons!RemoveContainer
<1>6. Tracked'
  BY AddonNames DEF AddonsInv, AddonsTyped, Addons!AddonsTypeOK, LockHeld, Wants, Tracked,
     Removing, Addons!RemoveContainer, Addons!Goes, Addons!History, Addons!clone
<1>. QED BY <1>1, <1>2, <1>3, <1>4, <1>5, <1>6 DEF AddonsInv

(* and its new one mounts the checkout.                                      *)
LEMMA RunContainerKeeps ==
    ASSUME AddonsInv, NEW q \in Consumers, Addons!RunContainer(q)
    PROVE AddonsInv'
<1>1. AddonsTyped'
  BY AddonNames DEF AddonsInv, AddonsTyped, Addons!AddonsTypeOK, Addons!Commits, Wants, Tracked,
     Removing, LockHeld, Addons!RunContainer, Addons!Fails, Addons!Fine, Addons!Goes, Addons!Ends,
     Addons!History, Addons!clone
<1>2. LockHeld'
  BY AddonNames DEF AddonsInv, AddonsTyped, Addons!AddonsTypeOK, LockHeld, Addons!RunContainer,
     Addons!Fails, Addons!Fine, Addons!Goes, Addons!Ends, Addons!History, Addons!clone
<1>3. Wants'
  BY AddonNames DEF AddonsInv, AddonsTyped, Addons!AddonsTypeOK, LockHeld, Wants, Addons!Commits,
     Addons!RunContainer, Addons!Fails, Addons!Fine, Addons!Goes, Addons!Ends, Addons!History,
     Addons!clone
<1>4. Kept'
  BY AddonNames DEF AddonsInv, AddonsTyped, Addons!AddonsTypeOK, LockHeld, Wants, Kept, Has,
     Spared, Removing, Addons!RunContainer, Addons!Fails, Addons!Fine, Addons!Goes, Addons!Ends,
     Addons!History, Addons!clone
<1>5. Spared'
  BY AddonNames DEF AddonsInv, AddonsTyped, Addons!AddonsTypeOK, LockHeld, Wants, Has, Spared,
     Removing, Addons!RunContainer, Addons!Fails, Addons!Fine, Addons!Goes, Addons!Ends,
     Addons!History, Addons!clone
<1>6. Tracked'
  BY AddonNames DEF AddonsInv, AddonsTyped, Addons!AddonsTypeOK, LockHeld, Wants, Tracked,
     Removing, Addons!RunContainer, Addons!Fails, Addons!Fine, Addons!Goes, Addons!Ends,
     Addons!History, Addons!clone
<1>. QED BY <1>1, <1>2, <1>3, <1>4, <1>5, <1>6 DEF AddonsInv

(* An environment is deleted.                                                *)
LEMMA DeleteEnvironmentKeeps ==
    ASSUME AddonsInv, NEW q \in Consumers, Addons!DeleteEnvironment(q)
    PROVE AddonsInv'
<1>1. AddonsTyped'
  BY AddonNames DEF AddonsInv, AddonsTyped, Addons!AddonsTypeOK, Addons!Commits, Wants, Tracked,
     Removing, LockHeld, Addons!DeleteEnvironment, Addons!History, Addons!clone
<1>2. LockHeld'
  BY AddonNames DEF AddonsInv, AddonsTyped, Addons!AddonsTypeOK, LockHeld,
     Addons!DeleteEnvironment, Addons!History, Addons!clone
<1>3. Wants'
  BY AddonNames DEF AddonsInv, AddonsTyped, Addons!AddonsTypeOK, LockHeld, Wants, Addons!Commits,
     Addons!DeleteEnvironment, Addons!History, Addons!clone
<1>0. \A x \in Consumers, c \in Addons!Commits : Has(x, c)' => Has(x, c)
  <2>0. box' = [box EXCEPT ![q] = None] /\ UNCHANGED <<step, goal>> BY DEF Addons!DeleteEnvironment
  <2>1. \A x \in Consumers : box'[x] = IF x = q THEN None ELSE box[x]
    BY <2>0 DEF AddonsInv, AddonsTyped, Addons!AddonsTypeOK
  <2>. QED BY <2>0, <2>1, AddonNames DEF Has
<1>4. Kept'
  BY <1>0 DEF AddonsInv, Kept, Addons!DeleteEnvironment, Addons!History
<1>5. Spared'
  BY <1>0 DEF AddonsInv, Spared, Removing, Addons!DeleteEnvironment
<1>6. Tracked'
  BY AddonNames DEF AddonsInv, AddonsTyped, Addons!AddonsTypeOK, LockHeld, Wants, Tracked,
     Removing, Addons!DeleteEnvironment, Addons!History, Addons!clone
<1>. QED BY <1>1, <1>2, <1>3, <1>4, <1>5, <1>6 DEF AddonsInv

(* A checkout that nobody came for is no longer recent.                      *)
LEMMA GraceEndsKeeps ==
    ASSUME AddonsInv, NEW k \in Addons!Commits, Addons!GraceEnds(k)
    PROVE AddonsInv'
<1>1. AddonsTyped'
  BY AddonNames DEF AddonsInv, AddonsTyped, Addons!AddonsTypeOK, Addons!Commits, Wants, Tracked,
     Removing, LockHeld, Addons!GraceEnds, Addons!History, Addons!clone, Addons!envs
<1>2. LockHeld'
  BY AddonNames DEF AddonsInv, AddonsTyped, Addons!AddonsTypeOK, LockHeld, Addons!GraceEnds,
     Addons!History, Addons!clone, Addons!envs
<1>3. Wants'
  BY AddonNames DEF AddonsInv, AddonsTyped, Addons!AddonsTypeOK, LockHeld, Wants, Addons!Commits,
     Addons!GraceEnds, Addons!History, Addons!clone, Addons!envs
<1>4. Kept'
  BY AddonNames DEF AddonsInv, AddonsTyped, Addons!AddonsTypeOK, LockHeld, Wants, Kept, Has,
     Spared, Removing, Addons!GraceEnds, Addons!History, Addons!clone, Addons!envs
<1>5. Spared'
  BY AddonNames DEF AddonsInv, AddonsTyped, Addons!AddonsTypeOK, LockHeld, Wants, Has, Spared,
     Removing, Addons!GraceEnds, Addons!History, Addons!clone, Addons!envs
<1>6. Tracked'
  BY AddonNames DEF AddonsInv, AddonsTyped, Addons!AddonsTypeOK, LockHeld, Wants, Tracked,
     Removing, Addons!GraceEnds, Addons!History, Addons!clone, Addons!envs
<1>. QED BY <1>1, <1>2, <1>3, <1>4, <1>5, <1>6 DEF AddonsInv

(* A removal looks for who mounts what,                                      *)
LEMMA FindUsersKeeps ==
    ASSUME AddonsInv, NEW v \in Branches, Addons!FindUsers(v)
    PROVE AddonsInv'
<1>1. AddonsTyped'
  BY AddonNames DEF AddonsInv, AddonsTyped, Addons!AddonsTypeOK, Addons!Commits, Wants, Tracked,
     Removing, LockHeld, Addons!Pinned, Addons!FindUsers, Addons!Free, Addons!History,
     Addons!clone, Addons!envs, Addons!Others
<1>2. LockHeld'
  BY AddonNames DEF AddonsInv, AddonsTyped, Addons!AddonsTypeOK, LockHeld, Addons!FindUsers,
     Addons!Free, Addons!History, Addons!clone, Addons!envs, Addons!Others
<1>3. Wants'
  BY AddonNames DEF AddonsInv, AddonsTyped, Addons!AddonsTypeOK, LockHeld, Wants, Addons!Commits,
     Addons!FindUsers, Addons!Free, Addons!History, Addons!clone, Addons!envs, Addons!Others
<1>4. Kept'
  BY AddonNames DEF AddonsInv, AddonsTyped, Addons!AddonsTypeOK, LockHeld, Wants, Kept, Has,
     Spared, Removing, Addons!Pinned, Addons!FindUsers, Addons!Free, Addons!History, Addons!clone,
     Addons!envs, Addons!Others
<1>0. /\ Overlap \/ \A x \in Consumers : step[x] # "bare"
      /\ pinned' = {box[x] : x \in {y \in Consumers : box[y] # None}}
      /\ UNCHANGED <<step, goal, box, recent>>
  BY DEF Addons!FindUsers, Addons!Away, Addons!Pinned, Addons!Others, Addons!envs
<1>5. Spared'
  <2>1. \A x \in Consumers, c \in Addons!Commits : Has(x, c) => c \in pinned' \cup recent \/ Overlap
    BY <1>0, AddonNames DEF AddonsInv, Spared, Has
  <2>2. \A x \in Consumers, c \in Addons!Commits : Has(x, c)' => Has(x, c)
    BY <1>0 DEF Has
  <2>. QED BY <1>0, <2>1, <2>2 DEF AddonsInv, Spared
<1>6. Tracked'
  BY AddonNames DEF AddonsInv, AddonsTyped, Addons!AddonsTypeOK, LockHeld, Wants, Tracked,
     Removing, Addons!FindUsers, Addons!Free, Addons!History, Addons!clone, Addons!envs,
     Addons!Others
<1>. QED BY <1>1, <1>2, <1>3, <1>4, <1>5, <1>6 DEF AddonsInv

(* A branch is tracked again.                                                *)
LEMMA TrackBranchKeeps ==
    ASSUME AddonsInv, NEW v \in Branches, Addons!TrackBranch(v)
    PROVE AddonsInv'
<1>1. AddonsTyped'
  BY AddonNames DEF AddonsInv, AddonsTyped, Addons!AddonsTypeOK, Addons!Commits, Wants, Tracked,
     Removing, LockHeld, Addons!TrackBranch, Addons!Free, Addons!envs, Addons!Others,
     Addons!FetchBranch
<1>2. LockHeld'
  BY AddonNames DEF AddonsInv, AddonsTyped, Addons!AddonsTypeOK, LockHeld, Addons!TrackBranch,
     Addons!Free, Addons!envs, Addons!Others, Addons!FetchBranch
<1>3. Wants'
  BY AddonNames DEF AddonsInv, AddonsTyped, Addons!AddonsTypeOK, LockHeld, Wants, Addons!Commits,
     Addons!TrackBranch, Addons!Free, Addons!envs, Addons!Others, Addons!FetchBranch
<1>4. Kept'
  BY AddonNames DEF AddonsInv, AddonsTyped, Addons!AddonsTypeOK, LockHeld, Wants, Kept, Has,
     Spared, Removing, Addons!TrackBranch, Addons!Free, Addons!envs, Addons!Others,
     Addons!FetchBranch
<1>5. Spared'
  BY AddonNames DEF AddonsInv, AddonsTyped, Addons!AddonsTypeOK, LockHeld, Wants, Has, Spared,
     Removing, Addons!TrackBranch, Addons!Free, Addons!envs, Addons!Others, Addons!FetchBranch
<1>6. Tracked'
  BY AddonNames DEF AddonsInv, AddonsTyped, Addons!AddonsTypeOK, LockHeld, Wants, Tracked,
     Removing, Addons!TrackBranch, Addons!Free, Addons!envs, Addons!Others, Addons!FetchBranch
<1>. QED BY <1>1, <1>2, <1>3, <1>4, <1>5, <1>6 DEF AddonsInv

(* A commit is pushed to the remote.                                         *)
LEMMA PushKeeps == ASSUME AddonsInv, NEW v \in Branches, Addons!Push(v) PROVE AddonsInv'
<1>1. AddonsTyped'
  BY AddonNames DEF AddonsInv, AddonsTyped, Addons!AddonsTypeOK, Addons!Commits, Wants, Tracked,
     Removing, LockHeld, Addons!Push, Addons!History, Addons!clone, Addons!envs
<1>2. LockHeld'
  BY AddonNames DEF AddonsInv, AddonsTyped, Addons!AddonsTypeOK, LockHeld, Addons!Push,
     Addons!History, Addons!clone, Addons!envs
<1>3. Wants'
  BY AddonNames DEF AddonsInv, AddonsTyped, Addons!AddonsTypeOK, LockHeld, Wants, Addons!Commits,
     Addons!Push, Addons!History, Addons!clone, Addons!envs
<1>4. Kept'
  BY AddonNames DEF AddonsInv, AddonsTyped, Addons!AddonsTypeOK, LockHeld, Wants, Kept, Has,
     Spared, Removing, Addons!Push, Addons!History, Addons!clone, Addons!envs
<1>5. Spared'
  BY AddonNames DEF AddonsInv, AddonsTyped, Addons!AddonsTypeOK, LockHeld, Wants, Has, Spared,
     Removing, Addons!Push, Addons!History, Addons!clone, Addons!envs
<1>6. Tracked'
  BY AddonNames DEF AddonsInv, AddonsTyped, Addons!AddonsTypeOK, LockHeld, Wants, Tracked,
     Removing, Addons!Push, Addons!History, Addons!clone, Addons!envs
<1>. QED BY <1>1, <1>2, <1>3, <1>4, <1>5, <1>6 DEF AddonsInv

(* makes the clone track its branches one by one,                            *)
LEMMA ConvertKeeps == ASSUME AddonsInv, Addons!Convert PROVE AddonsInv'
<1>1. AddonsTyped'
  BY AddonNames DEF AddonsInv, AddonsTyped, Addons!AddonsTypeOK, Addons!Commits, Wants, Tracked,
     Removing, LockHeld, Addons!Downloaded, Addons!Convert, Addons!History, Addons!envs,
     Addons!Others, Addons!Then
<1>2. LockHeld'
  BY AddonNames DEF AddonsInv, AddonsTyped, Addons!AddonsTypeOK, LockHeld, Addons!Convert,
     Addons!History, Addons!envs, Addons!Others, Addons!Then
<1>3. Wants'
  BY AddonNames DEF AddonsInv, AddonsTyped, Addons!AddonsTypeOK, LockHeld, Wants, Addons!Commits,
     Addons!Convert, Addons!History, Addons!envs, Addons!Others, Addons!Then
<1>4. Kept'
  BY AddonNames DEF AddonsInv, AddonsTyped, Addons!AddonsTypeOK, LockHeld, Wants, Kept, Has,
     Spared, Removing, Addons!Convert, Addons!History, Addons!envs, Addons!Others, Addons!Then
<1>5. Spared'
  BY AddonNames DEF AddonsInv, AddonsTyped, Addons!AddonsTypeOK, LockHeld, Wants, Has, Spared,
     Removing, Addons!Convert, Addons!History, Addons!envs, Addons!Others, Addons!Then
<1>6. Tracked'
  BY AddonNames DEF AddonsInv, AddonsTyped, Addons!AddonsTypeOK, LockHeld, Wants, Tracked,
     Removing, Addons!Downloaded, Addons!Convert, Addons!History, Addons!envs, Addons!Others,
     Addons!Then
<1>. QED BY <1>1, <1>2, <1>3, <1>4, <1>5, <1>6 DEF AddonsInv

(* takes the branch from them,                                               *)
LEMMA NarrowKeeps == ASSUME AddonsInv, Addons!Narrow PROVE AddonsInv'
<1>1. AddonsTyped'
  BY AddonNames DEF AddonsInv, AddonsTyped, Addons!AddonsTypeOK, Addons!Commits, Wants, Tracked,
     Removing, LockHeld, Addons!Narrow, Addons!History, Addons!envs, Addons!Others, Addons!Then
<1>2. LockHeld'
  BY AddonNames DEF AddonsInv, AddonsTyped, Addons!AddonsTypeOK, LockHeld, Addons!Narrow,
     Addons!History, Addons!envs, Addons!Others, Addons!Then
<1>3. Wants'
  BY AddonNames DEF AddonsInv, AddonsTyped, Addons!AddonsTypeOK, LockHeld, Wants, Addons!Commits,
     Addons!Narrow, Addons!History, Addons!envs, Addons!Others, Addons!Then
<1>4. Kept'
  BY AddonNames DEF AddonsInv, AddonsTyped, Addons!AddonsTypeOK, LockHeld, Wants, Kept, Has,
     Spared, Removing, Addons!Narrow, Addons!History, Addons!envs, Addons!Others, Addons!Then
<1>5. Spared'
  BY AddonNames DEF AddonsInv, AddonsTyped, Addons!AddonsTypeOK, LockHeld, Wants, Has, Spared,
     Removing, Addons!Narrow, Addons!History, Addons!envs, Addons!Others, Addons!Then
<1>6. Tracked'
  BY AddonNames DEF AddonsInv, AddonsTyped, Addons!AddonsTypeOK, LockHeld, Wants, Tracked,
     Removing, Addons!Narrow, Addons!History, Addons!envs, Addons!Others, Addons!Then
<1>. QED BY <1>1, <1>2, <1>3, <1>4, <1>5, <1>6 DEF AddonsInv

(* forgets its tip,                                                          *)
LEMMA ForgetKeeps == ASSUME AddonsInv, Addons!Forget PROVE AddonsInv'
<1>1. AddonsTyped'
  BY AddonNames DEF AddonsInv, AddonsTyped, Addons!AddonsTypeOK, Addons!Commits, Wants, Tracked,
     Removing, LockHeld, Addons!Forget, Addons!History, Addons!envs, Addons!Others, Addons!Then,
     Addons!Marked
<1>2. LockHeld'
  BY AddonNames DEF AddonsInv, AddonsTyped, Addons!AddonsTypeOK, LockHeld, Addons!Forget,
     Addons!History, Addons!envs, Addons!Others, Addons!Then, Addons!Marked
<1>3. Wants'
  BY AddonNames DEF AddonsInv, AddonsTyped, Addons!AddonsTypeOK, LockHeld, Wants, Addons!Commits,
     Addons!Forget, Addons!History, Addons!envs, Addons!Others, Addons!Then, Addons!Marked
<1>4. Kept'
  BY AddonNames DEF AddonsInv, AddonsTyped, Addons!AddonsTypeOK, LockHeld, Wants, Kept, Has,
     Spared, Removing, Addons!Forget, Addons!History, Addons!envs, Addons!Others, Addons!Then,
     Addons!Marked
<1>5. Spared'
  BY AddonNames DEF AddonsInv, AddonsTyped, Addons!AddonsTypeOK, LockHeld, Wants, Has, Spared,
     Removing, Addons!Forget, Addons!History, Addons!envs, Addons!Others, Addons!Then,
     Addons!Marked
<1>6. Tracked'
  BY AddonNames DEF AddonsInv, AddonsTyped, Addons!AddonsTypeOK, LockHeld, Wants, Tracked,
     Removing, Addons!Forget, Addons!History, Addons!envs, Addons!Others, Addons!Then,
     Addons!Marked
<1>. QED BY <1>1, <1>2, <1>3, <1>4, <1>5, <1>6 DEF AddonsInv

(* and deletes the checkouts that nobody has.                                *)
LEMMA DetachKeeps == ASSUME AddonsInv, Addons!Detach PROVE AddonsInv'
<1>1. AddonsTyped'
  BY AddonNames DEF AddonsInv, AddonsTyped, Addons!AddonsTypeOK, Addons!Commits, Wants, Tracked,
     Removing, LockHeld, Addons!Detach, Addons!Releases, Addons!clone, Addons!envs, Addons!Others,
     Addons!Reachable, Addons!NoTask
<1>2. LockHeld'
  BY AddonNames DEF AddonsInv, AddonsTyped, Addons!AddonsTypeOK, LockHeld, Addons!Detach,
     Addons!Releases, Addons!clone, Addons!envs, Addons!Others, Addons!Reachable, Addons!NoTask
<1>3. Wants'
  BY AddonNames DEF AddonsInv, AddonsTyped, Addons!AddonsTypeOK, LockHeld, Wants, Addons!Commits,
     Addons!Detach, Addons!Releases, Addons!clone, Addons!envs, Addons!Others, Addons!Reachable,
     Addons!NoTask
<1>4. Kept'
  BY AddonNames DEF AddonsInv, AddonsTyped, Addons!AddonsTypeOK, LockHeld, Wants, Kept, Has,
     Spared, Removing, Addons!Detach, Addons!Releases, Addons!clone, Addons!envs, Addons!Others,
     Addons!Reachable, Addons!NoTask
<1>5. Spared'
  BY AddonNames DEF AddonsInv, AddonsTyped, Addons!AddonsTypeOK, LockHeld, Wants, Has, Spared,
     Removing, Addons!Detach, Addons!Releases, Addons!clone, Addons!envs, Addons!Others,
     Addons!Reachable, Addons!NoTask
<1>6. Tracked'
  BY AddonNames DEF AddonsInv, AddonsTyped, Addons!AddonsTypeOK, LockHeld, Wants, Tracked,
     Removing, Addons!Detach, Addons!Releases, Addons!clone, Addons!envs, Addons!Others,
     Addons!Reachable, Addons!NoTask
<1>. QED BY <1>1, <1>2, <1>3, <1>4, <1>5, <1>6 DEF AddonsInv

(* An update takes the lock                                                  *)
LEMMA UpdateRepoKeeps == ASSUME AddonsInv, Addons!UpdateRepo PROVE AddonsInv'
<1>1. AddonsTyped'
  BY AddonNames DEF AddonsInv, AddonsTyped, Addons!AddonsTypeOK, Addons!Commits, Wants, Tracked,
     Removing, LockHeld, Addons!Repaired, Addons!UpdateRepo, Addons!Free, Addons!History,
     Addons!envs, Addons!Others, Addons!NoTask
<1>2. LockHeld'
  BY AddonNames DEF AddonsInv, AddonsTyped, Addons!AddonsTypeOK, LockHeld, Addons!UpdateRepo,
     Addons!Free, Addons!History, Addons!envs, Addons!Others, Addons!NoTask
<1>3. Wants'
  BY AddonNames DEF AddonsInv, AddonsTyped, Addons!AddonsTypeOK, LockHeld, Wants, Addons!Commits,
     Addons!UpdateRepo, Addons!Free, Addons!History, Addons!envs, Addons!Others, Addons!NoTask
<1>4. Kept'
  BY AddonNames DEF AddonsInv, AddonsTyped, Addons!AddonsTypeOK, LockHeld, Wants, Kept, Has,
     Spared, Removing, Addons!UpdateRepo, Addons!Free, Addons!History, Addons!envs, Addons!Others,
     Addons!NoTask
<1>5. Spared'
  BY AddonNames DEF AddonsInv, AddonsTyped, Addons!AddonsTypeOK, LockHeld, Wants, Has, Spared,
     Removing, Addons!UpdateRepo, Addons!Free, Addons!History, Addons!envs, Addons!Others,
     Addons!NoTask
<1>6. Tracked'
  BY AddonNames DEF AddonsInv, AddonsTyped, Addons!AddonsTypeOK, LockHeld, Wants, Tracked,
     Removing, Addons!Repaired, Addons!UpdateRepo, Addons!Free, Addons!History, Addons!envs,
     Addons!Others, Addons!NoTask
<1>. QED BY <1>1, <1>2, <1>3, <1>4, <1>5, <1>6 DEF AddonsInv

(* and fetches what is tracked.                                              *)
LEMMA FetchTrackedKeeps == ASSUME AddonsInv, Addons!FetchTracked PROVE AddonsInv'
<1>1. AddonsTyped'
  BY AddonNames DEF AddonsInv, AddonsTyped, Addons!AddonsTypeOK, Addons!Commits, Wants, Tracked,
     Removing, LockHeld, Addons!FetchTracked, Addons!Fails, Addons!Fine, Addons!Releases,
     Addons!History, Addons!envs, Addons!NoTask
<1>2. LockHeld'
  BY AddonNames DEF AddonsInv, AddonsTyped, Addons!AddonsTypeOK, LockHeld, Addons!FetchTracked,
     Addons!Fails, Addons!Fine, Addons!Releases, Addons!History, Addons!envs, Addons!NoTask
<1>3. Wants'
  BY AddonNames DEF AddonsInv, AddonsTyped, Addons!AddonsTypeOK, LockHeld, Wants, Addons!Commits,
     Addons!FetchTracked, Addons!Fails, Addons!Fine, Addons!Releases, Addons!History, Addons!envs,
     Addons!NoTask
<1>4. Kept'
  BY AddonNames DEF AddonsInv, AddonsTyped, Addons!AddonsTypeOK, LockHeld, Wants, Kept, Has,
     Spared, Removing, Addons!FetchTracked, Addons!Fails, Addons!Fine, Addons!Releases,
     Addons!History, Addons!envs, Addons!NoTask
<1>5. Spared'
  BY AddonNames DEF AddonsInv, AddonsTyped, Addons!AddonsTypeOK, LockHeld, Wants, Has, Spared,
     Removing, Addons!FetchTracked, Addons!Fails, Addons!Fine, Addons!Releases, Addons!History,
     Addons!envs, Addons!NoTask
<1>6. Tracked'
  BY AddonNames DEF AddonsInv, AddonsTyped, Addons!AddonsTypeOK, LockHeld, Wants, Tracked,
     Removing, Addons!FetchTracked, Addons!Fails, Addons!Fine, Addons!Releases, Addons!History,
     Addons!envs, Addons!NoTask
<1>. QED BY <1>1, <1>2, <1>3, <1>4, <1>5, <1>6 DEF AddonsInv

(* The repository is registered,                                             *)
LEMMA RegisterRepoKeeps == ASSUME AddonsInv, Addons!RegisterRepo PROVE AddonsInv'
<1>1. AddonsTyped'
  BY AddonNames DEF AddonsInv, AddonsTyped, Addons!AddonsTypeOK, Addons!Commits, Wants, Tracked,
     Removing, LockHeld, Addons!RegisterRepo, Addons!History, Addons!envs, Addons!Others
<1>2. LockHeld'
  BY AddonNames DEF AddonsInv, AddonsTyped, Addons!AddonsTypeOK, LockHeld, Addons!RegisterRepo,
     Addons!History, Addons!envs, Addons!Others
<1>3. Wants'
  BY AddonNames DEF AddonsInv, AddonsTyped, Addons!AddonsTypeOK, LockHeld, Wants, Addons!Commits,
     Addons!RegisterRepo, Addons!History, Addons!envs, Addons!Others
<1>4. Kept'
  BY AddonNames DEF AddonsInv, AddonsTyped, Addons!AddonsTypeOK, LockHeld, Wants, Kept, Has,
     Spared, Removing, Addons!RegisterRepo, Addons!History, Addons!envs, Addons!Others
<1>5. Spared'
  BY AddonNames DEF AddonsInv, AddonsTyped, Addons!AddonsTypeOK, LockHeld, Wants, Has, Spared,
     Removing, Addons!RegisterRepo, Addons!History, Addons!envs, Addons!Others
<1>6. Tracked'
  BY AddonNames DEF AddonsInv, AddonsTyped, Addons!AddonsTypeOK, LockHeld, Wants, Tracked,
     Removing, Addons!RegisterRepo, Addons!History, Addons!envs, Addons!Others
<1>. QED BY <1>1, <1>2, <1>3, <1>4, <1>5, <1>6 DEF AddonsInv

(* or deleted, when nobody uses it.                                          *)
LEMMA DeleteRepoKeeps == ASSUME AddonsInv, Addons!DeleteRepo PROVE AddonsInv'
<1>0. refs' \in [Branches -> 0..MaxCommits] /\ cache' \in [Addons!Commits -> {"none", "half", "whole"}]
  BY AddonNames DEF Addons!DeleteRepo
<1>a. /\ repo' = FALSE /\ wildcard' = FALSE /\ onDemand' = FALSE
      /\ specs' = {} /\ recent' = {} /\ removed' = {} /\ cut' = {}
      /\ UNCHANGED <<tip, box, step, goal, addonFailures, holder, task, pinned>>
  BY DEF Addons!DeleteRepo, Addons!Others, Addons!envs
<1>1. AddonsTyped'
  BY <1>0, <1>a DEF AddonsInv, AddonsTyped, Addons!AddonsTypeOK, Addons!Commits
<1>2. LockHeld'
  BY AddonNames DEF AddonsInv, AddonsTyped, Addons!AddonsTypeOK, LockHeld, Addons!DeleteRepo,
     Addons!Free, Addons!envs, Addons!Others
<1>3. Wants'
  BY AddonNames DEF AddonsInv, AddonsTyped, Addons!AddonsTypeOK, LockHeld, Wants, Addons!Commits,
     Addons!DeleteRepo, Addons!Free, Addons!envs, Addons!Others
<1>7. /\ \A x \in Consumers : step[x] \notin {"held", "bare", "adding"} /\ box[x] = None
      /\ \A c \in Addons!Commits : cache'[c] = "none"
  BY AddonNames DEF AddonsInv, LockHeld, Addons!DeleteRepo, Addons!Pinned, Addons!Free
<1>4. Kept'
  BY <1>a, <1>7, AddonNames DEF Kept, Has
<1>5. Spared'
  BY AddonNames DEF AddonsInv, AddonsTyped, Addons!AddonsTypeOK, LockHeld, Wants, Has, Spared,
     Removing, Addons!Pinned, Addons!DeleteRepo, Addons!Free, Addons!envs, Addons!Others
<1>6. Tracked'
  BY AddonNames DEF AddonsInv, AddonsTyped, Addons!AddonsTypeOK, LockHeld, Wants, Tracked,
     Removing, Addons!DeleteRepo, Addons!Free, Addons!envs, Addons!Others
<1>. QED BY <1>1, <1>2, <1>3, <1>4, <1>5, <1>6 DEF AddonsInv

(* The server dies: a checkout it was making stays cut.                      *)
LEMMA AddonsSurviveDeath == ASSUME AddonsInv, Addons!ServerDies PROVE AddonsInv'
<1>1. AddonsTyped'
  BY AddonNames DEF AddonsInv, AddonsTyped, Addons!AddonsTypeOK, Addons!Commits, Wants, Tracked,
     Removing, LockHeld, Addons!ServerDies, Addons!Fails, Addons!Releases, Addons!clone,
     Addons!NoTask
<1>2. LockHeld'
  BY AddonNames DEF AddonsInv, AddonsTyped, Addons!AddonsTypeOK, LockHeld, Addons!ServerDies,
     Addons!Fails, Addons!Releases, Addons!clone, Addons!NoTask
<1>3. Wants'
  BY AddonNames DEF AddonsInv, AddonsTyped, Addons!AddonsTypeOK, LockHeld, Wants, Addons!Commits,
     Addons!ServerDies, Addons!Fails, Addons!Releases, Addons!clone, Addons!NoTask
<1>4. Kept'
  BY AddonNames DEF AddonsInv, AddonsTyped, Addons!AddonsTypeOK, LockHeld, Wants, Kept, Has,
     Spared, Removing, Addons!ServerDies, Addons!Fails, Addons!Releases, Addons!clone,
     Addons!NoTask
<1>5. Spared'
  BY AddonNames DEF AddonsInv, AddonsTyped, Addons!AddonsTypeOK, LockHeld, Wants, Has, Spared,
     Removing, Addons!ServerDies, Addons!Fails, Addons!Releases, Addons!clone, Addons!NoTask
<1>6. Tracked'
  BY AddonNames DEF AddonsInv, AddonsTyped, Addons!AddonsTypeOK, LockHeld, Wants, Tracked,
     Removing, Addons!ServerDies, Addons!Fails, Addons!Releases, Addons!clone, Addons!NoTask
<1>. QED BY <1>1, <1>2, <1>3, <1>4, <1>5, <1>6 DEF AddonsInv

(* At the start.                                                             *)
LEMMA AddonsInitially == Addons!AddonsInit => AddonsInv
<1> SUFFICES ASSUME Addons!AddonsInit PROVE AddonsInv
  OBVIOUS
<1>4. /\ tip \in [Branches -> 0..MaxCommits] /\ refs \in [Branches -> 0..MaxCommits]
      /\ cache \in [Addons!Commits -> {"none", "half", "whole"}]
  <2>1. 1 \in 0..MaxCommits \/ Branches = {}
    BY AddonNames
  <2>. QED BY <2>1 DEF Addons!AddonsInit
<1>5. /\ repo = TRUE /\ specs = {} /\ wildcard \in BOOLEAN /\ onDemand = FALSE
      /\ recent = {} /\ pinned = {} /\ removed = {} /\ cut = {} /\ addonFailures = 0
      /\ box = [e \in Consumers |-> None] /\ step = [e \in Consumers |-> "idle"] /\ goal = box
      /\ holder = Nobody /\ task = [do |-> "none", branch |-> None]
  BY DEF Addons!AddonsInit, Addons!NoTask
<1>6. /\ box \in [Consumers -> Addons!Commits \cup {None}]
      /\ goal \in [Consumers -> Branches \cup Addons!Commits \cup {None}]
      /\ step \in [Consumers -> {"idle", "fetch", "checkout", "adding", "held", "bare"}]
      /\ \A e \in Consumers : goal[e] \in Branches \cup Addons!Commits \cup {None}
  BY <1>5
<1>7. task \in [do : {"none", "convert", "narrow", "forget", "detach", "fetch"},
                branch : Branches \cup {None}]
  BY <1>5
<1>1. AddonsTyped
  <2>1. {tip, refs} \subseteq [Branches -> 0..MaxCommits] BY <1>4
  <2>2. {repo, wildcard, onDemand} \subseteq BOOLEAN BY <1>5
  <2>3. holder \in Consumers \cup {"task", Nobody} /\ addonFailures \in 0..MaxFailures
    BY <1>5, AddonNames
  <2>4. /\ specs \subseteq Branches /\ removed \subseteq Branches
        /\ recent \subseteq Addons!Commits /\ pinned \subseteq Addons!Commits /\ cut \subseteq Addons!Commits
    BY <1>5
  <2>. QED BY <1>4, <1>6, <1>7, <2>1, <2>2, <2>3, <2>4 DEF AddonsTyped, Addons!AddonsTypeOK
<1>2. LockHeld /\ Wants /\ Tracked
  BY AddonNames DEF Addons!AddonsInit, LockHeld, Wants, Tracked, Removing, Addons!NoTask
<1>3. Kept /\ Spared
  BY AddonNames DEF Addons!AddonsInit, Kept, Spared, Has, Removing, Addons!NoTask
<1>. QED BY <1>1, <1>2, <1>3 DEF AddonsInv

(* A step of another component.                                              *)
LEMMA AddonsStand == ASSUME AddonsInv, UNCHANGED addonVars PROVE AddonsInv'
<1>1. /\ UNCHANGED <<tip, repo, refs, specs, wildcard, onDemand, cache, recent, box, step, goal>>
      /\ UNCHANGED <<holder, task, pinned, removed, cut, addonFailures>>
  BY DEF addonVars
<1>2. AddonsTyped' BY <1>1 DEF AddonsInv, AddonsTyped, Addons!AddonsTypeOK
<1>3. LockHeld' /\ Wants' /\ Tracked'
  BY <1>1 DEF AddonsInv, LockHeld, Wants, Tracked, Removing
<1>4. Kept' /\ Spared' BY <1>1 DEF AddonsInv, Kept, Spared, Has, Removing
<1>. QED BY <1>2, <1>3, <1>4 DEF AddonsInv

(* Every step of the add-ons.                                                *)
LEMMA AddonsStep == ASSUME AddonsInv, Addons!AddonsNext PROVE AddonsInv'
<1>1. CASE \E q \in Consumers :
             Addons!Begin(q) \/ Addons!Fetch(q) \/ Addons!Checkout(q) \/ Addons!AddWorktree(q)
             \/ Addons!RemoveContainer(q) \/ Addons!RunContainer(q) \/ Addons!DeleteEnvironment(q)
  BY <1>1, BeginKeeps, FetchKeeps, CheckoutKeeps, AddWorktreeKeeps, RemoveContainerKeeps,
     RunContainerKeeps, DeleteEnvironmentKeeps
<1>2. CASE \E k \in Addons!Commits : Addons!GraceEnds(k) BY <1>2, GraceEndsKeeps
<1>3. CASE \E v \in Branches : Addons!FindUsers(v) \/ Addons!TrackBranch(v) \/ Addons!Push(v)
  BY <1>3, FindUsersKeeps, TrackBranchKeeps, PushKeeps
<1>4. CASE Addons!Convert \/ Addons!Narrow \/ Addons!Forget \/ Addons!Detach
           \/ Addons!UpdateRepo \/ Addons!FetchTracked
  BY <1>4, ConvertKeeps, NarrowKeeps, ForgetKeeps, DetachKeeps, UpdateRepoKeeps, FetchTrackedKeeps
<1>5. CASE Addons!RegisterRepo \/ Addons!DeleteRepo \/ Addons!ServerDies
  BY <1>5, RegisterRepoKeeps, DeleteRepoKeeps, AddonsSurviveDeath
<1>. QED BY <1>1, <1>2, <1>3, <1>4, <1>5 DEF Addons!AddonsNext

(* The extra add-ons, when they are in focus.                                *)
AddonsHold == focus = "addons" => AddonsInv

(* The invariant of the add-ons, in every behaviour.                         *)
LEMMA AddonsKept == FocusSpec => []AddonsHold
<1>1. FocusInit => AddonsHold BY AddonsInitially DEF FocusInit, Begun, AddonsHold
<1>2. AddonsHold /\ [FocusNext]_focusVars => AddonsHold'
  <2>1. ASSUME AddonsHold, FocusNext PROVE AddonsHold'
    BY <2>1, AddonsStep DEF AddonsHold, FocusNext
  <2>2. ASSUME AddonsHold, UNCHANGED focusVars PROVE AddonsHold'
    BY <2>2, AddonsStand DEF AddonsHold, focusVars
  <2>. QED BY <2>1, <2>2
<1>. QED BY <1>1, <1>2, PTL DEF FocusSpec, focusVars

(* The clone, the cache and what is under way keep their types.              *)
THEOREM AddonTypes == FocusSpec => [](focus = "addons" => Addons!AddonsTypeOK)
<1>1. AddonsHold => (focus = "addons" => Addons!AddonsTypeOK)
  BY DEF AddonsHold, AddonsInv, AddonsTyped
<1>. QED BY <1>1, AddonsKept, PTL

(* No removal of a branch takes a checkout that a container mounts, when no  *)
(* container is away while it looks for users (_detach_unused_checkouts).    *)
THEOREM MountsStand == ASSUME ~Overlap PROVE FocusSpec => []MountedIsThere
<1>1. AddonsHold => MountedIsThere
  <2> SUFFICES ASSUME AddonsInv, NEW e \in Consumers, box[e] # None
               PROVE  cache[box[e]] = "whole" \/ (cache[box[e]] = "half" /\ box[e] \in cut)
    BY DEF AddonsHold, MountedIsThere, Addons!MountedIsThere
  <2>1. box[e] \in Addons!Commits /\ cache[box[e]] \in {"none", "half", "whole"}
    BY DEF AddonsInv, AddonsTyped, Addons!AddonsTypeOK
  <2>2. Has(e, box[e]) BY DEF Has
  <2>3. cache[box[e]] # "none" BY <2>1, <2>2 DEF AddonsInv, Kept
  <2>4. \A x \in Consumers : ~(step[x] = "adding" /\ goal[x] = box[e])
    BY <2>1, <2>2 DEF AddonsInv, Kept
  <2>5. cache[box[e]] = "half" => box[e] \in cut BY <2>1, <2>4 DEF AddonsInv, Kept
  <2>. QED BY <2>1, <2>3, <2>5
<1>. QED BY <1>1, AddonsKept, PTL

(* No update of a repository brings back a branch that was removed           *)
(* (untrack_branch, fetch_extra_repo).                                       *)
THEOREM RemovalsLast == FocusSpec => []RemovedStaysRemoved
<1>1. AddonsHold => RemovedStaysRemoved
  BY DEF AddonsHold, AddonsInv, Tracked, RemovedStaysRemoved, Addons!RemovedStaysRemoved
<1>. QED BY <1>1, AddonsKept, PTL

-----------------------------------------------------------------------------
(* Template generations.                                                     *)

(* Where the worker is with an environment whose journal is written.         *)
Refreshing == {"sanitize", "stop", "swap_db", "swap_files", "mark", "mount", "start", "clean",
               "back_stop", "back_db", "back_files", "back_pin", "back_mount", "back_start"}
Choosing == {"next", "journal", "done"} \cup Refreshing

(* The filestores that are in use are there.                                 *)
OnDisk ==
    /\ live.files # 0 /\ remote # 0 /\ asked <= remote
    /\ stage \in Template!Gated \cup {"gate"} => inbox # 0
    /\ \A e \in Boxes :
         /\ pin[e] # 0 => copies[pin[e]] # 0
         /\ note[e] # Nothing => pin[e] # 0 /\ note[e].oldPin # 0 /\ copies[note[e].oldPin] # 0
    /\ stage \in Choosing => gen # 0 /\ copies[gen] # 0

(* What the worker works with, under the team's lock.                        *)
InHand ==
    /\ stage \in Template!Gated \ {"pin"} => \A e \in Boxes : Template!Exists(e) => pin[e] # 0
    /\ \A e \in moving : Template!Exists(e)
    /\ stage \notin Choosing => moving = {}
    /\ stage \in Choosing \ {"next"} => moving # {}
    /\ stage = "journal" => note[Template!One] = Nothing

Absent(e) ==
    deltas[e] = Nothing /\ lower[e] = 0 /\ pin[e] = 0 /\ ~on[e] /\ note[e] = Nothing
    /\ newDb[e] = Nothing /\ newUp[e] = Nothing

(* Database and filestores belong together, mounted or not.                  *)
AsOne(e) == deltas[e] = db[e] /\ Template!Lower(e, pin[e]) = db[e].needs
Mounts(e) == lower[e] \in {0, db[e].needs} /\ (on[e] => lower[e] # 0 \/ stale)

Returnable(e) ==
    /\ note[e].before \in {db[e], newDb[e]} /\ note[e].before \in {deltas[e], newUp[e]}
    /\ copies[note[e].oldPin] = note[e].before.needs

(* Nobody works on it, or the worker died doing so.                          *)
Left(e) ==
    /\ AsOne(e) \/ Returnable(e)
    /\ on[e] => deltas[e] = db[e] /\ lower[e] \in {0, db[e].needs}

Before(e) == db[e] = note[e].before
FilesBefore(e) == deltas[e] = note[e].before
New(data) == data # Nothing /\ data.needs = copies[gen]

(* The environment in the middle of its refresh.                             *)
Midway(e) ==
    /\ stage # "clean" => Returnable(e)
    /\ stage \in {"sanitize", "stop", "swap_db"} => Before(e) /\ FilesBefore(e) /\ pin[e] = note[e].oldPin
    /\ stage \in {"sanitize", "stop", "clean"} => AsOne(e) /\ Mounts(e)
    /\ stage \notin {"sanitize", "stop", "clean"} => ~on[e]
    /\ stage \in {"stop", "swap_db"} => New(newDb[e]) /\ New(newUp[e])
    /\ stage = "swap_files" => New(db[e]) /\ newUp[e] = db[e] /\ newDb[e] = note[e].before /\ FilesBefore(e)
    /\ stage \in {"mark", "mount", "start"} =>
         New(db[e]) /\ deltas[e] = db[e] /\ newDb[e] = note[e].before /\ newUp[e] = note[e].before
    /\ stage \in {"mount", "start"} => pin[e] = gen
    /\ stage \in {"back_files", "back_pin", "back_mount", "back_start"} => Before(e)
    /\ stage \in {"back_pin", "back_mount", "back_start"} => FilesBefore(e)
    /\ stage \in {"back_mount", "back_start"} => pin[e] = note[e].oldPin
    /\ stage \in {"start", "back_start"} => lower[e] = db[e].needs
    /\ stage \in {"stop", "swap_db"} => newUp[e] = newDb[e]

Refreshed(e) == stage \in Refreshing /\ e = Template!One
EachOf(e) ==
    /\ ~Template!Exists(e) => Absent(e)
    /\ Template!Exists(e) /\ note[e] = Nothing =>
         AsOne(e) /\ Mounts(e) /\ newDb[e] = Nothing /\ newUp[e] = Nothing /\ ~Refreshed(e)
    /\ Template!Exists(e) /\ note[e] # Nothing => IF Refreshed(e) THEN Midway(e) ELSE Left(e)
Each == \A e \in Boxes : EachOf(e)

GenInv == Template!GenTypeOK /\ OnDisk /\ InHand /\ Each /\ Template!RequestKept

(* There is a backup, and nothing is no data.                                *)
LEMMA GenNames ==
    /\ MaxBackups \in Nat \ {0} /\ MaxCopies \in Nat /\ MaxMishaps \in Nat /\ MaxReboots \in Nat
    /\ Nothing \notin Template!Records /\ Nothing \notin Template!Journals
BY FocusConstants DEF Template!GenConstants

(* What the sets of backups, copies, data and journals contain.              *)
LEMMA GenSets ==
    /\ 0 \in Template!Backups /\ Template!Backups \subseteq Nat /\ 1 \in Template!Backups
    /\ 0 \notin Template!CopyIds /\ Template!CopyIds \cup {0} = 0..MaxCopies
    /\ \A d \in Template!Data : d # Nothing => d.needs \in Template!Backups /\ d \in Template!Records
    /\ Nothing \in Template!Data /\ Nothing \in Template!Notes
    /\ \A b, c \in Template!Backups : [v |-> b, needs |-> c] \in Template!Data \ {Nothing}
    /\ \A n \in Template!Notes : n # Nothing =>
          /\ n.before \in Template!Data \ {Nothing} /\ n.oldPin \in 0..MaxCopies
          /\ n.oldSnap \in Template!Backups /\ n.ran \in BOOLEAN
BY GenNames DEF Template!Backups, Template!CopyIds, Template!Data, Template!Notes,
   Template!Records, Template!Journals

(* The environment that is refreshed is one of those that move,              *)
LEMMA OneMoves == ASSUME moving # {} PROVE Template!One \in moving
BY DEF Template!One

(* the same one until that set changes.                                      *)
LEMMA OneStays == ASSUME moving' = moving PROVE Template!One' = Template!One
BY DEF Template!One

(* The environment that is being refreshed.                                  *)
LEMMA OneInHand ==
    ASSUME GenInv, moving # {}
    PROVE  Template!One \in Boxes /\ Template!Exists(Template!One) /\ EachOf(Template!One)
BY OneMoves DEF GenInv, InHand, Each, Template!GenTypeOK

(* During a refresh its journal is written.                                  *)
LEMMA OneInRefresh ==
    ASSUME GenInv, stage \in Refreshing
    PROVE  /\ Template!One \in moving /\ Template!One \in Boxes /\ Template!Exists(Template!One)
           /\ note[Template!One] # Nothing /\ Midway(Template!One)
<1>1. moving # {} BY DEF GenInv, InHand, Choosing, Refreshing
<1>. QED BY <1>1, OneMoves, OneInHand DEF EachOf, Refreshed

(* A new copy is written where nobody's pin points.                          *)
LEMMA UnusedIsFree ==
    ASSUME GenInv, \E c \in Template!CopyIds : copies[c] = 0
    PROVE  /\ Template!Unused \in Template!CopyIds /\ copies[Template!Unused] = 0
           /\ \A e \in Boxes : pin[e] # Template!Unused
<1>1. PICK c \in Template!CopyIds : copies[c] = 0
  OBVIOUS
<1>2. 0 \notin Template!CopyIds BY DEF Template!CopyIds
<1>3. \A e \in Boxes : pin[e] # c
  BY <1>1, <1>2 DEF GenInv, OnDisk
<1>4. \E k \in Template!CopyIds : copies[k] = 0 /\ \A e \in Boxes : pin[e] # k
  BY <1>1, <1>3
<1>. QED BY <1>4 DEF Template!Unused

(* The remote side publishes a backup;                                       *)
LEMMA PublishKeeps == ASSUME GenInv, Template!Publish PROVE GenInv'
<1>1. Template!GenTypeOK'
  <2>1. remote' \in Template!Backups
    BY GenNames DEF GenInv, Template!GenTypeOK, Template!Publish, Template!Backups
  <2>. QED
    BY <2>1 DEF GenInv, Template!GenTypeOK, Template!Publish, Template!template, Template!box,
       Template!refresh, Template!worker, Template!Fine
<1>2. OnDisk'
  BY GenNames, GenSets, OneStays DEF GenInv, OnDisk, InHand, Template!GenTypeOK, Template!Gated,
     Template!Stages, Choosing, Refreshing, Template!Publish, Template!template, Template!box,
     Template!refresh, Template!worker, Template!Fine
<1>3. InHand'
  BY GenNames, GenSets, OneStays DEF GenInv, InHand, OnDisk, Template!GenTypeOK, Template!Gated,
     Template!Stages, Choosing, Refreshing, Template!Exists, Template!Publish, Template!template,
     Template!box, Template!refresh, Template!worker, Template!Fine
<1>4. Each'
  <2> SUFFICES ASSUME NEW x \in Boxes PROVE EachOf(x)'
    BY DEF Each
  <2>1. EachOf(x) BY DEF GenInv, Each
  <2>. QED
    BY <2>1, GenNames, GenSets, OneStays DEF EachOf, Absent, AsOne, Mounts, Left, Returnable,
       Refreshed, Refreshing, Choosing, Template!Exists, Template!Lower, GenInv, InHand, OnDisk,
       Template!GenTypeOK, Template!Publish, Template!template, Template!box, Template!refresh,
       Template!worker, Template!Fine, Midway, Before, FilesBefore, New
<1>5. Template!RequestKept'
  BY GenNames, GenSets, OneStays DEF GenInv, OnDisk, Template!RequestKept, Template!GenTypeOK,
     Template!Publish, Template!template, Template!box, Template!refresh, Template!worker,
     Template!Fine
<1>. QED BY <1>1, <1>2, <1>3, <1>4, <1>5 DEF GenInv

(* a run is requested;                                                       *)
LEMMA RequestRunKeeps == ASSUME GenInv, Template!RequestRun PROVE GenInv'
<1>1. Template!GenTypeOK'
  BY GenNames, GenSets, OneStays DEF GenInv, OnDisk, InHand, Template!GenTypeOK, Template!Stages,
     Choosing, Refreshing, Template!RequestRun, Template!template, Template!box, Template!refresh,
     Template!worker, Template!Fine
<1>2. OnDisk'
  BY GenNames, GenSets, OneStays DEF GenInv, OnDisk, InHand, Template!GenTypeOK, Template!Gated,
     Template!Stages, Choosing, Refreshing, Template!RequestRun, Template!template, Template!box,
     Template!refresh, Template!worker, Template!Fine
<1>3. InHand'
  BY GenNames, GenSets, OneStays DEF GenInv, InHand, OnDisk, Template!GenTypeOK, Template!Gated,
     Template!Stages, Choosing, Refreshing, Template!Exists, Template!RequestRun,
     Template!template, Template!box, Template!refresh, Template!worker, Template!Fine
<1>4. Each'
  <2> SUFFICES ASSUME NEW x \in Boxes PROVE EachOf(x)'
    BY DEF Each
  <2>1. EachOf(x) BY DEF GenInv, Each
  <2>. QED
    BY <2>1, GenNames, GenSets, OneStays DEF EachOf, Absent, AsOne, Mounts, Left, Returnable,
       Refreshed, Refreshing, Choosing, Template!Exists, Template!Lower, GenInv, InHand, OnDisk,
       Template!GenTypeOK, Template!RequestRun, Template!template, Template!box, Template!refresh,
       Template!worker, Template!Fine, Midway, Before, FilesBefore, New
<1>5. Template!RequestKept'
  BY GenNames, GenSets, OneStays DEF GenInv, OnDisk, Template!RequestKept, Template!GenTypeOK,
     Template!RequestRun, Template!template, Template!box, Template!refresh, Template!worker,
     Template!Fine
<1>. QED BY <1>1, <1>2, <1>3, <1>4, <1>5 DEF GenInv

(* it starts, which consumes the request;                                    *)
LEMMA StartRunKeeps == ASSUME GenInv, Template!StartRun PROVE GenInv'
<1>1. Template!GenTypeOK'
  BY GenNames, GenSets, OneStays DEF GenInv, OnDisk, InHand, Template!GenTypeOK, Template!Stages,
     Choosing, Refreshing, Template!StartRun, Template!Consumed, Template!To, Template!template,
     Template!box, Template!refresh, Template!Fine
<1>2. OnDisk'
  BY GenNames, GenSets, OneStays DEF GenInv, OnDisk, InHand, Template!GenTypeOK, Template!Gated,
     Template!Stages, Choosing, Refreshing, Template!StartRun, Template!Consumed, Template!To,
     Template!template, Template!box, Template!refresh, Template!Fine
<1>3. InHand'
  BY GenNames, GenSets, OneStays DEF GenInv, InHand, OnDisk, Template!GenTypeOK, Template!Gated,
     Template!Stages, Choosing, Refreshing, Template!Exists, Template!StartRun, Template!Consumed,
     Template!To, Template!template, Template!box, Template!refresh, Template!Fine
<1>4. Each'
  <2> SUFFICES ASSUME NEW x \in Boxes PROVE EachOf(x)'
    BY DEF Each
  <2>1. EachOf(x) BY DEF GenInv, Each
  <2>. QED
    BY <2>1, GenNames, GenSets, OneStays DEF EachOf, Absent, AsOne, Mounts, Left, Returnable,
       Refreshed, Refreshing, Choosing, Template!Exists, Template!Lower, GenInv, InHand, OnDisk,
       Template!GenTypeOK, Template!StartRun, Template!Consumed, Template!To, Template!template,
       Template!box, Template!refresh, Template!Fine, Midway, Before, FilesBefore, New
<1>5. Template!RequestKept'
  BY GenNames, GenSets, OneStays DEF GenInv, OnDisk, Template!RequestKept, Template!GenTypeOK,
     Template!StartRun, Template!Consumed, Template!To, Template!template, Template!box,
     Template!refresh, Template!Fine
<1>. QED BY <1>1, <1>2, <1>3, <1>4, <1>5 DEF GenInv

(* the backup arrives;                                                       *)
LEMMA TransferKeeps == ASSUME GenInv, Template!Transfer PROVE GenInv'
<1>1. Template!GenTypeOK'
  BY GenNames, GenSets, OneStays DEF GenInv, OnDisk, InHand, Template!GenTypeOK, Template!Stages,
     Choosing, Refreshing, Template!Transfer, Template!template, Template!box, Template!refresh,
     Template!Fine
<1>2. OnDisk'
  BY GenNames, GenSets, OneStays DEF GenInv, OnDisk, InHand, Template!GenTypeOK, Template!Gated,
     Template!Stages, Choosing, Refreshing, Template!Transfer, Template!template, Template!box,
     Template!refresh, Template!Fine
<1>3. InHand'
  BY GenNames, GenSets, OneStays DEF GenInv, InHand, OnDisk, Template!GenTypeOK, Template!Gated,
     Template!Stages, Choosing, Refreshing, Template!Exists, Template!Transfer, Template!template,
     Template!box, Template!refresh, Template!Fine
<1>4. Each'
  <2> SUFFICES ASSUME NEW x \in Boxes PROVE EachOf(x)'
    BY DEF Each
  <2>1. EachOf(x) BY DEF GenInv, Each
  <2>. QED
    BY <2>1, GenNames, GenSets, OneStays DEF EachOf, Absent, AsOne, Mounts, Left, Returnable,
       Refreshed, Refreshing, Choosing, Template!Exists, Template!Lower, GenInv, InHand, OnDisk,
       Template!GenTypeOK, Template!Transfer, Template!template, Template!box, Template!refresh,
       Template!Fine, Midway, Before, FilesBefore, New
<1>5. Template!RequestKept'
  BY GenNames, GenSets, OneStays DEF GenInv, OnDisk, Template!RequestKept, Template!GenTypeOK,
     Template!Transfer, Template!template, Template!box, Template!refresh, Template!Fine
<1>. QED BY <1>1, <1>2, <1>3, <1>4, <1>5 DEF GenInv

(* the run fails,                                                            *)
LEMMA RunFailsKeeps == ASSUME GenInv, Template!RunFails PROVE GenInv'
<1>1. Template!GenTypeOK'
  BY GenNames, GenSets, OneStays DEF GenInv, OnDisk, InHand, Template!GenTypeOK, Template!Stages,
     Choosing, Refreshing, Template!RunFails, Template!Stop, Template!Answered, Template!Mishap,
     Template!template, Template!box, Template!refresh
<1>2. OnDisk'
  BY GenNames, GenSets, OneStays DEF GenInv, OnDisk, InHand, Template!GenTypeOK, Template!Gated,
     Template!Stages, Choosing, Refreshing, Template!RunFails, Template!Stop, Template!Answered,
     Template!Mishap, Template!template, Template!box, Template!refresh
<1>3. InHand'
  BY GenNames, GenSets, OneStays DEF GenInv, InHand, OnDisk, Template!GenTypeOK, Template!Gated,
     Template!Stages, Choosing, Refreshing, Template!Exists, Template!RunFails, Template!Stop,
     Template!Answered, Template!Mishap, Template!template, Template!box, Template!refresh
<1>4. Each'
  <2> SUFFICES ASSUME NEW x \in Boxes PROVE EachOf(x)'
    BY DEF Each
  <2>1. EachOf(x) BY DEF GenInv, Each
  <2>. QED
    BY <2>1, GenNames, GenSets, OneStays DEF EachOf, Absent, AsOne, Mounts, Left, Returnable,
       Refreshed, Refreshing, Choosing, Template!Exists, Template!Lower, GenInv, InHand, OnDisk,
       Template!GenTypeOK, Template!RunFails, Template!Stop, Template!Answered, Template!Mishap,
       Template!template, Template!box, Template!refresh, Midway, Before, FilesBefore, New
<1>5. Template!RequestKept'
  BY GenNames, GenSets, OneStays DEF GenInv, OnDisk, Template!RequestKept, Template!GenTypeOK,
     Template!RunFails, Template!Stop, Template!Answered, Template!Mishap, Template!template,
     Template!box, Template!refresh
<1>. QED BY <1>1, <1>2, <1>3, <1>4, <1>5 DEF GenInv

(* or dies,                                                                  *)
LEMMA GenWorkerDiesKeeps == ASSUME GenInv, Template!WorkerDies PROVE GenInv'
<1>1. Template!GenTypeOK'
  BY GenNames, GenSets, OneStays DEF GenInv, OnDisk, InHand, Template!GenTypeOK, Template!Stages,
     Choosing, Refreshing, Template!WorkerDies, Template!Stop, Template!Answered, Template!Mishap,
     Template!template, Template!box, Template!refresh
<1>2. OnDisk'
  BY GenNames, GenSets, OneStays DEF GenInv, OnDisk, InHand, Template!GenTypeOK, Template!Gated,
     Template!Stages, Choosing, Refreshing, Template!WorkerDies, Template!Stop, Template!Answered,
     Template!Mishap, Template!template, Template!box, Template!refresh
<1>3. InHand'
  BY GenNames, GenSets, OneStays DEF GenInv, InHand, OnDisk, Template!GenTypeOK, Template!Gated,
     Template!Stages, Choosing, Refreshing, Template!Exists, Template!WorkerDies, Template!Stop,
     Template!Answered, Template!Mishap, Template!template, Template!box, Template!refresh
<1>4. Each'
  <2> SUFFICES ASSUME NEW x \in Boxes PROVE EachOf(x)'
    BY DEF Each
  <2>1. EachOf(x) BY DEF GenInv, Each
  <2>. QED
    BY <2>1, GenNames, GenSets, OneStays DEF EachOf, Absent, AsOne, Mounts, Left, Returnable,
       Refreshed, Refreshing, Choosing, Template!Exists, Template!Lower, GenInv, InHand, OnDisk,
       Template!GenTypeOK, Template!WorkerDies, Template!Stop, Template!Answered, Template!Mishap,
       Template!template, Template!box, Template!refresh, Midway, Before, FilesBefore, New
<1>5. Template!RequestKept'
  BY GenNames, GenSets, OneStays DEF GenInv, OnDisk, Template!RequestKept, Template!GenTypeOK,
     Template!WorkerDies, Template!Stop, Template!Answered, Template!Mishap, Template!template,
     Template!box, Template!refresh
<1>. QED BY <1>1, <1>2, <1>3, <1>4, <1>5 DEF GenInv

(* or finds the team busy.                                                   *)
LEMMA DeferKeeps == ASSUME GenInv, Template!Defer PROVE GenInv'
<1>1. Template!GenTypeOK'
  BY GenNames, GenSets, OneStays DEF GenInv, OnDisk, InHand, Template!GenTypeOK, Template!Stages,
     Choosing, Refreshing, Template!Defer, Template!Deferred, Template!Stop, Template!Fine,
     Template!template, Template!box, Template!refresh
<1>2. OnDisk'
  BY GenNames, GenSets, OneStays DEF GenInv, OnDisk, InHand, Template!GenTypeOK, Template!Gated,
     Template!Stages, Choosing, Refreshing, Template!Defer, Template!Deferred, Template!Stop,
     Template!Fine, Template!template, Template!box, Template!refresh
<1>3. InHand'
  BY GenNames, GenSets, OneStays DEF GenInv, InHand, OnDisk, Template!GenTypeOK, Template!Gated,
     Template!Stages, Choosing, Refreshing, Template!Exists, Template!Defer, Template!Deferred,
     Template!Stop, Template!Fine, Template!template, Template!box, Template!refresh
<1>4. Each'
  <2> SUFFICES ASSUME NEW x \in Boxes PROVE EachOf(x)'
    BY DEF Each
  <2>1. EachOf(x) BY DEF GenInv, Each
  <2>. QED
    BY <2>1, GenNames, GenSets, OneStays DEF EachOf, Absent, AsOne, Mounts, Left, Returnable,
       Refreshed, Refreshing, Choosing, Template!Exists, Template!Lower, GenInv, InHand, OnDisk,
       Template!GenTypeOK, Template!Defer, Template!Deferred, Template!Stop, Template!Fine,
       Template!template, Template!box, Template!refresh, Midway, Before, FilesBefore, New
<1>5. Template!RequestKept'
  BY GenNames, GenSets, OneStays DEF GenInv, OnDisk, Template!RequestKept, Template!GenTypeOK,
     Template!Defer, Template!Deferred, Template!Stop, Template!Fine, Template!template,
     Template!box, Template!refresh
<1>. QED BY <1>1, <1>2, <1>3, <1>4, <1>5 DEF GenInv

(* It has the team's lock;                                                   *)
LEMMA EnterGateKeeps == ASSUME GenInv, Template!EnterGate PROVE GenInv'
<1>1. Template!GenTypeOK'
  BY GenNames, GenSets, OneStays DEF GenInv, OnDisk, InHand, Template!GenTypeOK, Template!Stages,
     Choosing, Refreshing, Template!EnterGate, Template!To, Template!template, Template!box,
     Template!refresh, Template!Fine
<1>2. OnDisk'
  BY GenNames, GenSets, OneStays DEF GenInv, OnDisk, InHand, Template!GenTypeOK, Template!Gated,
     Template!Stages, Choosing, Refreshing, Template!EnterGate, Template!To, Template!template,
     Template!box, Template!refresh, Template!Fine
<1>3. InHand'
  BY GenNames, GenSets, OneStays DEF GenInv, InHand, OnDisk, Template!GenTypeOK, Template!Gated,
     Template!Stages, Choosing, Refreshing, Template!Exists, Template!EnterGate, Template!To,
     Template!template, Template!box, Template!refresh, Template!Fine
<1>4. Each'
  <2> SUFFICES ASSUME NEW x \in Boxes PROVE EachOf(x)'
    BY DEF Each
  <2>1. EachOf(x) BY DEF GenInv, Each
  <2>. QED
    BY <2>1, GenNames, GenSets, OneStays DEF EachOf, Absent, AsOne, Mounts, Left, Returnable,
       Refreshed, Refreshing, Choosing, Template!Exists, Template!Lower, GenInv, InHand, OnDisk,
       Template!GenTypeOK, Template!EnterGate, Template!To, Template!template, Template!box,
       Template!refresh, Template!Fine, Midway, Before, FilesBefore, New
<1>5. Template!RequestKept'
  BY GenNames, GenSets, OneStays DEF GenInv, OnDisk, Template!RequestKept, Template!GenTypeOK,
     Template!EnterGate, Template!To, Template!template, Template!box, Template!refresh,
     Template!Fine
<1>. QED BY <1>1, <1>2, <1>3, <1>4, <1>5 DEF GenInv

(* every environment is pinned to a copy of what it is mounted on,           *)
LEMMA PinExistingKeeps == ASSUME GenInv, Template!PinExisting PROVE GenInv'
<1>0. \/ UNCHANGED <<copies, pin, lower>>
      \/ /\ \E c \in Template!CopyIds : copies[c] = 0
         /\ copies' = [copies EXCEPT ![Template!Unused] = live.files]
         /\ pin' = [e \in Boxes |-> IF e \in Template!ToPin THEN Template!Unused ELSE pin[e]]
         /\ lower' = [e \in Boxes |->
                        IF e \in Template!ToPin /\ lower[e] # 0 THEN live.files ELSE lower[e]]
  BY DEF Template!PinExisting
<1>1. Template!GenTypeOK'
  <2>1. live.files \in Template!Backups BY DEF GenInv, Template!GenTypeOK
  <2>2. /\ copies' \in [Template!CopyIds -> Template!Backups] /\ pin' \in [Boxes -> 0..MaxCopies]
        /\ lower' \in [Boxes -> Template!Backups]
    <3>1. CASE UNCHANGED <<copies, pin, lower>> BY <3>1 DEF GenInv, Template!GenTypeOK
    <3>2. CASE ~UNCHANGED <<copies, pin, lower>>
      <4>1. Template!Unused \in Template!CopyIds /\ Template!Unused \in 0..MaxCopies
        BY <1>0, <3>2, UnusedIsFree, GenSets
      <4>. QED BY <1>0, <2>1, <3>2, <4>1 DEF GenInv, Template!GenTypeOK
    <3>. QED BY <3>1, <3>2
  <2>3. UNCHANGED <<remote, queued, asked, live, db, deltas, snap, on, opted, note, newDb, newUp,
                    inbox, gen, moving, stale, mishaps, reboots>> /\ stage' = "import_db"
    BY DEF Template!PinExisting, Template!To, Template!refresh, Template!Fine
  <2>. QED BY <2>2, <2>3 DEF GenInv, Template!GenTypeOK, Template!Stages
<1>2. OnDisk'
  BY GenNames, GenSets, OneStays, UnusedIsFree DEF GenInv, OnDisk, InHand, Template!GenTypeOK,
     Template!Gated, Template!Stages, Choosing, Refreshing, Template!PinExisting, Template!ToPin,
     Template!To, Template!refresh, Template!Fine, Template!Candidates, Template!Exists
<1>3. InHand'
  BY GenNames, GenSets, OneStays, UnusedIsFree DEF GenInv, InHand, OnDisk, Template!GenTypeOK,
     Template!Gated, Template!Stages, Choosing, Refreshing, Template!Exists, Template!PinExisting,
     Template!ToPin, Template!To, Template!refresh, Template!Fine, Template!Candidates
<1>4. Each'
  <2> SUFFICES ASSUME NEW x \in Boxes PROVE EachOf(x)'
    BY DEF Each
  <2>1. EachOf(x) /\ stage = "pin" BY DEF GenInv, Each, Template!PinExisting
  <2>2. /\ UNCHANGED <<live, db, deltas, on, note, newDb, newUp, gen, moving, stale>>
        /\ stage' = "import_db"
    BY DEF Template!PinExisting, Template!To, Template!refresh
  <2>3. /\ ~Template!Exists(x) => UNCHANGED <<lower[x], pin[x]>>
        /\ Template!Exists(x) => (Template!Lower(x, pin[x]))' = Template!Lower(x, pin[x])
        /\ lower'[x] = lower[x] \/ (lower[x] # 0 /\ lower'[x] = live.files /\ pin[x] = 0)
        /\ note[x] # Nothing => copies'[note[x].oldPin] = copies[note[x].oldPin]
    <3>1. CASE UNCHANGED <<copies, pin, lower>> BY <2>2, <3>1 DEF Template!Lower
    <3>2. CASE ~UNCHANGED <<copies, pin, lower>>
      <4>1. /\ Template!Unused \in Template!CopyIds /\ copies[Template!Unused] = 0
            /\ pin[x] # Template!Unused
        BY <1>0, <3>2, UnusedIsFree
      <4>2. \A c \in Template!CopyIds : c # Template!Unused => copies'[c] = copies[c]
        BY <1>0, <3>2 DEF GenInv, Template!GenTypeOK
      <4>3. copies'[Template!Unused] = live.files
        BY <1>0, <3>2, <4>1 DEF GenInv, Template!GenTypeOK
      <4>4. /\ x \in Template!ToPin <=> Template!Exists(x) /\ pin[x] = 0
            /\ pin'[x] = IF x \in Template!ToPin THEN Template!Unused ELSE pin[x]
            /\ lower'[x] = IF x \in Template!ToPin /\ lower[x] # 0 THEN live.files ELSE lower[x]
        BY <1>0, <3>2 DEF Template!ToPin, Template!Candidates
      <4>5. pin[x] \in 0..MaxCopies /\ (note[x] # Nothing => note[x].oldPin \in 0..MaxCopies)
        BY GenSets DEF GenInv, Template!GenTypeOK
      <4>6. /\ note[x] # Nothing => note[x].oldPin # 0 /\ copies[note[x].oldPin] # 0
            /\ pin[x] # 0 => pin[x] \in Template!CopyIds
            /\ note[x] # Nothing => note[x].oldPin \in Template!CopyIds
        BY <4>5, GenSets DEF GenInv, OnDisk
      <4>7. Template!Unused # 0 BY <4>1, GenSets
      <4>. QED BY <2>2, <4>1, <4>2, <4>3, <4>4, <4>6, <4>7 DEF Template!Lower
    <3>. QED BY <3>1, <3>2
  <2>4. note[x] # Nothing => lower'[x] = lower[x] BY <2>3 DEF GenInv, OnDisk
  <2>5. ~Refreshed(x) /\ ~Refreshed(x)' BY <2>1, <2>2 DEF Refreshed, Refreshing
  <2>. QED
    BY <2>1, <2>2, <2>3, <2>4, <2>5 DEF EachOf, Absent, AsOne, Mounts, Left, Returnable,
       Template!Exists, Template!Lower
<1>5. Template!RequestKept'
  BY GenNames, GenSets, OneStays, UnusedIsFree DEF GenInv, OnDisk, Template!RequestKept,
     Template!GenTypeOK, Template!PinExisting, Template!ToPin, Template!To, Template!refresh,
     Template!Fine, Template!Candidates, Template!Exists
<1>. QED BY <1>1, <1>2, <1>3, <1>4, <1>5 DEF GenInv

(* or the remount fails half way.                                            *)
LEMMA PinHalfKeeps == ASSUME GenInv, Template!PinHalf PROVE GenInv'
<1>1. Template!GenTypeOK'
  BY GenNames, GenSets, OneStays, UnusedIsFree DEF GenInv, OnDisk, InHand, Template!GenTypeOK,
     Template!Stages, Choosing, Refreshing, Template!PinHalf, Template!ToPin, Template!Stop,
     Template!Answered, Template!Mishap, Template!refresh, Template!Candidates, Template!Exists
<1>2. OnDisk'
  BY GenNames, GenSets, OneStays, UnusedIsFree DEF GenInv, OnDisk, InHand, Template!GenTypeOK,
     Template!Gated, Template!Stages, Choosing, Refreshing, Template!PinHalf, Template!ToPin,
     Template!Stop, Template!Answered, Template!Mishap, Template!refresh, Template!Candidates,
     Template!Exists
<1>3. InHand'
  BY GenNames, GenSets, OneStays, UnusedIsFree DEF GenInv, InHand, OnDisk, Template!GenTypeOK,
     Template!Gated, Template!Stages, Choosing, Refreshing, Template!Exists, Template!PinHalf,
     Template!ToPin, Template!Stop, Template!Answered, Template!Mishap, Template!refresh,
     Template!Candidates
<1>4. Each'
  <2> SUFFICES ASSUME NEW x \in Boxes PROVE EachOf(x)'
    BY DEF Each
  <2>1. EachOf(x) BY DEF GenInv, Each
  <2>. QED
    BY <2>1, GenNames, GenSets, OneStays, UnusedIsFree DEF EachOf, Absent, AsOne, Mounts, Left,
       Returnable, Refreshed, Refreshing, Choosing, Template!Exists, Template!Lower, GenInv,
       InHand, OnDisk, Template!GenTypeOK, Template!PinHalf, Template!ToPin, Template!Stop,
       Template!Answered, Template!Mishap, Template!refresh, Template!Candidates, Midway, Before,
       FilesBefore, New
<1>5. Template!RequestKept'
  BY GenNames, GenSets, OneStays, UnusedIsFree DEF GenInv, OnDisk, Template!RequestKept,
     Template!GenTypeOK, Template!PinHalf, Template!ToPin, Template!Stop, Template!Answered,
     Template!Mishap, Template!refresh, Template!Candidates, Template!Exists
<1>. QED BY <1>1, <1>2, <1>3, <1>4, <1>5 DEF GenInv

(* The template's database is replaced,                                      *)
LEMMA ImportDatabaseKeeps == ASSUME GenInv, Template!ImportDatabase PROVE GenInv'
<1>1. Template!GenTypeOK'
  BY GenNames, GenSets, OneStays DEF GenInv, OnDisk, InHand, Template!GenTypeOK, Template!Stages,
     Choosing, Refreshing, Template!ImportDatabase, Template!To, Template!box, Template!refresh,
     Template!Fine
<1>2. OnDisk'
  BY GenNames, GenSets, OneStays DEF GenInv, OnDisk, InHand, Template!GenTypeOK, Template!Gated,
     Template!Stages, Choosing, Refreshing, Template!ImportDatabase, Template!To, Template!box,
     Template!refresh, Template!Fine
<1>3. InHand'
  BY GenNames, GenSets, OneStays DEF GenInv, InHand, OnDisk, Template!GenTypeOK, Template!Gated,
     Template!Stages, Choosing, Refreshing, Template!Exists, Template!ImportDatabase, Template!To,
     Template!box, Template!refresh, Template!Fine
<1>4. Each'
  <2> SUFFICES ASSUME NEW x \in Boxes PROVE EachOf(x)'
    BY DEF Each
  <2>1. EachOf(x) BY DEF GenInv, Each
  <2>. QED
    BY <2>1, GenNames, GenSets, OneStays DEF EachOf, Absent, AsOne, Mounts, Left, Returnable,
       Refreshed, Refreshing, Choosing, Template!Exists, Template!Lower, GenInv, InHand, OnDisk,
       Template!GenTypeOK, Template!ImportDatabase, Template!To, Template!box, Template!refresh,
       Template!Fine, Midway, Before, FilesBefore, New
<1>5. Template!RequestKept'
  BY GenNames, GenSets, OneStays DEF GenInv, OnDisk, Template!RequestKept, Template!GenTypeOK,
     Template!ImportDatabase, Template!To, Template!box, Template!refresh, Template!Fine
<1>. QED BY <1>1, <1>2, <1>3, <1>4, <1>5 DEF GenInv

(* and its files;                                                            *)
LEMMA ImportFilesKeeps == ASSUME GenInv, Template!ImportFiles PROVE GenInv'
<1>1. Template!GenTypeOK'
  BY GenNames, GenSets, OneStays DEF GenInv, OnDisk, InHand, Template!GenTypeOK, Template!Stages,
     Choosing, Refreshing, Template!ImportFiles, Template!To, Template!refresh, Template!Fine
<1>2. OnDisk'
  BY GenNames, GenSets, OneStays DEF GenInv, OnDisk, InHand, Template!GenTypeOK, Template!Gated,
     Template!Stages, Choosing, Refreshing, Template!ImportFiles, Template!To, Template!refresh,
     Template!Fine
<1>3. InHand'
  BY GenNames, GenSets, OneStays DEF GenInv, InHand, OnDisk, Template!GenTypeOK, Template!Gated,
     Template!Stages, Choosing, Refreshing, Template!Exists, Template!ImportFiles, Template!To,
     Template!refresh, Template!Fine
<1>4. Each'
  <2> SUFFICES ASSUME NEW x \in Boxes PROVE EachOf(x)'
    BY DEF Each
  <2>1. EachOf(x) BY DEF GenInv, Each
  <2>2. /\ UNCHANGED <<copies, db, deltas, pin, on, note, newDb, newUp, gen, moving, stale>>
        /\ stage = "import_files" /\ stage' = "record"
    BY DEF Template!ImportFiles, Template!To, Template!refresh
  <2>3. Template!Exists(x) => pin[x] # 0
    BY <2>2 DEF GenInv, InHand, Template!Gated, Template!Stages
  <2>4. lower'[x] = lower[x]
    BY <2>1, <2>3 DEF Template!ImportFiles, EachOf, Absent
  <2>. QED
    BY <2>1, <2>2, <2>3, <2>4 DEF EachOf, Absent, AsOne, Mounts, Left, Returnable, Refreshed,
       Refreshing, Template!Exists, Template!Lower
<1>5. Template!RequestKept'
  BY GenNames, GenSets, OneStays DEF GenInv, OnDisk, Template!RequestKept, Template!GenTypeOK,
     Template!ImportFiles, Template!To, Template!refresh, Template!Fine
<1>. QED BY <1>1, <1>2, <1>3, <1>4, <1>5 DEF GenInv

(* a copy of them is the new generation.                                     *)
LEMMA RecordSnapshotKeeps == ASSUME GenInv, Template!RecordSnapshot PROVE GenInv'
<1>1. Template!GenTypeOK'
  BY GenNames, GenSets, OneStays DEF GenInv, OnDisk, InHand, Template!GenTypeOK, Template!Stages,
     Choosing, Refreshing, Template!RecordSnapshot, Template!To, Template!box, Template!refresh,
     Template!Fine
<1>2. OnDisk'
  BY GenNames, GenSets, OneStays DEF GenInv, OnDisk, InHand, Template!GenTypeOK, Template!Gated,
     Template!Stages, Choosing, Refreshing, Template!RecordSnapshot, Template!To, Template!box,
     Template!refresh, Template!Fine
<1>3. InHand'
  BY GenNames, GenSets, OneStays DEF GenInv, InHand, OnDisk, Template!GenTypeOK, Template!Gated,
     Template!Stages, Choosing, Refreshing, Template!Exists, Template!RecordSnapshot, Template!To,
     Template!box, Template!refresh, Template!Fine
<1>4. Each'
  <2> SUFFICES ASSUME NEW x \in Boxes PROVE EachOf(x)'
    BY DEF Each
  <2>1. EachOf(x) BY DEF GenInv, Each
  <2>2. /\ stage' \notin Refreshing /\ stage \notin Refreshing
        /\ copies' = copies /\ live'.files = live.files /\ db' = db /\ deltas' = deltas /\ pin' = pin
        /\ note' = note /\ newDb' = newDb /\ newUp' = newUp /\ lower' = lower /\ on' = on
        /\ stale' = stale
    BY DEF GenInv, Template!GenTypeOK, Refreshing, Template!RecordSnapshot, Template!To,
       Template!box, Template!refresh, Template!Fine
  <2>3. ~ Refreshed(x) /\ ~ Refreshed(x)' BY <2>2 DEF Refreshed
  <2>4. Template!Exists(x)' = Template!Exists(x) BY <2>2 DEF Template!Exists
  <2>5. Absent(x) => Absent(x)' BY <2>2 DEF Absent
  <2>6. Template!Lower(x, pin[x])' = Template!Lower(x, pin[x]) BY <2>2 DEF Template!Lower
  <2>7. AsOne(x) => AsOne(x)' BY <2>2, <2>6 DEF AsOne
  <2>8. Mounts(x) => Mounts(x)' BY <2>2 DEF Mounts
  <2>9. Returnable(x) => Returnable(x)' BY <2>2 DEF Returnable
  <2>10. Left(x) => Left(x)' BY <2>2, <2>7, <2>9 DEF Left
  <2>. QED BY <2>1, <2>2, <2>3, <2>4, <2>5, <2>7, <2>8, <2>10 DEF EachOf
<1>5. Template!RequestKept'
  BY GenNames, GenSets, OneStays DEF GenInv, OnDisk, Template!RequestKept, Template!GenTypeOK,
     Template!RecordSnapshot, Template!To, Template!box, Template!refresh, Template!Fine
<1>. QED BY <1>1, <1>2, <1>3, <1>4, <1>5 DEF GenInv

(* The environments that follow are chosen                                   *)
LEMMA ChooseKeeps == ASSUME GenInv, Template!Choose PROVE GenInv'
<1>1. Template!GenTypeOK'
  BY GenNames, GenSets, OneStays, UnusedIsFree DEF GenInv, OnDisk, InHand, Template!GenTypeOK,
     Template!Stages, Choosing, Refreshing, Template!Choose, Template!Targets, Template!To,
     Template!box, Template!refresh, Template!Fine, Template!Exists
<1>2. OnDisk'
  BY GenNames, GenSets, OneStays, UnusedIsFree DEF GenInv, OnDisk, InHand, Template!GenTypeOK,
     Template!Gated, Template!Stages, Choosing, Refreshing, Template!Choose, Template!Targets,
     Template!To, Template!box, Template!refresh, Template!Fine, Template!Exists
<1>3. InHand'
  BY GenNames, GenSets, OneStays, UnusedIsFree DEF GenInv, InHand, OnDisk, Template!GenTypeOK,
     Template!Gated, Template!Stages, Choosing, Refreshing, Template!Exists, Template!Choose,
     Template!Targets, Template!To, Template!box, Template!refresh, Template!Fine
<1>4. Each'
  <2> SUFFICES ASSUME NEW x \in Boxes PROVE EachOf(x)'
    BY DEF Each
  <2>1. EachOf(x) BY DEF GenInv, Each
  <2>. QED
    BY <2>1, GenNames, GenSets, OneStays, UnusedIsFree DEF EachOf, Absent, AsOne, Mounts, Left,
       Returnable, Refreshed, Refreshing, Choosing, Template!Exists, Template!Lower, GenInv,
       InHand, OnDisk, Template!GenTypeOK, Template!Choose, Template!Targets, Template!To,
       Template!box, Template!refresh, Template!Fine, Midway, Before, FilesBefore, New
<1>5. Template!RequestKept'
  BY GenNames, GenSets, OneStays, UnusedIsFree DEF GenInv, OnDisk, Template!RequestKept,
     Template!GenTypeOK, Template!Choose, Template!Targets, Template!To, Template!box,
     Template!refresh, Template!Fine, Template!Exists
<1>. QED BY <1>1, <1>2, <1>3, <1>4, <1>5 DEF GenInv

(* and taken one by one.                                                     *)
LEMMA NextOneKeeps == ASSUME GenInv, Template!NextOne PROVE GenInv'
<1>1. Template!GenTypeOK'
  BY GenNames, GenSets, OneStays, OneMoves, OneInHand, OneInRefresh DEF GenInv, OnDisk, InHand,
     Template!GenTypeOK, Template!Stages, Choosing, Refreshing, Template!NextOne, Template!To,
     Template!Journaled, Template!template, Template!box, Template!refresh, Template!Fine
<1>2. OnDisk'
  BY GenNames, GenSets, OneStays, OneMoves, OneInHand, OneInRefresh DEF GenInv, OnDisk, InHand,
     Template!GenTypeOK, Template!Gated, Template!Stages, Choosing, Refreshing, Template!NextOne,
     Template!To, Template!Journaled, Template!template, Template!box, Template!refresh,
     Template!Fine
<1>3. InHand'
  BY GenNames, GenSets, OneStays, OneMoves, OneInHand, OneInRefresh DEF GenInv, InHand, OnDisk,
     Midway, New, Returnable, Template!GenTypeOK, Template!Gated, Template!Stages, Choosing,
     Refreshing, Template!Exists, Template!NextOne, Template!To, Template!Journaled,
     Template!template, Template!box, Template!refresh, Template!Fine
<1>4. Each'
  <2> SUFFICES ASSUME NEW x \in Boxes PROVE EachOf(x)'
    BY DEF Each
  <2>1. EachOf(x) BY DEF GenInv, Each
  <2>2. CASE x = Template!One
    BY <2>1, <2>2, GenNames, GenSets, OneStays, OneMoves, OneInHand, OneInRefresh DEF EachOf,
       Absent, AsOne, Mounts, Left, Returnable, Refreshed, Refreshing, Choosing, Template!Exists,
       Template!Lower, GenInv, InHand, OnDisk, Template!GenTypeOK, Template!NextOne, Template!To,
       Template!Journaled, Template!template, Template!box, Template!refresh, Template!Fine,
       Midway, Before, FilesBefore, New
  <2>3. CASE x # Template!One
    BY <2>1, <2>3, GenNames, GenSets, OneStays, OneMoves, OneInHand, OneInRefresh DEF EachOf,
       Absent, AsOne, Mounts, Left, Returnable, Refreshed, Refreshing, Choosing, Template!Exists,
       Template!Lower, GenInv, InHand, OnDisk, Template!GenTypeOK, Template!NextOne, Template!To,
       Template!Journaled, Template!template, Template!box, Template!refresh, Template!Fine
  <2>. QED BY <2>2, <2>3
<1>5. Template!RequestKept'
  BY GenNames, GenSets, OneStays, OneMoves, OneInHand, OneInRefresh DEF GenInv, OnDisk,
     Template!RequestKept, Template!GenTypeOK, Template!NextOne, Template!To, Template!Journaled,
     Template!template, Template!box, Template!refresh, Template!Fine
<1>. QED BY <1>1, <1>2, <1>3, <1>4, <1>5 DEF GenInv

(* The journal is written before anything changes.                           *)
LEMMA WriteJournalKeeps == ASSUME GenInv, Template!WriteJournal PROVE GenInv'
<1>0. LET written == [before |-> db[Template!One], oldPin |-> pin[Template!One],
                      oldSnap |-> snap[Template!One], ran |-> on[Template!One]]
      IN  /\ written \in Template!Journals /\ written \in Template!Notes /\ written # Nothing
          /\ note' = [note EXCEPT ![Template!One] = written]
  <2>1. /\ Template!One \in Boxes /\ db[Template!One] \in Template!Records
        /\ pin[Template!One] \in 0..MaxCopies /\ snap[Template!One] \in Template!Backups
        /\ on[Template!One] \in BOOLEAN
    BY OneInHand, GenSets DEF GenInv, InHand, Template!GenTypeOK, Template!WriteJournal,
       Template!Exists, Choosing, Refreshing
  <2>2. note' = [note EXCEPT ![Template!One] =
                   [before |-> db[Template!One], oldPin |-> pin[Template!One],
                    oldSnap |-> snap[Template!One], ran |-> on[Template!One]]]
    BY DEF Template!WriteJournal
  <2>. QED BY <2>1, <2>2, GenNames DEF Template!Journals, Template!Notes
<1>1. Template!GenTypeOK'
  <2>1. note' \in [Boxes -> Template!Notes] BY <1>0 DEF GenInv, Template!GenTypeOK
  <2>. QED
    BY <2>1 DEF GenInv, Template!GenTypeOK, Template!WriteJournal, Template!To, Template!Stages,
       Template!template, Template!box, Template!Fine
<1>2. OnDisk'
  BY GenNames, GenSets, OneStays, OneMoves, OneInHand, OneInRefresh DEF GenInv, OnDisk, InHand,
     Template!GenTypeOK, Template!Gated, Template!Stages, Choosing, Refreshing,
     Template!WriteJournal, Template!To, Template!template, Template!box, Template!Fine
<1>3. InHand'
  BY GenNames, GenSets, OneStays, OneMoves, OneInHand, OneInRefresh DEF GenInv, InHand, OnDisk,
     Midway, New, Returnable, Template!GenTypeOK, Template!Gated, Template!Stages, Choosing,
     Refreshing, Template!Exists, Template!WriteJournal, Template!To, Template!template,
     Template!box, Template!Fine
<1>4. Each'
  <2> SUFFICES ASSUME NEW x \in Boxes PROVE EachOf(x)'
    BY DEF Each
  <2>1. EachOf(x) BY DEF GenInv, Each
  <2>2. /\ UNCHANGED <<copies, live, db, deltas, lower, pin, on, newDb, newUp, gen, moving, stale>>
        /\ stage = "journal" /\ stage' = "sanitize"
    BY DEF Template!WriteJournal, Template!To, Template!template, Template!box
  <2>3. Template!One' = Template!One BY <2>2, OneStays
  <2>4. CASE x = Template!One
    <3>1. /\ Template!Exists(x) /\ note[x] = Nothing /\ pin[x] # 0 /\ Template!One \in Boxes
      BY <2>2, <2>4, OneInHand DEF GenInv, InHand, Choosing, Refreshing, Template!Gated,
         Template!Stages
    <3>2. /\ note'[x] # Nothing /\ note'[x].before = db[x] /\ note'[x].oldPin = pin[x]
      BY <1>0, <2>4, <3>1 DEF GenInv, Template!GenTypeOK
    <3>3. AsOne(x) /\ Mounts(x) BY <2>1, <3>1 DEF EachOf
    <3>4. Refreshed(x)' BY <2>2, <2>3, <2>4 DEF Refreshed, Refreshing
    <3>. QED
      BY <2>2, <3>1, <3>2, <3>3, <3>4 DEF EachOf, Midway, AsOne, Mounts, Returnable, Before,
         FilesBefore, Template!Exists, Template!Lower
  <2>5. CASE x # Template!One
    <3>1. note'[x] = note[x] /\ ~Refreshed(x) /\ ~Refreshed(x)'
      BY <1>0, <2>3, <2>5 DEF GenInv, Template!GenTypeOK, Refreshed
    <3>. QED
      BY <2>1, <2>2, <3>1 DEF EachOf, Absent, AsOne, Mounts, Left, Returnable, Template!Exists,
         Template!Lower
  <2>. QED BY <2>4, <2>5
<1>5. Template!RequestKept'
  BY GenNames, GenSets, OneStays, OneMoves, OneInHand, OneInRefresh DEF GenInv, OnDisk,
     Template!RequestKept, Template!GenTypeOK, Template!WriteJournal, Template!To,
     Template!template, Template!box, Template!Fine
<1>. QED BY <1>1, <1>2, <1>3, <1>4, <1>5 DEF GenInv

(* The new database is made,                                                 *)
LEMMA SanitizeKeeps == ASSUME GenInv, Template!Sanitize PROVE GenInv'
<1>1. Template!GenTypeOK'
  BY GenNames, GenSets, OneStays, OneMoves, OneInHand, OneInRefresh DEF GenInv, OnDisk, InHand,
     Template!GenTypeOK, Template!Stages, Choosing, Refreshing, Template!Sanitize, Template!To,
     Template!template, Template!box, Template!Fine
<1>2. OnDisk'
  BY GenNames, GenSets, OneStays, OneMoves, OneInHand, OneInRefresh DEF GenInv, OnDisk, InHand,
     Template!GenTypeOK, Template!Gated, Template!Stages, Choosing, Refreshing, Template!Sanitize,
     Template!To, Template!template, Template!box, Template!Fine
<1>3. InHand'
  BY GenNames, GenSets, OneStays, OneMoves, OneInHand, OneInRefresh DEF GenInv, InHand, OnDisk,
     Midway, New, Returnable, Template!GenTypeOK, Template!Gated, Template!Stages, Choosing,
     Refreshing, Template!Exists, Template!Sanitize, Template!To, Template!template, Template!box,
     Template!Fine
<1>4. Each'
  <2> SUFFICES ASSUME NEW x \in Boxes PROVE EachOf(x)'
    BY DEF Each
  <2>1. EachOf(x) BY DEF GenInv, Each
  <2>2. CASE x = Template!One
    BY <2>1, <2>2, GenNames, GenSets, OneStays, OneMoves, OneInHand, OneInRefresh DEF EachOf,
       Absent, AsOne, Mounts, Left, Returnable, Refreshed, Refreshing, Choosing, Template!Exists,
       Template!Lower, GenInv, InHand, OnDisk, Template!GenTypeOK, Template!Sanitize, Template!To,
       Template!template, Template!box, Template!Fine, Midway, Before, FilesBefore, New
  <2>3. CASE x # Template!One
    BY <2>1, <2>3, GenNames, GenSets, OneStays, OneMoves, OneInHand, OneInRefresh DEF EachOf,
       Absent, AsOne, Mounts, Left, Returnable, Refreshed, Refreshing, Choosing, Template!Exists,
       Template!Lower, GenInv, InHand, OnDisk, Template!GenTypeOK, Template!Sanitize, Template!To,
       Template!template, Template!box, Template!Fine
  <2>. QED BY <2>2, <2>3
<1>5. Template!RequestKept'
  BY GenNames, GenSets, OneStays, OneMoves, OneInHand, OneInRefresh DEF GenInv, OnDisk,
     Template!RequestKept, Template!GenTypeOK, Template!Sanitize, Template!To, Template!template,
     Template!box, Template!Fine
<1>. QED BY <1>1, <1>2, <1>3, <1>4, <1>5 DEF GenInv

(* or cannot be made.                                                        *)
LEMMA SanitizeFailsKeeps == ASSUME GenInv, Template!SanitizeFails PROVE GenInv'
<1>1. Template!GenTypeOK'
  BY GenNames, GenSets, OneStays DEF GenInv, OnDisk, InHand, Template!GenTypeOK, Template!Stages,
     Choosing, Refreshing, Template!SanitizeFails, Template!Mishap, Template!To,
     Template!template, Template!box, Template!refresh
<1>2. OnDisk'
  BY GenNames, GenSets, OneStays DEF GenInv, OnDisk, InHand, Template!GenTypeOK, Template!Gated,
     Template!Stages, Choosing, Refreshing, Template!SanitizeFails, Template!Mishap, Template!To,
     Template!template, Template!box, Template!refresh
<1>3. InHand'
  BY GenNames, GenSets, OneStays DEF GenInv, InHand, OnDisk, Template!GenTypeOK, Template!Gated,
     Template!Stages, Choosing, Refreshing, Template!Exists, Template!SanitizeFails,
     Template!Mishap, Template!To, Template!template, Template!box, Template!refresh
<1>4. Each'
  <2> SUFFICES ASSUME NEW x \in Boxes PROVE EachOf(x)'
    BY DEF Each
  <2>1. EachOf(x) BY DEF GenInv, Each
  <2>. QED
    BY <2>1, GenNames, GenSets, OneStays DEF EachOf, Absent, AsOne, Mounts, Left, Returnable,
       Refreshed, Refreshing, Choosing, Template!Exists, Template!Lower, GenInv, InHand, OnDisk,
       Template!GenTypeOK, Template!SanitizeFails, Template!Mishap, Template!To,
       Template!template, Template!box, Template!refresh, Midway, Before, FilesBefore, New
<1>5. Template!RequestKept'
  BY GenNames, GenSets, OneStays DEF GenInv, OnDisk, Template!RequestKept, Template!GenTypeOK,
     Template!SanitizeFails, Template!Mishap, Template!To, Template!template, Template!box,
     Template!refresh
<1>. QED BY <1>1, <1>2, <1>3, <1>4, <1>5 DEF GenInv

(* The container stops;                                                      *)
LEMMA StopBoxKeeps == ASSUME GenInv, Template!StopBox PROVE GenInv'
<1>1. Template!GenTypeOK'
  BY GenNames, GenSets, OneStays, OneMoves, OneInHand, OneInRefresh DEF GenInv, OnDisk, InHand,
     Template!GenTypeOK, Template!Stages, Choosing, Refreshing, Template!StopBox, Template!To,
     Template!template, Template!refresh, Template!Fine
<1>2. OnDisk'
  BY GenNames, GenSets, OneStays, OneMoves, OneInHand, OneInRefresh DEF GenInv, OnDisk, InHand,
     Template!GenTypeOK, Template!Gated, Template!Stages, Choosing, Refreshing, Template!StopBox,
     Template!To, Template!template, Template!refresh, Template!Fine
<1>3. InHand'
  BY GenNames, GenSets, OneStays, OneMoves, OneInHand, OneInRefresh DEF GenInv, InHand, OnDisk,
     Midway, New, Returnable, Template!GenTypeOK, Template!Gated, Template!Stages, Choosing,
     Refreshing, Template!Exists, Template!StopBox, Template!To, Template!template,
     Template!refresh, Template!Fine
<1>4. Each'
  <2> SUFFICES ASSUME NEW x \in Boxes PROVE EachOf(x)'
    BY DEF Each
  <2>1. EachOf(x) BY DEF GenInv, Each
  <2>2. CASE x = Template!One
    BY <2>1, <2>2, GenNames, GenSets, OneStays, OneMoves, OneInHand, OneInRefresh DEF EachOf,
       Absent, AsOne, Mounts, Left, Returnable, Refreshed, Refreshing, Choosing, Template!Exists,
       Template!Lower, GenInv, InHand, OnDisk, Template!GenTypeOK, Template!StopBox, Template!To,
       Template!template, Template!refresh, Template!Fine, Midway, Before, FilesBefore, New
  <2>3. CASE x # Template!One
    BY <2>1, <2>3, GenNames, GenSets, OneStays, OneMoves, OneInHand, OneInRefresh DEF EachOf,
       Absent, AsOne, Mounts, Left, Returnable, Refreshed, Refreshing, Choosing, Template!Exists,
       Template!Lower, GenInv, InHand, OnDisk, Template!GenTypeOK, Template!StopBox, Template!To,
       Template!template, Template!refresh, Template!Fine
  <2>. QED BY <2>2, <2>3
<1>5. Template!RequestKept'
  BY GenNames, GenSets, OneStays, OneMoves, OneInHand, OneInRefresh DEF GenInv, OnDisk,
     Template!RequestKept, Template!GenTypeOK, Template!StopBox, Template!To, Template!template,
     Template!refresh, Template!Fine
<1>. QED BY <1>1, <1>2, <1>3, <1>4, <1>5 DEF GenInv

(* the databases are exchanged,                                              *)
LEMMA SwapDatabasesKeeps == ASSUME GenInv, Template!SwapDatabases PROVE GenInv'
<1>1. Template!GenTypeOK'
  BY GenNames, GenSets, OneStays, OneMoves, OneInHand, OneInRefresh DEF GenInv, OnDisk, InHand,
     Template!GenTypeOK, Template!Stages, Choosing, Refreshing, Template!SwapDatabases,
     Template!ExchangeDb, Template!To, Template!template, Template!Fine
<1>2. OnDisk'
  BY GenNames, GenSets, OneStays, OneMoves, OneInHand, OneInRefresh DEF GenInv, OnDisk, InHand,
     Template!GenTypeOK, Template!Gated, Template!Stages, Choosing, Refreshing,
     Template!SwapDatabases, Template!ExchangeDb, Template!To, Template!template, Template!Fine
<1>3. InHand'
  BY GenNames, GenSets, OneStays, OneMoves, OneInHand, OneInRefresh DEF GenInv, InHand, OnDisk,
     Midway, New, Returnable, Template!GenTypeOK, Template!Gated, Template!Stages, Choosing,
     Refreshing, Template!Exists, Template!SwapDatabases, Template!ExchangeDb, Template!To,
     Template!template, Template!Fine
<1>4. Each'
  <2> SUFFICES ASSUME NEW x \in Boxes PROVE EachOf(x)'
    BY DEF Each
  <2>1. EachOf(x) BY DEF GenInv, Each
  <2>2. CASE x = Template!One
    BY <2>1, <2>2, GenNames, GenSets, OneStays, OneMoves, OneInHand, OneInRefresh DEF EachOf,
       Absent, AsOne, Mounts, Left, Returnable, Refreshed, Refreshing, Choosing, Template!Exists,
       Template!Lower, GenInv, InHand, OnDisk, Template!GenTypeOK, Template!SwapDatabases,
       Template!ExchangeDb, Template!To, Template!template, Template!Fine, Midway, Before,
       FilesBefore, New
  <2>3. CASE x # Template!One
    BY <2>1, <2>3, GenNames, GenSets, OneStays, OneMoves, OneInHand, OneInRefresh DEF EachOf,
       Absent, AsOne, Mounts, Left, Returnable, Refreshed, Refreshing, Choosing, Template!Exists,
       Template!Lower, GenInv, InHand, OnDisk, Template!GenTypeOK, Template!SwapDatabases,
       Template!ExchangeDb, Template!To, Template!template, Template!Fine
  <2>. QED BY <2>2, <2>3
<1>5. Template!RequestKept'
  BY GenNames, GenSets, OneStays, OneMoves, OneInHand, OneInRefresh DEF GenInv, OnDisk,
     Template!RequestKept, Template!GenTypeOK, Template!SwapDatabases, Template!ExchangeDb,
     Template!To, Template!template, Template!Fine
<1>. QED BY <1>1, <1>2, <1>3, <1>4, <1>5 DEF GenInv

(* then the files,                                                           *)
LEMMA SwapFilesKeeps == ASSUME GenInv, Template!SwapFiles PROVE GenInv'
<1>1. Template!GenTypeOK'
  BY GenNames, GenSets, OneStays, OneMoves, OneInHand, OneInRefresh DEF GenInv, OnDisk, InHand,
     Template!GenTypeOK, Template!Stages, Choosing, Refreshing, Template!SwapFiles,
     Template!ExchangeFiles, Template!To, Template!template, Template!Fine
<1>2. OnDisk'
  BY GenNames, GenSets, OneStays, OneMoves, OneInHand, OneInRefresh DEF GenInv, OnDisk, InHand,
     Template!GenTypeOK, Template!Gated, Template!Stages, Choosing, Refreshing,
     Template!SwapFiles, Template!ExchangeFiles, Template!To, Template!template, Template!Fine
<1>3. InHand'
  BY GenNames, GenSets, OneStays, OneMoves, OneInHand, OneInRefresh DEF GenInv, InHand, OnDisk,
     Midway, New, Returnable, Template!GenTypeOK, Template!Gated, Template!Stages, Choosing,
     Refreshing, Template!Exists, Template!SwapFiles, Template!ExchangeFiles, Template!To,
     Template!template, Template!Fine
<1>4. Each'
  <2> SUFFICES ASSUME NEW x \in Boxes PROVE EachOf(x)'
    BY DEF Each
  <2>1. EachOf(x) BY DEF GenInv, Each
  <2>2. CASE x = Template!One
    BY <2>1, <2>2, GenNames, GenSets, OneStays, OneMoves, OneInHand, OneInRefresh DEF EachOf,
       Absent, AsOne, Mounts, Left, Returnable, Refreshed, Refreshing, Choosing, Template!Exists,
       Template!Lower, GenInv, InHand, OnDisk, Template!GenTypeOK, Template!SwapFiles,
       Template!ExchangeFiles, Template!To, Template!template, Template!Fine, Midway, Before,
       FilesBefore, New
  <2>3. CASE x # Template!One
    BY <2>1, <2>3, GenNames, GenSets, OneStays, OneMoves, OneInHand, OneInRefresh DEF EachOf,
       Absent, AsOne, Mounts, Left, Returnable, Refreshed, Refreshing, Choosing, Template!Exists,
       Template!Lower, GenInv, InHand, OnDisk, Template!GenTypeOK, Template!SwapFiles,
       Template!ExchangeFiles, Template!To, Template!template, Template!Fine
  <2>. QED BY <2>2, <2>3
<1>5. Template!RequestKept'
  BY GenNames, GenSets, OneStays, OneMoves, OneInHand, OneInRefresh DEF GenInv, OnDisk,
     Template!RequestKept, Template!GenTypeOK, Template!SwapFiles, Template!ExchangeFiles,
     Template!To, Template!template, Template!Fine
<1>. QED BY <1>1, <1>2, <1>3, <1>4, <1>5 DEF GenInv

(* then the pin.                                                             *)
LEMMA WritePinKeeps == ASSUME GenInv, Template!WritePin PROVE GenInv'
<1>1. Template!GenTypeOK'
  BY GenNames, GenSets, OneStays, OneMoves, OneInHand, OneInRefresh DEF GenInv, OnDisk, InHand,
     Template!GenTypeOK, Template!Stages, Choosing, Refreshing, Template!WritePin, Template!To,
     Template!template, Template!refresh, Template!Fine
<1>2. OnDisk'
  BY GenNames, GenSets, OneStays, OneMoves, OneInHand, OneInRefresh DEF GenInv, OnDisk, InHand,
     Template!GenTypeOK, Template!Gated, Template!Stages, Choosing, Refreshing, Template!WritePin,
     Template!To, Template!template, Template!refresh, Template!Fine
<1>3. InHand'
  BY GenNames, GenSets, OneStays, OneMoves, OneInHand, OneInRefresh DEF GenInv, InHand, OnDisk,
     Midway, New, Returnable, Template!GenTypeOK, Template!Gated, Template!Stages, Choosing,
     Refreshing, Template!Exists, Template!WritePin, Template!To, Template!template,
     Template!refresh, Template!Fine
<1>4. Each'
  <2> SUFFICES ASSUME NEW x \in Boxes PROVE EachOf(x)'
    BY DEF Each
  <2>1. EachOf(x) BY DEF GenInv, Each
  <2>2. CASE x = Template!One
    BY <2>1, <2>2, GenNames, GenSets, OneStays, OneMoves, OneInHand, OneInRefresh DEF EachOf,
       Absent, AsOne, Mounts, Left, Returnable, Refreshed, Refreshing, Choosing, Template!Exists,
       Template!Lower, GenInv, InHand, OnDisk, Template!GenTypeOK, Template!WritePin, Template!To,
       Template!template, Template!refresh, Template!Fine, Midway, Before, FilesBefore, New
  <2>3. CASE x # Template!One
    BY <2>1, <2>3, GenNames, GenSets, OneStays, OneMoves, OneInHand, OneInRefresh DEF EachOf,
       Absent, AsOne, Mounts, Left, Returnable, Refreshed, Refreshing, Choosing, Template!Exists,
       Template!Lower, GenInv, InHand, OnDisk, Template!GenTypeOK, Template!WritePin, Template!To,
       Template!template, Template!refresh, Template!Fine
  <2>. QED BY <2>2, <2>3
<1>5. Template!RequestKept'
  BY GenNames, GenSets, OneStays, OneMoves, OneInHand, OneInRefresh DEF GenInv, OnDisk,
     Template!RequestKept, Template!GenTypeOK, Template!WritePin, Template!To, Template!template,
     Template!refresh, Template!Fine
<1>. QED BY <1>1, <1>2, <1>3, <1>4, <1>5 DEF GenInv

(* The new generation is mounted,                                            *)
LEMMA MountNewKeeps == ASSUME GenInv, Template!MountNew PROVE GenInv'
<1>1. Template!GenTypeOK'
  BY GenNames, GenSets, OneStays, OneMoves, OneInHand, OneInRefresh DEF GenInv, OnDisk, InHand,
     Template!GenTypeOK, Template!Stages, Choosing, Refreshing, Template!MountNew,
     Template!Mounted, Template!To, Template!template, Template!refresh, Template!Fine,
     Template!Lower
<1>2. OnDisk'
  BY GenNames, GenSets, OneStays, OneMoves, OneInHand, OneInRefresh DEF GenInv, OnDisk, InHand,
     Template!GenTypeOK, Template!Gated, Template!Stages, Choosing, Refreshing, Template!MountNew,
     Template!Mounted, Template!To, Template!template, Template!refresh, Template!Fine,
     Template!Lower
<1>3. InHand'
  BY GenNames, GenSets, OneStays, OneMoves, OneInHand, OneInRefresh DEF GenInv, InHand, OnDisk,
     Midway, New, Returnable, Template!GenTypeOK, Template!Gated, Template!Stages, Choosing,
     Refreshing, Template!Exists, Template!MountNew, Template!Mounted, Template!To,
     Template!template, Template!refresh, Template!Fine, Template!Lower
<1>4. Each'
  <2> SUFFICES ASSUME NEW x \in Boxes PROVE EachOf(x)'
    BY DEF Each
  <2>1. EachOf(x) BY DEF GenInv, Each
  <2>2. CASE x = Template!One
    BY <2>1, <2>2, GenNames, GenSets, OneStays, OneMoves, OneInHand, OneInRefresh DEF EachOf,
       Absent, AsOne, Mounts, Left, Returnable, Refreshed, Refreshing, Choosing, Template!Exists,
       Template!Lower, GenInv, InHand, OnDisk, Template!GenTypeOK, Template!MountNew,
       Template!Mounted, Template!To, Template!template, Template!refresh, Template!Fine, Midway,
       Before, FilesBefore, New
  <2>3. CASE x # Template!One
    BY <2>1, <2>3, GenNames, GenSets, OneStays, OneMoves, OneInHand, OneInRefresh DEF EachOf,
       Absent, AsOne, Mounts, Left, Returnable, Refreshed, Refreshing, Choosing, Template!Exists,
       Template!Lower, GenInv, InHand, OnDisk, Template!GenTypeOK, Template!MountNew,
       Template!Mounted, Template!To, Template!template, Template!refresh, Template!Fine
  <2>. QED BY <2>2, <2>3
<1>5. Template!RequestKept'
  BY GenNames, GenSets, OneStays, OneMoves, OneInHand, OneInRefresh DEF GenInv, OnDisk,
     Template!RequestKept, Template!GenTypeOK, Template!MountNew, Template!Mounted, Template!To,
     Template!template, Template!refresh, Template!Fine, Template!Lower
<1>. QED BY <1>1, <1>2, <1>3, <1>4, <1>5 DEF GenInv

(* the container started,                                                    *)
LEMMA StartNewKeeps == ASSUME GenInv, Template!StartNew PROVE GenInv'
<1>1. Template!GenTypeOK'
  BY GenNames, GenSets, OneStays, OneMoves, OneInHand, OneInRefresh DEF GenInv, OnDisk, InHand,
     Template!GenTypeOK, Template!Stages, Choosing, Refreshing, Template!StartNew, Template!To,
     Template!template, Template!refresh, Template!Fine
<1>2. OnDisk'
  BY GenNames, GenSets, OneStays, OneMoves, OneInHand, OneInRefresh DEF GenInv, OnDisk, InHand,
     Template!GenTypeOK, Template!Gated, Template!Stages, Choosing, Refreshing, Template!StartNew,
     Template!To, Template!template, Template!refresh, Template!Fine
<1>3. InHand'
  BY GenNames, GenSets, OneStays, OneMoves, OneInHand, OneInRefresh DEF GenInv, InHand, OnDisk,
     Midway, New, Returnable, Template!GenTypeOK, Template!Gated, Template!Stages, Choosing,
     Refreshing, Template!Exists, Template!StartNew, Template!To, Template!template,
     Template!refresh, Template!Fine
<1>4. Each'
  <2> SUFFICES ASSUME NEW x \in Boxes PROVE EachOf(x)'
    BY DEF Each
  <2>1. EachOf(x) BY DEF GenInv, Each
  <2>2. CASE x = Template!One
    BY <2>1, <2>2, GenNames, GenSets, OneStays, OneMoves, OneInHand, OneInRefresh DEF EachOf,
       Absent, AsOne, Mounts, Left, Returnable, Refreshed, Refreshing, Choosing, Template!Exists,
       Template!Lower, GenInv, InHand, OnDisk, Template!GenTypeOK, Template!StartNew, Template!To,
       Template!template, Template!refresh, Template!Fine, Midway, Before, FilesBefore, New
  <2>3. CASE x # Template!One
    BY <2>1, <2>3, GenNames, GenSets, OneStays, OneMoves, OneInHand, OneInRefresh DEF EachOf,
       Absent, AsOne, Mounts, Left, Returnable, Refreshed, Refreshing, Choosing, Template!Exists,
       Template!Lower, GenInv, InHand, OnDisk, Template!GenTypeOK, Template!StartNew, Template!To,
       Template!template, Template!refresh, Template!Fine
  <2>. QED BY <2>2, <2>3
<1>5. Template!RequestKept'
  BY GenNames, GenSets, OneStays, OneMoves, OneInHand, OneInRefresh DEF GenInv, OnDisk,
     Template!RequestKept, Template!GenTypeOK, Template!StartNew, Template!To, Template!template,
     Template!refresh, Template!Fine
<1>. QED BY <1>1, <1>2, <1>3, <1>4, <1>5 DEF GenInv

(* the old data deleted with the journal,                                    *)
LEMMA CleanUpKeeps == ASSUME GenInv, Template!CleanUp PROVE GenInv'
<1>1. Template!GenTypeOK'
  BY GenNames, GenSets, OneStays, OneMoves, OneInHand, OneInRefresh DEF GenInv, OnDisk, InHand,
     Template!GenTypeOK, Template!Stages, Choosing, Refreshing, Template!CleanUp, Template!To,
     Template!template, Template!box, Template!Fine
<1>2. OnDisk'
  BY GenNames, GenSets, OneStays, OneMoves, OneInHand, OneInRefresh DEF GenInv, OnDisk, InHand,
     Template!GenTypeOK, Template!Gated, Template!Stages, Choosing, Refreshing, Template!CleanUp,
     Template!To, Template!template, Template!box, Template!Fine
<1>3. InHand'
  BY GenNames, GenSets, OneStays, OneMoves, OneInHand, OneInRefresh DEF GenInv, InHand, OnDisk,
     Midway, New, Returnable, Template!GenTypeOK, Template!Gated, Template!Stages, Choosing,
     Refreshing, Template!Exists, Template!CleanUp, Template!To, Template!template, Template!box,
     Template!Fine
<1>4. Each'
  <2> SUFFICES ASSUME NEW x \in Boxes PROVE EachOf(x)'
    BY DEF Each
  <2>1. EachOf(x) BY DEF GenInv, Each
  <2>2. CASE x = Template!One
    BY <2>1, <2>2, GenNames, GenSets, OneStays, OneMoves, OneInHand, OneInRefresh DEF EachOf,
       Absent, AsOne, Mounts, Left, Returnable, Refreshed, Refreshing, Choosing, Template!Exists,
       Template!Lower, GenInv, InHand, OnDisk, Template!GenTypeOK, Template!CleanUp, Template!To,
       Template!template, Template!box, Template!Fine, Midway, Before, FilesBefore, New
  <2>3. CASE x # Template!One
    BY <2>1, <2>3, GenNames, GenSets, OneStays, OneMoves, OneInHand, OneInRefresh DEF EachOf,
       Absent, AsOne, Mounts, Left, Returnable, Refreshed, Refreshing, Choosing, Template!Exists,
       Template!Lower, GenInv, InHand, OnDisk, Template!GenTypeOK, Template!CleanUp, Template!To,
       Template!template, Template!box, Template!Fine
  <2>. QED BY <2>2, <2>3
<1>5. Template!RequestKept'
  BY GenNames, GenSets, OneStays, OneMoves, OneInHand, OneInRefresh DEF GenInv, OnDisk,
     Template!RequestKept, Template!GenTypeOK, Template!CleanUp, Template!To, Template!template,
     Template!box, Template!Fine
<1>. QED BY <1>1, <1>2, <1>3, <1>4, <1>5 DEF GenInv

(* or only partly.                                                           *)
LEMMA CleanHalfKeeps == ASSUME GenInv, Template!CleanHalf PROVE GenInv'
<1>1. Template!GenTypeOK'
  BY GenNames, GenSets, OneStays, OneMoves, OneInHand, OneInRefresh DEF GenInv, OnDisk, InHand,
     Template!GenTypeOK, Template!Stages, Choosing, Refreshing, Template!CleanHalf, Template!Stop,
     Template!Answered, Template!Mishap, Template!template, Template!box
<1>2. OnDisk'
  BY GenNames, GenSets, OneStays, OneMoves, OneInHand, OneInRefresh DEF GenInv, OnDisk, InHand,
     Template!GenTypeOK, Template!Gated, Template!Stages, Choosing, Refreshing,
     Template!CleanHalf, Template!Stop, Template!Answered, Template!Mishap, Template!template,
     Template!box
<1>3. InHand'
  BY GenNames, GenSets, OneStays, OneMoves, OneInHand, OneInRefresh DEF GenInv, InHand, OnDisk,
     Midway, New, Returnable, Template!GenTypeOK, Template!Gated, Template!Stages, Choosing,
     Refreshing, Template!Exists, Template!CleanHalf, Template!Stop, Template!Answered,
     Template!Mishap, Template!template, Template!box
<1>4. Each'
  <2> SUFFICES ASSUME NEW x \in Boxes PROVE EachOf(x)'
    BY DEF Each
  <2>1. EachOf(x) BY DEF GenInv, Each
  <2>2. CASE x = Template!One
    BY <2>1, <2>2, GenNames, GenSets, OneStays, OneMoves, OneInHand, OneInRefresh DEF EachOf,
       Absent, AsOne, Mounts, Left, Returnable, Refreshed, Refreshing, Choosing, Template!Exists,
       Template!Lower, GenInv, InHand, OnDisk, Template!GenTypeOK, Template!CleanHalf,
       Template!Stop, Template!Answered, Template!Mishap, Template!template, Template!box, Midway,
       Before, FilesBefore, New
  <2>3. CASE x # Template!One
    BY <2>1, <2>3, GenNames, GenSets, OneStays, OneMoves, OneInHand, OneInRefresh DEF EachOf,
       Absent, AsOne, Mounts, Left, Returnable, Refreshed, Refreshing, Choosing, Template!Exists,
       Template!Lower, GenInv, InHand, OnDisk, Template!GenTypeOK, Template!CleanHalf,
       Template!Stop, Template!Answered, Template!Mishap, Template!template, Template!box
  <2>. QED BY <2>2, <2>3
<1>5. Template!RequestKept'
  BY GenNames, GenSets, OneStays, OneMoves, OneInHand, OneInRefresh DEF GenInv, OnDisk,
     Template!RequestKept, Template!GenTypeOK, Template!CleanHalf, Template!Stop,
     Template!Answered, Template!Mishap, Template!template, Template!box
<1>. QED BY <1>1, <1>2, <1>3, <1>4, <1>5 DEF GenInv

(* Nobody is left.                                                           *)
LEMMA DoneKeeps == ASSUME GenInv, Template!Done PROVE GenInv'
<1>1. Template!GenTypeOK'
  BY GenNames, GenSets, OneStays, OneMoves, OneInHand, OneInRefresh DEF GenInv, OnDisk, InHand,
     Template!GenTypeOK, Template!Stages, Choosing, Refreshing, Template!Done, Template!template,
     Template!box, Template!refresh, Template!Fine
<1>2. OnDisk'
  BY GenNames, GenSets, OneStays, OneMoves, OneInHand, OneInRefresh DEF GenInv, OnDisk, InHand,
     Template!GenTypeOK, Template!Gated, Template!Stages, Choosing, Refreshing, Template!Done,
     Template!template, Template!box, Template!refresh, Template!Fine
<1>3. InHand'
  BY GenNames, GenSets, OneStays, OneMoves, OneInHand, OneInRefresh DEF GenInv, InHand, OnDisk,
     Midway, New, Returnable, Template!GenTypeOK, Template!Gated, Template!Stages, Choosing,
     Refreshing, Template!Exists, Template!Done, Template!template, Template!box,
     Template!refresh, Template!Fine
<1>4. Each'
  <2> SUFFICES ASSUME NEW x \in Boxes PROVE EachOf(x)'
    BY DEF Each
  <2>1. EachOf(x) BY DEF GenInv, Each
  <2>2. CASE x = Template!One
    BY <2>1, <2>2, GenNames, GenSets, OneStays, OneMoves, OneInHand, OneInRefresh DEF EachOf,
       Absent, AsOne, Mounts, Left, Returnable, Refreshed, Refreshing, Choosing, Template!Exists,
       Template!Lower, GenInv, InHand, OnDisk, Template!GenTypeOK, Template!Done,
       Template!template, Template!box, Template!refresh, Template!Fine, Midway, Before,
       FilesBefore, New
  <2>3. CASE x # Template!One
    BY <2>1, <2>3, GenNames, GenSets, OneStays, OneMoves, OneInHand, OneInRefresh DEF EachOf,
       Absent, AsOne, Mounts, Left, Returnable, Refreshed, Refreshing, Choosing, Template!Exists,
       Template!Lower, GenInv, InHand, OnDisk, Template!GenTypeOK, Template!Done,
       Template!template, Template!box, Template!refresh, Template!Fine
  <2>. QED BY <2>2, <2>3
<1>5. Template!RequestKept'
  BY GenNames, GenSets, OneStays, OneMoves, OneInHand, OneInRefresh DEF GenInv, OnDisk,
     Template!RequestKept, Template!GenTypeOK, Template!Done, Template!template, Template!box,
     Template!refresh, Template!Fine
<1>. QED BY <1>1, <1>2, <1>3, <1>4, <1>5 DEF GenInv

(* A step fails: back the way it came.                                       *)
LEMMA RefreshFailsKeeps == ASSUME GenInv, Template!RefreshFails PROVE GenInv'
<1>1. Template!GenTypeOK'
  BY GenNames, GenSets, OneStays DEF GenInv, OnDisk, InHand, Template!GenTypeOK, Template!Stages,
     Choosing, Refreshing, Template!RefreshFails, Template!Mishap, Template!To, Template!template,
     Template!box, Template!refresh
<1>2. OnDisk'
  BY GenNames, GenSets, OneStays DEF GenInv, OnDisk, InHand, Template!GenTypeOK, Template!Gated,
     Template!Stages, Choosing, Refreshing, Template!RefreshFails, Template!Mishap, Template!To,
     Template!template, Template!box, Template!refresh
<1>3. InHand'
  BY GenNames, GenSets, OneStays DEF GenInv, InHand, OnDisk, Template!GenTypeOK, Template!Gated,
     Template!Stages, Choosing, Refreshing, Template!Exists, Template!RefreshFails,
     Template!Mishap, Template!To, Template!template, Template!box, Template!refresh
<1>4. Each'
  <2> SUFFICES ASSUME NEW x \in Boxes PROVE EachOf(x)'
    BY DEF Each
  <2>1. EachOf(x) BY DEF GenInv, Each
  <2>. QED
    BY <2>1, GenNames, GenSets, OneStays DEF EachOf, Absent, AsOne, Mounts, Left, Returnable,
       Refreshed, Refreshing, Choosing, Template!Exists, Template!Lower, GenInv, InHand, OnDisk,
       Template!GenTypeOK, Template!RefreshFails, Template!Mishap, Template!To, Template!template,
       Template!box, Template!refresh, Midway, Before, FilesBefore, New
<1>5. Template!RequestKept'
  BY GenNames, GenSets, OneStays DEF GenInv, OnDisk, Template!RequestKept, Template!GenTypeOK,
     Template!RefreshFails, Template!Mishap, Template!To, Template!template, Template!box,
     Template!refresh
<1>. QED BY <1>1, <1>2, <1>3, <1>4, <1>5 DEF GenInv

(* The container is stopped,                                                 *)
LEMMA BackStopKeeps == ASSUME GenInv, Template!BackStop PROVE GenInv'
<1>1. Template!GenTypeOK'
  BY GenNames, GenSets, OneStays, OneMoves, OneInHand, OneInRefresh DEF GenInv, OnDisk, InHand,
     Template!GenTypeOK, Template!Stages, Choosing, Refreshing, Template!BackStop, Template!To,
     Template!template, Template!refresh, Template!Fine
<1>2. OnDisk'
  BY GenNames, GenSets, OneStays, OneMoves, OneInHand, OneInRefresh DEF GenInv, OnDisk, InHand,
     Template!GenTypeOK, Template!Gated, Template!Stages, Choosing, Refreshing, Template!BackStop,
     Template!To, Template!template, Template!refresh, Template!Fine
<1>3. InHand'
  BY GenNames, GenSets, OneStays, OneMoves, OneInHand, OneInRefresh DEF GenInv, InHand, OnDisk,
     Midway, New, Returnable, Template!GenTypeOK, Template!Gated, Template!Stages, Choosing,
     Refreshing, Template!Exists, Template!BackStop, Template!To, Template!template,
     Template!refresh, Template!Fine
<1>4. Each'
  <2> SUFFICES ASSUME NEW x \in Boxes PROVE EachOf(x)'
    BY DEF Each
  <2>1. EachOf(x) BY DEF GenInv, Each
  <2>2. CASE x = Template!One
    BY <2>1, <2>2, GenNames, GenSets, OneStays, OneMoves, OneInHand, OneInRefresh DEF EachOf,
       Absent, AsOne, Mounts, Left, Returnable, Refreshed, Refreshing, Choosing, Template!Exists,
       Template!Lower, GenInv, InHand, OnDisk, Template!GenTypeOK, Template!BackStop, Template!To,
       Template!template, Template!refresh, Template!Fine, Midway, Before, FilesBefore, New
  <2>3. CASE x # Template!One
    BY <2>1, <2>3, GenNames, GenSets, OneStays, OneMoves, OneInHand, OneInRefresh DEF EachOf,
       Absent, AsOne, Mounts, Left, Returnable, Refreshed, Refreshing, Choosing, Template!Exists,
       Template!Lower, GenInv, InHand, OnDisk, Template!GenTypeOK, Template!BackStop, Template!To,
       Template!template, Template!refresh, Template!Fine
  <2>. QED BY <2>2, <2>3
<1>5. Template!RequestKept'
  BY GenNames, GenSets, OneStays, OneMoves, OneInHand, OneInRefresh DEF GenInv, OnDisk,
     Template!RequestKept, Template!GenTypeOK, Template!BackStop, Template!To, Template!template,
     Template!refresh, Template!Fine
<1>. QED BY <1>1, <1>2, <1>3, <1>4, <1>5 DEF GenInv

(* the database put back,                                                    *)
LEMMA BackDatabaseKeeps == ASSUME GenInv, Template!BackDatabase PROVE GenInv'
<1>1. Template!GenTypeOK'
  <2>1. Template!One \in Boxes BY OneInRefresh DEF Template!BackDatabase, Refreshing
  <2>2. db' \in [Boxes -> Template!Data] /\ newDb' \in [Boxes -> Template!Data]
    BY <2>1 DEF GenInv, Template!GenTypeOK, Template!BackDatabase, Template!ExchangeDb,
       Template!Swapped
  <2>. QED
    BY <2>2 DEF GenInv, Template!GenTypeOK, Template!BackDatabase, Template!To, Template!Stages,
       Template!template, Template!Fine
<1>2. OnDisk'
  BY GenNames, GenSets, OneStays, OneMoves, OneInHand, OneInRefresh DEF GenInv, OnDisk, InHand,
     Template!GenTypeOK, Template!Gated, Template!Stages, Choosing, Refreshing,
     Template!BackDatabase, Template!To, Template!Swapped, Template!ExchangeDb, Template!template,
     Template!Fine
<1>3. InHand'
  BY GenNames, GenSets, OneStays, OneMoves, OneInHand, OneInRefresh DEF GenInv, InHand, OnDisk,
     Midway, New, Returnable, Template!GenTypeOK, Template!Gated, Template!Stages, Choosing,
     Refreshing, Template!Exists, Template!BackDatabase, Template!To, Template!Swapped,
     Template!ExchangeDb, Template!template, Template!Fine
<1>4. Each'
  <2> SUFFICES ASSUME NEW x \in Boxes PROVE EachOf(x)'
    BY DEF Each
  <2>1. EachOf(x) BY DEF GenInv, Each
  <2>2. CASE x = Template!One
    BY <2>1, <2>2, GenNames, GenSets, OneStays, OneMoves, OneInHand, OneInRefresh DEF EachOf,
       Absent, AsOne, Mounts, Left, Returnable, Refreshed, Refreshing, Choosing, Template!Exists,
       Template!Lower, GenInv, InHand, OnDisk, Template!GenTypeOK, Template!BackDatabase,
       Template!To, Template!Swapped, Template!ExchangeDb, Template!template, Template!Fine,
       Midway, Before, FilesBefore, New
  <2>3. CASE x # Template!One
    BY <2>1, <2>3, GenNames, GenSets, OneStays, OneMoves, OneInHand, OneInRefresh DEF EachOf,
       Absent, AsOne, Mounts, Left, Returnable, Refreshed, Refreshing, Choosing, Template!Exists,
       Template!Lower, GenInv, InHand, OnDisk, Template!GenTypeOK, Template!BackDatabase,
       Template!To, Template!Swapped, Template!ExchangeDb, Template!template, Template!Fine
  <2>. QED BY <2>2, <2>3
<1>5. Template!RequestKept'
  BY GenNames, GenSets, OneStays, OneMoves, OneInHand, OneInRefresh DEF GenInv, OnDisk,
     Template!RequestKept, Template!GenTypeOK, Template!BackDatabase, Template!To,
     Template!Swapped, Template!ExchangeDb, Template!template, Template!Fine
<1>. QED BY <1>1, <1>2, <1>3, <1>4, <1>5 DEF GenInv

(* the files,                                                                *)
LEMMA BackFilesKeeps == ASSUME GenInv, Template!BackFiles PROVE GenInv'
<1>1. Template!GenTypeOK'
  <2>1. Template!One \in Boxes BY OneInRefresh DEF Template!BackFiles, Refreshing
  <2>2. deltas' \in [Boxes -> Template!Data] /\ newUp' \in [Boxes -> Template!Data]
    BY <2>1 DEF GenInv, Template!GenTypeOK, Template!BackFiles, Template!ExchangeFiles,
       Template!ReturnFiles, Template!SwappedFiles
  <2>. QED
    BY <2>2 DEF GenInv, Template!GenTypeOK, Template!BackFiles, Template!To, Template!Stages,
       Template!template, Template!Fine
<1>2. OnDisk'
  BY GenNames, GenSets, OneStays, OneMoves, OneInHand, OneInRefresh DEF GenInv, OnDisk, InHand,
     Template!GenTypeOK, Template!Gated, Template!Stages, Choosing, Refreshing,
     Template!BackFiles, Template!To, Template!ReturnFiles, Template!template, Template!Fine,
     Template!SwappedFiles, Template!ExchangeFiles
<1>3. InHand'
  BY GenNames, GenSets, OneStays, OneMoves, OneInHand, OneInRefresh DEF GenInv, InHand, OnDisk,
     Midway, New, Returnable, Template!GenTypeOK, Template!Gated, Template!Stages, Choosing,
     Refreshing, Template!Exists, Template!BackFiles, Template!To, Template!ReturnFiles,
     Template!template, Template!Fine, Template!SwappedFiles, Template!ExchangeFiles
<1>4. Each'
  <2> SUFFICES ASSUME NEW x \in Boxes PROVE EachOf(x)'
    BY DEF Each
  <2>1. EachOf(x) BY DEF GenInv, Each
  <2>2. CASE x = Template!One
    BY <2>1, <2>2, GenNames, GenSets, OneStays, OneMoves, OneInHand, OneInRefresh DEF EachOf,
       Absent, AsOne, Mounts, Left, Returnable, Refreshed, Refreshing, Choosing, Template!Exists,
       Template!Lower, GenInv, InHand, OnDisk, Template!GenTypeOK, Template!BackFiles,
       Template!To, Template!ReturnFiles, Template!template, Template!Fine, Template!SwappedFiles,
       Template!ExchangeFiles, Midway, Before, FilesBefore, New
  <2>3. CASE x # Template!One
    BY <2>1, <2>3, GenNames, GenSets, OneStays, OneMoves, OneInHand, OneInRefresh DEF EachOf,
       Absent, AsOne, Mounts, Left, Returnable, Refreshed, Refreshing, Choosing, Template!Exists,
       Template!Lower, GenInv, InHand, OnDisk, Template!GenTypeOK, Template!BackFiles,
       Template!To, Template!ReturnFiles, Template!template, Template!Fine, Template!SwappedFiles,
       Template!ExchangeFiles
  <2>. QED BY <2>2, <2>3
<1>5. Template!RequestKept'
  BY GenNames, GenSets, OneStays, OneMoves, OneInHand, OneInRefresh DEF GenInv, OnDisk,
     Template!RequestKept, Template!GenTypeOK, Template!BackFiles, Template!To,
     Template!ReturnFiles, Template!template, Template!Fine, Template!SwappedFiles,
     Template!ExchangeFiles
<1>. QED BY <1>1, <1>2, <1>3, <1>4, <1>5 DEF GenInv

(* the pin;                                                                  *)
LEMMA BackPinKeeps == ASSUME GenInv, Template!BackPin PROVE GenInv'
<1>1. Template!GenTypeOK'
  BY GenNames, GenSets, OneStays, OneMoves, OneInHand, OneInRefresh DEF GenInv, OnDisk, InHand,
     Template!GenTypeOK, Template!Stages, Choosing, Refreshing, Template!BackPin, Template!To,
     Template!template, Template!refresh, Template!Fine
<1>2. OnDisk'
  BY GenNames, GenSets, OneStays, OneMoves, OneInHand, OneInRefresh DEF GenInv, OnDisk, InHand,
     Template!GenTypeOK, Template!Gated, Template!Stages, Choosing, Refreshing, Template!BackPin,
     Template!To, Template!template, Template!refresh, Template!Fine
<1>3. InHand'
  BY GenNames, GenSets, OneStays, OneMoves, OneInHand, OneInRefresh DEF GenInv, InHand, OnDisk,
     Midway, New, Returnable, Template!GenTypeOK, Template!Gated, Template!Stages, Choosing,
     Refreshing, Template!Exists, Template!BackPin, Template!To, Template!template,
     Template!refresh, Template!Fine
<1>4. Each'
  <2> SUFFICES ASSUME NEW x \in Boxes PROVE EachOf(x)'
    BY DEF Each
  <2>1. EachOf(x) BY DEF GenInv, Each
  <2>2. CASE x = Template!One
    BY <2>1, <2>2, GenNames, GenSets, OneStays, OneMoves, OneInHand, OneInRefresh DEF EachOf,
       Absent, AsOne, Mounts, Left, Returnable, Refreshed, Refreshing, Choosing, Template!Exists,
       Template!Lower, GenInv, InHand, OnDisk, Template!GenTypeOK, Template!BackPin, Template!To,
       Template!template, Template!refresh, Template!Fine, Midway, Before, FilesBefore, New
  <2>3. CASE x # Template!One
    BY <2>1, <2>3, GenNames, GenSets, OneStays, OneMoves, OneInHand, OneInRefresh DEF EachOf,
       Absent, AsOne, Mounts, Left, Returnable, Refreshed, Refreshing, Choosing, Template!Exists,
       Template!Lower, GenInv, InHand, OnDisk, Template!GenTypeOK, Template!BackPin, Template!To,
       Template!template, Template!refresh, Template!Fine
  <2>. QED BY <2>2, <2>3
<1>5. Template!RequestKept'
  BY GenNames, GenSets, OneStays, OneMoves, OneInHand, OneInRefresh DEF GenInv, OnDisk,
     Template!RequestKept, Template!GenTypeOK, Template!BackPin, Template!To, Template!template,
     Template!refresh, Template!Fine
<1>. QED BY <1>1, <1>2, <1>3, <1>4, <1>5 DEF GenInv

(* the old generation is mounted                                             *)
LEMMA BackMountKeeps == ASSUME GenInv, Template!BackMount PROVE GenInv'
<1>1. Template!GenTypeOK'
  BY GenNames, GenSets, OneStays, OneMoves, OneInHand, OneInRefresh DEF GenInv, OnDisk, InHand,
     Template!GenTypeOK, Template!Stages, Choosing, Refreshing, Template!BackMount,
     Template!Mounted, Template!To, Template!template, Template!refresh, Template!Fine,
     Template!Lower
<1>2. OnDisk'
  BY GenNames, GenSets, OneStays, OneMoves, OneInHand, OneInRefresh DEF GenInv, OnDisk, InHand,
     Template!GenTypeOK, Template!Gated, Template!Stages, Choosing, Refreshing,
     Template!BackMount, Template!Mounted, Template!To, Template!template, Template!refresh,
     Template!Fine, Template!Lower
<1>3. InHand'
  BY GenNames, GenSets, OneStays, OneMoves, OneInHand, OneInRefresh DEF GenInv, InHand, OnDisk,
     Midway, New, Returnable, Template!GenTypeOK, Template!Gated, Template!Stages, Choosing,
     Refreshing, Template!Exists, Template!BackMount, Template!Mounted, Template!To,
     Template!template, Template!refresh, Template!Fine, Template!Lower
<1>4. Each'
  <2> SUFFICES ASSUME NEW x \in Boxes PROVE EachOf(x)'
    BY DEF Each
  <2>1. EachOf(x) BY DEF GenInv, Each
  <2>2. CASE x = Template!One
    BY <2>1, <2>2, GenNames, GenSets, OneStays, OneMoves, OneInHand, OneInRefresh DEF EachOf,
       Absent, AsOne, Mounts, Left, Returnable, Refreshed, Refreshing, Choosing, Template!Exists,
       Template!Lower, GenInv, InHand, OnDisk, Template!GenTypeOK, Template!BackMount,
       Template!Mounted, Template!To, Template!template, Template!refresh, Template!Fine, Midway,
       Before, FilesBefore, New
  <2>3. CASE x # Template!One
    BY <2>1, <2>3, GenNames, GenSets, OneStays, OneMoves, OneInHand, OneInRefresh DEF EachOf,
       Absent, AsOne, Mounts, Left, Returnable, Refreshed, Refreshing, Choosing, Template!Exists,
       Template!Lower, GenInv, InHand, OnDisk, Template!GenTypeOK, Template!BackMount,
       Template!Mounted, Template!To, Template!template, Template!refresh, Template!Fine
  <2>. QED BY <2>2, <2>3
<1>5. Template!RequestKept'
  BY GenNames, GenSets, OneStays, OneMoves, OneInHand, OneInRefresh DEF GenInv, OnDisk,
     Template!RequestKept, Template!GenTypeOK, Template!BackMount, Template!Mounted, Template!To,
     Template!template, Template!refresh, Template!Fine, Template!Lower
<1>. QED BY <1>1, <1>2, <1>3, <1>4, <1>5 DEF GenInv

(* and the container started as it was.                                      *)
LEMMA BackStartKeeps == ASSUME GenInv, Template!BackStart PROVE GenInv'
<1>1. Template!GenTypeOK'
  BY GenNames, GenSets, OneStays, OneMoves, OneInHand, OneInRefresh DEF GenInv, OnDisk, InHand,
     Template!GenTypeOK, Template!Stages, Choosing, Refreshing, Template!BackStart, Template!To,
     Template!template, Template!refresh, Template!Fine
<1>2. OnDisk'
  BY GenNames, GenSets, OneStays, OneMoves, OneInHand, OneInRefresh DEF GenInv, OnDisk, InHand,
     Template!GenTypeOK, Template!Gated, Template!Stages, Choosing, Refreshing,
     Template!BackStart, Template!To, Template!template, Template!refresh, Template!Fine
<1>3. InHand'
  BY GenNames, GenSets, OneStays, OneMoves, OneInHand, OneInRefresh DEF GenInv, InHand, OnDisk,
     Midway, New, Returnable, Template!GenTypeOK, Template!Gated, Template!Stages, Choosing,
     Refreshing, Template!Exists, Template!BackStart, Template!To, Template!template,
     Template!refresh, Template!Fine
<1>4. Each'
  <2> SUFFICES ASSUME NEW x \in Boxes PROVE EachOf(x)'
    BY DEF Each
  <2>1. EachOf(x) BY DEF GenInv, Each
  <2>2. CASE x = Template!One
    BY <2>1, <2>2, GenNames, GenSets, OneStays, OneMoves, OneInHand, OneInRefresh DEF EachOf,
       Absent, AsOne, Mounts, Left, Returnable, Refreshed, Refreshing, Choosing, Template!Exists,
       Template!Lower, GenInv, InHand, OnDisk, Template!GenTypeOK, Template!BackStart,
       Template!To, Template!template, Template!refresh, Template!Fine, Midway, Before,
       FilesBefore, New
  <2>3. CASE x # Template!One
    BY <2>1, <2>3, GenNames, GenSets, OneStays, OneMoves, OneInHand, OneInRefresh DEF EachOf,
       Absent, AsOne, Mounts, Left, Returnable, Refreshed, Refreshing, Choosing, Template!Exists,
       Template!Lower, GenInv, InHand, OnDisk, Template!GenTypeOK, Template!BackStart,
       Template!To, Template!template, Template!refresh, Template!Fine
  <2>. QED BY <2>2, <2>3
<1>5. Template!RequestKept'
  BY GenNames, GenSets, OneStays, OneMoves, OneInHand, OneInRefresh DEF GenInv, OnDisk,
     Template!RequestKept, Template!GenTypeOK, Template!BackStart, Template!To, Template!template,
     Template!refresh, Template!Fine
<1>. QED BY <1>1, <1>2, <1>3, <1>4, <1>5 DEF GenInv

(* The way back fails: the journal stays.                                    *)
LEMMA BackFailsKeeps == ASSUME GenInv, Template!BackFails PROVE GenInv'
<1>1. Template!GenTypeOK'
  BY GenNames, GenSets, OneStays DEF GenInv, OnDisk, InHand, Template!GenTypeOK, Template!Stages,
     Choosing, Refreshing, Template!BackFails, Template!Mishap, Template!To, Template!template,
     Template!box, Template!refresh
<1>2. OnDisk'
  BY GenNames, GenSets, OneStays DEF GenInv, OnDisk, InHand, Template!GenTypeOK, Template!Gated,
     Template!Stages, Choosing, Refreshing, Template!BackFails, Template!Mishap, Template!To,
     Template!template, Template!box, Template!refresh
<1>3. InHand'
  BY GenNames, GenSets, OneStays DEF GenInv, InHand, OnDisk, Template!GenTypeOK, Template!Gated,
     Template!Stages, Choosing, Refreshing, Template!Exists, Template!BackFails, Template!Mishap,
     Template!To, Template!template, Template!box, Template!refresh
<1>4. Each'
  <2> SUFFICES ASSUME NEW x \in Boxes PROVE EachOf(x)'
    BY DEF Each
  <2>1. EachOf(x) BY DEF GenInv, Each
  <2>. QED
    BY <2>1, GenNames, GenSets, OneStays DEF EachOf, Absent, AsOne, Mounts, Left, Returnable,
       Refreshed, Refreshing, Choosing, Template!Exists, Template!Lower, GenInv, InHand, OnDisk,
       Template!GenTypeOK, Template!BackFails, Template!Mishap, Template!To, Template!template,
       Template!box, Template!refresh, Midway, Before, FilesBefore, New
<1>5. Template!RequestKept'
  BY GenNames, GenSets, OneStays DEF GenInv, OnDisk, Template!RequestKept, Template!GenTypeOK,
     Template!BackFails, Template!Mishap, Template!To, Template!template, Template!box,
     Template!refresh
<1>. QED BY <1>1, <1>2, <1>3, <1>4, <1>5 DEF GenInv

(* Generations that nobody refers to are deleted.                            *)
LEMMA CollectKeeps == ASSUME GenInv, Template!Collect PROVE GenInv'
<1>1. Template!GenTypeOK'
  BY GenNames, GenSets, OneStays DEF GenInv, OnDisk, InHand, Template!GenTypeOK, Template!Stages,
     Choosing, Refreshing, Template!Collect, Template!Collected, Template!Stop, Template!Answered,
     Template!box, Template!refresh, Template!Fine, Template!Journaled, Template!Referenced
<1>2. OnDisk'
  BY GenNames, GenSets, OneStays DEF GenInv, OnDisk, InHand, Template!GenTypeOK, Template!Gated,
     Template!Stages, Choosing, Refreshing, Template!Collect, Template!Collected, Template!Stop,
     Template!Answered, Template!box, Template!refresh, Template!Fine, Template!Journaled,
     Template!Referenced
<1>3. InHand'
  BY GenNames, GenSets, OneStays DEF GenInv, InHand, OnDisk, Template!GenTypeOK, Template!Gated,
     Template!Stages, Choosing, Refreshing, Template!Exists, Template!Collect, Template!Collected,
     Template!Stop, Template!Answered, Template!box, Template!refresh, Template!Fine,
     Template!Journaled, Template!Referenced
<1>4. Each'
  <2> SUFFICES ASSUME NEW x \in Boxes PROVE EachOf(x)'
    BY DEF Each
  <2>1. EachOf(x) BY DEF GenInv, Each
  <2>. QED
    BY <2>1, GenNames, GenSets, OneStays DEF EachOf, Absent, AsOne, Mounts, Left, Returnable,
       Refreshed, Refreshing, Choosing, Template!Exists, Template!Lower, GenInv, InHand, OnDisk,
       Template!GenTypeOK, Template!Collect, Template!Collected, Template!Stop, Template!Answered,
       Template!box, Template!refresh, Template!Fine, Template!Journaled, Template!Referenced,
       Midway, Before, FilesBefore, New
<1>5. Template!RequestKept'
  BY GenNames, GenSets, OneStays DEF GenInv, OnDisk, Template!RequestKept, Template!GenTypeOK,
     Template!Collect, Template!Collected, Template!Stop, Template!Answered, Template!box,
     Template!refresh, Template!Fine, Template!Journaled, Template!Referenced
<1>. QED BY <1>1, <1>2, <1>3, <1>4, <1>5 DEF GenInv

(* The host restarts, and the mounts are gone;                               *)
LEMMA RebootKeeps == ASSUME GenInv, Template!Reboot PROVE GenInv'
<1>1. Template!GenTypeOK'
  BY GenNames, GenSets, OneStays DEF GenInv, OnDisk, InHand, Template!GenTypeOK, Template!Stages,
     Choosing, Refreshing, Template!Reboot, Template!Stop, Template!Answered, Template!template,
     Template!refresh
<1>2. OnDisk'
  BY GenNames, GenSets, OneStays DEF GenInv, OnDisk, InHand, Template!GenTypeOK, Template!Gated,
     Template!Stages, Choosing, Refreshing, Template!Reboot, Template!Stop, Template!Answered,
     Template!template, Template!refresh
<1>3. InHand'
  BY GenNames, GenSets, OneStays DEF GenInv, InHand, OnDisk, Template!GenTypeOK, Template!Gated,
     Template!Stages, Choosing, Refreshing, Template!Exists, Template!Reboot, Template!Stop,
     Template!Answered, Template!template, Template!refresh
<1>4. Each'
  <2> SUFFICES ASSUME NEW x \in Boxes PROVE EachOf(x)'
    BY DEF Each
  <2>1. EachOf(x) BY DEF GenInv, Each
  <2>. QED
    BY <2>1, GenNames, GenSets, OneStays DEF EachOf, Absent, AsOne, Mounts, Left, Returnable,
       Refreshed, Refreshing, Choosing, Template!Exists, Template!Lower, GenInv, InHand, OnDisk,
       Template!GenTypeOK, Template!Reboot, Template!Stop, Template!Answered, Template!template,
       Template!refresh, Midway, Before, FilesBefore, New
<1>5. Template!RequestKept'
  BY GenNames, GenSets, OneStays DEF GenInv, OnDisk, Template!RequestKept, Template!GenTypeOK,
     Template!Reboot, Template!Stop, Template!Answered, Template!template, Template!refresh
<1>. QED BY <1>1, <1>2, <1>3, <1>4, <1>5 DEF GenInv

(* those without a journal are mounted again.                                *)
LEMMA ReconcileKeeps == ASSUME GenInv, Template!Reconcile PROVE GenInv'
<1>1. Template!GenTypeOK'
  BY GenNames, GenSets, OneStays DEF GenInv, OnDisk, InHand, Template!GenTypeOK, Template!Stages,
     Choosing, Refreshing, Template!Reconcile, Template!Open, Template!Exists, Template!Journaled,
     Template!Lower, Template!template, Template!refresh, Template!worker, Template!Fine
<1>2. OnDisk'
  BY GenNames, GenSets, OneStays DEF GenInv, OnDisk, InHand, Template!GenTypeOK, Template!Gated,
     Template!Stages, Choosing, Refreshing, Template!Reconcile, Template!Open, Template!Exists,
     Template!Journaled, Template!Lower, Template!template, Template!refresh, Template!worker,
     Template!Fine
<1>3. InHand'
  BY GenNames, GenSets, OneStays DEF GenInv, InHand, OnDisk, Template!GenTypeOK, Template!Gated,
     Template!Stages, Choosing, Refreshing, Template!Exists, Template!Reconcile, Template!Open,
     Template!Journaled, Template!Lower, Template!template, Template!refresh, Template!worker,
     Template!Fine
<1>4. Each'
  <2> SUFFICES ASSUME NEW x \in Boxes PROVE EachOf(x)'
    BY DEF Each
  <2>1. EachOf(x) BY DEF GenInv, Each
  <2>2. /\ UNCHANGED <<copies, live, db, deltas, pin, on, note, newDb, newUp, stage, gen, moving>>
        /\ stage \notin Template!Gated
    BY DEF Template!Reconcile, Template!Open, Template!template, Template!refresh, Template!worker
  <2>3. lower'[x] = IF Template!Exists(x) /\ note[x] = Nothing /\ lower[x] = 0
                    THEN Template!Lower(x, pin[x]) ELSE lower[x]
    BY DEF Template!Reconcile, Template!Journaled
  <2>4. ~Refreshed(x) /\ ~Refreshed(x)'
    BY <2>2 DEF Refreshed, Refreshing, Template!Gated, Template!Stages
  <2>5. Template!Lower(x, pin[x]) # 0 BY DEF GenInv, OnDisk, Template!Lower
  <2>. QED
    BY <2>1, <2>2, <2>3, <2>4, <2>5 DEF EachOf, Absent, AsOne, Mounts, Left, Returnable,
       Template!Exists, Template!Lower
<1>5. Template!RequestKept'
  BY GenNames, GenSets, OneStays DEF GenInv, OnDisk, Template!RequestKept, Template!GenTypeOK,
     Template!Reconcile, Template!Open, Template!Exists, Template!Journaled, Template!Lower,
     Template!template, Template!refresh, Template!worker, Template!Fine
<1>. QED BY <1>1, <1>2, <1>3, <1>4, <1>5 DEF GenInv

(* An environment is created,                                                *)
LEMMA CreateKeeps == ASSUME GenInv, NEW q \in Boxes, Template!Create(q) PROVE GenInv'
<1>1. Template!GenTypeOK'
  BY GenNames, GenSets, OneStays DEF GenInv, OnDisk, InHand, Template!GenTypeOK, Template!Stages,
     Choosing, Refreshing, Template!Create, Template!Open, Template!Exists, Template!template,
     Template!refresh, Template!worker, Template!Fine
<1>2. OnDisk'
  BY GenNames, GenSets, OneStays DEF GenInv, OnDisk, InHand, Template!GenTypeOK, Template!Gated,
     Template!Stages, Choosing, Refreshing, Template!Create, Template!Open, Template!Exists,
     Template!template, Template!refresh, Template!worker, Template!Fine
<1>3. InHand'
  BY GenNames, GenSets, OneStays DEF GenInv, InHand, OnDisk, Template!GenTypeOK, Template!Gated,
     Template!Stages, Choosing, Refreshing, Template!Exists, Template!Create, Template!Open,
     Template!template, Template!refresh, Template!worker, Template!Fine
<1>4. Each'
  <2> SUFFICES ASSUME NEW x \in Boxes PROVE EachOf(x)'
    BY DEF Each
  <2>1. EachOf(x) /\ EachOf(q) BY DEF GenInv, Each
  <2>2. /\ UNCHANGED <<copies, live, pin, note, newDb, newUp, stage, gen, moving, stale>>
        /\ stage \notin Template!Gated
    BY DEF Template!Create, Template!Open, Template!template, Template!refresh, Template!worker
  <2>3. [v |-> live.db, needs |-> live.files] # Nothing
    BY GenSets DEF GenInv, Template!GenTypeOK
  <2>4. /\ ~Refreshed(x) /\ ~Refreshed(x)' /\ live.files # 0 /\ ~Template!Exists(q) /\ Absent(q)
    BY <2>1, <2>2 DEF Refreshed, Refreshing, Template!Gated, Template!Stages, GenInv, OnDisk,
       EachOf, Template!Create
  <2>5. CASE x = q
    <3>1. /\ db'[x] = [v |-> live.db, needs |-> live.files] /\ deltas'[x] = db'[x]
          /\ lower'[x] = live.files
      BY <2>5 DEF Template!Create, GenInv, Template!GenTypeOK
    <3>. QED
      BY <2>2, <2>3, <2>4, <2>5, <3>1 DEF EachOf, Absent, AsOne, Mounts, Template!Exists,
         Template!Lower
  <2>6. CASE x # q
    <3>1. db'[x] = db[x] /\ deltas'[x] = deltas[x] /\ lower'[x] = lower[x] /\ on'[x] = on[x]
      BY <2>6 DEF Template!Create, GenInv, Template!GenTypeOK
    <3>. QED
      BY <2>1, <2>2, <2>4, <3>1 DEF EachOf, Absent, AsOne, Mounts, Left, Returnable,
         Template!Exists, Template!Lower
  <2>. QED BY <2>5, <2>6
<1>5. Template!RequestKept'
  BY GenNames, GenSets, OneStays DEF GenInv, OnDisk, Template!RequestKept, Template!GenTypeOK,
     Template!Create, Template!Open, Template!Exists, Template!template, Template!refresh,
     Template!worker, Template!Fine
<1>. QED BY <1>1, <1>2, <1>3, <1>4, <1>5 DEF GenInv

(* deleted, unless it has to be recovered,                                   *)
LEMMA GenDeleteKeeps == ASSUME GenInv, NEW q \in Boxes, Template!Delete(q) PROVE GenInv'
<1>1. Template!GenTypeOK'
  BY GenNames, GenSets, OneStays DEF GenInv, OnDisk, InHand, Template!GenTypeOK, Template!Stages,
     Choosing, Refreshing, Template!Delete, Template!Open, Template!Exists, Template!Journaled,
     Template!refresh, Template!worker, Template!Fine
<1>2. OnDisk'
  BY GenNames, GenSets, OneStays DEF GenInv, OnDisk, InHand, Template!GenTypeOK, Template!Gated,
     Template!Stages, Choosing, Refreshing, Template!Delete, Template!Open, Template!Exists,
     Template!Journaled, Template!refresh, Template!worker, Template!Fine
<1>3. InHand'
  BY GenNames, GenSets, OneStays DEF GenInv, InHand, OnDisk, Template!GenTypeOK, Template!Gated,
     Template!Stages, Choosing, Refreshing, Template!Exists, Template!Delete, Template!Open,
     Template!Journaled, Template!refresh, Template!worker, Template!Fine
<1>4. Each'
  <2> SUFFICES ASSUME NEW x \in Boxes PROVE EachOf(x)'
    BY DEF Each
  <2>1. EachOf(x) BY DEF GenInv, Each
  <2>. QED
    BY <2>1, GenNames, GenSets, OneStays DEF EachOf, Absent, AsOne, Mounts, Left, Returnable,
       Refreshed, Refreshing, Choosing, Template!Exists, Template!Lower, GenInv, InHand, OnDisk,
       Template!GenTypeOK, Template!Delete, Template!Open, Template!Journaled, Template!refresh,
       Template!worker, Template!Fine, Midway, Before, FilesBefore, New
<1>5. Template!RequestKept'
  BY GenNames, GenSets, OneStays DEF GenInv, OnDisk, Template!RequestKept, Template!GenTypeOK,
     Template!Delete, Template!Open, Template!Exists, Template!Journaled, Template!refresh,
     Template!worker, Template!Fine
<1>. QED BY <1>1, <1>2, <1>3, <1>4, <1>5 DEF GenInv

(* started,                                                                  *)
LEMMA StartEnvironmentKeeps ==
    ASSUME GenInv, NEW q \in Boxes, Template!StartEnvironment(q)
    PROVE GenInv'
<1>1. Template!GenTypeOK'
  BY GenNames, GenSets, OneStays DEF GenInv, OnDisk, InHand, Template!GenTypeOK, Template!Stages,
     Choosing, Refreshing, Template!StartEnvironment, Template!Open, Template!Startable,
     Template!Lower, Template!template, Template!refresh, Template!worker, Template!Fine,
     Template!Exists, Template!Journaled
<1>2. OnDisk'
  BY GenNames, GenSets, OneStays DEF GenInv, OnDisk, InHand, Template!GenTypeOK, Template!Gated,
     Template!Stages, Choosing, Refreshing, Template!StartEnvironment, Template!Open,
     Template!Startable, Template!Lower, Template!template, Template!refresh, Template!worker,
     Template!Fine, Template!Exists, Template!Journaled
<1>3. InHand'
  BY GenNames, GenSets, OneStays DEF GenInv, InHand, OnDisk, Template!GenTypeOK, Template!Gated,
     Template!Stages, Choosing, Refreshing, Template!Exists, Template!StartEnvironment,
     Template!Open, Template!Startable, Template!Lower, Template!template, Template!refresh,
     Template!worker, Template!Fine, Template!Journaled
<1>4. Each'
  <2> SUFFICES ASSUME NEW x \in Boxes PROVE EachOf(x)'
    BY DEF Each
  <2>1. EachOf(x) BY DEF GenInv, Each
  <2>. QED
    BY <2>1, GenNames, GenSets, OneStays DEF EachOf, Absent, AsOne, Mounts, Left, Returnable,
       Refreshed, Refreshing, Choosing, Template!Exists, Template!Lower, GenInv, InHand, OnDisk,
       Template!GenTypeOK, Template!StartEnvironment, Template!Open, Template!Startable,
       Template!template, Template!refresh, Template!worker, Template!Fine, Template!Journaled,
       Midway, Before, FilesBefore, New
<1>5. Template!RequestKept'
  BY GenNames, GenSets, OneStays DEF GenInv, OnDisk, Template!RequestKept, Template!GenTypeOK,
     Template!StartEnvironment, Template!Open, Template!Startable, Template!Lower,
     Template!template, Template!refresh, Template!worker, Template!Fine, Template!Exists,
     Template!Journaled
<1>. QED BY <1>1, <1>2, <1>3, <1>4, <1>5 DEF GenInv

(* or stopped.                                                               *)
LEMMA StopEnvironmentKeeps ==
    ASSUME GenInv, NEW q \in Boxes, Template!StopEnvironment(q)
    PROVE GenInv'
<1>1. Template!GenTypeOK'
  BY GenNames, GenSets, OneStays DEF GenInv, OnDisk, InHand, Template!GenTypeOK, Template!Stages,
     Choosing, Refreshing, Template!StopEnvironment, Template!Open, Template!Journaled,
     Template!template, Template!refresh, Template!worker, Template!Fine
<1>2. OnDisk'
  BY GenNames, GenSets, OneStays DEF GenInv, OnDisk, InHand, Template!GenTypeOK, Template!Gated,
     Template!Stages, Choosing, Refreshing, Template!StopEnvironment, Template!Open,
     Template!Journaled, Template!template, Template!refresh, Template!worker, Template!Fine
<1>3. InHand'
  BY GenNames, GenSets, OneStays DEF GenInv, InHand, OnDisk, Template!GenTypeOK, Template!Gated,
     Template!Stages, Choosing, Refreshing, Template!Exists, Template!StopEnvironment,
     Template!Open, Template!Journaled, Template!template, Template!refresh, Template!worker,
     Template!Fine
<1>4. Each'
  <2> SUFFICES ASSUME NEW x \in Boxes PROVE EachOf(x)'
    BY DEF Each
  <2>1. EachOf(x) BY DEF GenInv, Each
  <2>. QED
    BY <2>1, GenNames, GenSets, OneStays DEF EachOf, Absent, AsOne, Mounts, Left, Returnable,
       Refreshed, Refreshing, Choosing, Template!Exists, Template!Lower, GenInv, InHand, OnDisk,
       Template!GenTypeOK, Template!StopEnvironment, Template!Open, Template!Journaled,
       Template!template, Template!refresh, Template!worker, Template!Fine, Midway, Before,
       FilesBefore, New
<1>5. Template!RequestKept'
  BY GenNames, GenSets, OneStays DEF GenInv, OnDisk, Template!RequestKept, Template!GenTypeOK,
     Template!StopEnvironment, Template!Open, Template!Journaled, Template!template,
     Template!refresh, Template!worker, Template!Fine
<1>. QED BY <1>1, <1>2, <1>3, <1>4, <1>5 DEF GenInv

(* At the start.                                                             *)
LEMMA GenInitially == Template!GenInit => GenInv
<1> SUFFICES ASSUME Template!GenInit PROVE GenInv
  OBVIOUS
<1>0. PICK some \in SUBSET Boxes :
        /\ db = [e \in Boxes |-> IF e \in some THEN [v |-> 1, needs |-> 1] ELSE Nothing]
        /\ lower = [e \in Boxes |-> IF e \in some THEN 1 ELSE 0]
        /\ on = [e \in Boxes |-> e \in some]
  BY DEF Template!GenInit
<1>1. Template!GenTypeOK
  <2>1. /\ db \in [Boxes -> Template!Data] /\ lower \in [Boxes -> Template!Backups]
        /\ on \in [Boxes -> BOOLEAN] /\ deltas = db
    BY <1>0, GenSets DEF Template!GenInit
  <2>2. /\ note \in [Boxes -> Template!Notes] /\ newDb \in [Boxes -> Template!Data]
        /\ newUp \in [Boxes -> Template!Data]
    BY GenSets DEF Template!GenInit
  <2>3. /\ pin \in [Boxes -> 0..MaxCopies] /\ snap \in [Boxes -> Template!Backups]
        /\ copies \in [Template!CopyIds -> Template!Backups]
    BY GenNames, GenSets DEF Template!GenInit
  <2>4. live \in [db : Template!Backups, files : Template!Backups, snap : Template!Backups]
    BY GenSets DEF Template!GenInit
  <2>5. /\ remote \in Template!Backups /\ queued \in BOOLEAN /\ asked \in Template!Backups
        /\ stage \in Template!Stages /\ inbox \in Template!Backups /\ gen \in 0..MaxCopies
        /\ moving \subseteq Boxes /\ opted \subseteq Boxes /\ stale \in BOOLEAN
        /\ mishaps \in 0..MaxMishaps /\ reboots \in 0..MaxReboots
    <3>1. /\ remote = 1 /\ queued = FALSE /\ asked = 0 /\ stage = "idle" /\ inbox = 0 /\ gen = 0
          /\ moving = {} /\ opted \subseteq Boxes /\ stale = FALSE /\ mishaps = 0 /\ reboots = 0
      BY DEF Template!GenInit
    <3>2. remote \in Template!Backups /\ asked \in Template!Backups /\ inbox \in Template!Backups
      BY <3>1, GenSets
    <3>3. gen \in 0..MaxCopies /\ mishaps \in 0..MaxMishaps /\ reboots \in 0..MaxReboots
      BY <3>1, GenNames
    <3>4. stage \in Template!Stages BY <3>1 DEF Template!Stages
    <3>. QED BY <3>1, <3>2, <3>3, <3>4
  <2>6. deltas \in [Boxes -> Template!Data] BY <2>1
  <2>. QED BY <2>1, <2>2, <2>3, <2>4, <2>5, <2>6 DEF Template!GenTypeOK
<1>2. OnDisk
  BY GenNames DEF Template!GenInit, OnDisk, Template!Gated, Template!Stages, Choosing, Refreshing
<1>3. InHand
  BY DEF Template!GenInit, InHand, Template!Gated, Template!Stages, Choosing, Refreshing
<1>4. Each
  <2> SUFFICES ASSUME NEW x \in Boxes PROVE EachOf(x)
    BY DEF Each
  <2>1. [v |-> 1, needs |-> 1] # Nothing BY GenSets
  <2>2. /\ deltas[x] = db[x] /\ pin[x] = 0 /\ note[x] = Nothing /\ newDb[x] = Nothing
        /\ newUp[x] = Nothing /\ live.files = 1 /\ stage = "idle"
    BY DEF Template!GenInit
  <2>3. ~Refreshed(x) BY <2>2 DEF Refreshed, Refreshing
  <2>4. \/ db[x] = [v |-> 1, needs |-> 1] /\ lower[x] = 1 /\ on[x]
        \/ db[x] = Nothing /\ lower[x] = 0 /\ ~on[x]
    BY <1>0
  <2>. QED
    BY <2>1, <2>2, <2>3, <2>4 DEF EachOf, Absent, AsOne, Mounts, Template!Exists, Template!Lower
<1>5. Template!RequestKept BY DEF Template!GenInit, Template!RequestKept
<1>. QED BY <1>1, <1>2, <1>3, <1>4, <1>5 DEF GenInv

(* A step of another component.                                              *)
LEMMA GenStands == ASSUME GenInv, UNCHANGED genVars PROVE GenInv'
<1>1. /\ UNCHANGED <<remote, queued, asked, live, copies, db, deltas, lower, pin, snap, on, opted>>
      /\ UNCHANGED <<note, newDb, newUp, stage, inbox, gen, moving, stale, mishaps, reboots>>
  BY DEF genVars
<1>2. Template!One' = Template!One BY <1>1, OneStays
<1>3. Template!GenTypeOK' BY <1>1 DEF GenInv, Template!GenTypeOK
<1>4. OnDisk' /\ InHand' BY <1>1, <1>2 DEF GenInv, OnDisk, InHand, Template!Exists
<1>5. Each'
  <2> SUFFICES ASSUME NEW x \in Boxes PROVE EachOf(x)'
    BY DEF Each
  <2>1. EachOf(x) BY DEF GenInv, Each
  <2>. QED
    BY <1>1, <1>2, <2>1 DEF EachOf, Absent, AsOne, Mounts, Left, Returnable, Midway, Before,
       FilesBefore, New, Refreshed, Template!Exists, Template!Lower
<1>6. Template!RequestKept' BY <1>1 DEF GenInv, Template!RequestKept
<1>. QED BY <1>3, <1>4, <1>5, <1>6 DEF GenInv

(* Every step of the generations.                                            *)
LEMMA GenStep == ASSUME GenInv, Template!GenNext PROVE GenInv'
<1>1. CASE Template!Publish \/ Template!RequestRun \/ Template!StartRun \/ Template!Transfer
           \/ Template!RunFails \/ Template!WorkerDies \/ Template!Defer
  BY <1>1, PublishKeeps, RequestRunKeeps, StartRunKeeps, TransferKeeps, RunFailsKeeps,
     GenWorkerDiesKeeps, DeferKeeps
<1>2. CASE Template!EnterGate \/ Template!PinExisting \/ Template!PinHalf \/ Template!ImportDatabase
           \/ Template!ImportFiles \/ Template!RecordSnapshot \/ Template!Choose
  BY <1>2, EnterGateKeeps, PinExistingKeeps, PinHalfKeeps, ImportDatabaseKeeps, ImportFilesKeeps,
     RecordSnapshotKeeps, ChooseKeeps
<1>3. CASE Template!NextOne \/ Template!WriteJournal \/ Template!Sanitize \/ Template!SanitizeFails
           \/ Template!StopBox \/ Template!SwapDatabases \/ Template!SwapFiles
  BY <1>3, NextOneKeeps, WriteJournalKeeps, SanitizeKeeps, SanitizeFailsKeeps, StopBoxKeeps,
     SwapDatabasesKeeps, SwapFilesKeeps
<1>4. CASE Template!WritePin \/ Template!MountNew \/ Template!StartNew \/ Template!CleanUp
           \/ Template!CleanHalf \/ Template!Done
  BY <1>4, WritePinKeeps, MountNewKeeps, StartNewKeeps, CleanUpKeeps, CleanHalfKeeps, DoneKeeps
<1>5. CASE Template!RefreshFails \/ Template!BackStop \/ Template!BackDatabase \/ Template!BackFiles
           \/ Template!BackPin \/ Template!BackMount \/ Template!BackStart \/ Template!BackFails
  BY <1>5, RefreshFailsKeeps, BackStopKeeps, BackDatabaseKeeps, BackFilesKeeps, BackPinKeeps,
     BackMountKeeps, BackStartKeeps, BackFailsKeeps
<1>6. CASE Template!Collect \/ Template!Reboot \/ Template!Reconcile
  BY <1>6, CollectKeeps, RebootKeeps, ReconcileKeeps
<1>7. CASE \E q \in Boxes : Template!Create(q) \/ Template!Delete(q)
                            \/ Template!StartEnvironment(q) \/ Template!StopEnvironment(q)
  BY <1>7, CreateKeeps, GenDeleteKeeps, StartEnvironmentKeeps, StopEnvironmentKeeps
<1>. QED BY <1>1, <1>2, <1>3, <1>4, <1>5, <1>6, <1>7 DEF Template!GenNext

(* The template and its environments, when they are in focus.                *)
GenerationsHold == focus = "templates" => GenInv

(* The invariant of the generations, in every behaviour.                     *)
LEMMA GenerationsKept == FocusSpec => []GenerationsHold
<1>1. FocusInit => GenerationsHold BY GenInitially DEF FocusInit, Begun, GenerationsHold
<1>2. GenerationsHold /\ [FocusNext]_focusVars => GenerationsHold'
  <2>1. ASSUME GenerationsHold, FocusNext PROVE GenerationsHold'
    BY <2>1, GenStep DEF GenerationsHold, FocusNext
  <2>2. ASSUME GenerationsHold, UNCHANGED focusVars PROVE GenerationsHold'
    BY <2>2, GenStands DEF GenerationsHold, focusVars
  <2>. QED BY <2>1, <2>2
<1>. QED BY <1>1, <1>2, PTL DEF FocusSpec, focusVars

(* The template, its copies, the environments and the journals keep their    *)
(* types.                                                                    *)
THEOREM GenerationTypes == FocusSpec => [](focus = "templates" => Template!GenTypeOK)
<1>1. GenerationsHold => (focus = "templates" => Template!GenTypeOK)
  BY DEF GenerationsHold, GenInv
<1>. QED BY <1>1, GenerationsKept, PTL

(* A container of an environment never runs on half of two data sets,        *)
(* whatever a refresh was doing when it failed or died                       *)
(* (refresh_environment, ensure_overlay_mounted).                            *)
THEOREM OnePieceServed == FocusSpec => []ServesOnePiece
<1>1. GenerationsHold => ServesOnePiece
  <2> SUFFICES ASSUME GenInv, NEW e \in Boxes, on[e]
               PROVE  /\ deltas[e] = db[e]
                      /\ \/ lower[e] = db[e].needs
                         \/ stale /\ lower[e] = 0
                         \/ e \in Template!Journaled /\ lower[e] = 0
    BY DEF GenerationsHold, ServesOnePiece, Template!ServesOnePiece
  <2>1. EachOf(e) BY DEF GenInv, Each
  <2>2. Template!Exists(e) BY <2>1 DEF EachOf, Absent
  <2>3. CASE note[e] = Nothing BY <2>1, <2>2, <2>3 DEF EachOf, AsOne, Mounts
  <2>4. CASE note[e] # Nothing
    BY <2>1, <2>2, <2>4 DEF EachOf, Midway, Left, AsOne, Mounts, Template!Journaled
  <2>. QED BY <2>3, <2>4
<1>. QED BY <1>1, GenerationsKept, PTL

(* Until the new data is in place as a whole, all of the old data is on      *)
(* disk, the generation under it included (collect, the refresh journal).    *)
THEOREM RecoveryIsPossible == FocusSpec => []Recoverable
<1>1. GenerationsHold => Recoverable
  <2> SUFFICES ASSUME GenInv, NEW e \in Boxes, Template!Exists(e)
               PROVE  \/ Template!Whole(db[e], pin[e], {db[e]}, {deltas[e]})
                      \/ /\ e \in Template!Journaled
                         /\ Template!Whole(note[e].before, note[e].oldPin, {db[e], newDb[e]},
                                           {deltas[e], newUp[e]})
    BY DEF GenerationsHold, Recoverable, Template!Recoverable
  <2>1. EachOf(e) /\ (note[e] # Nothing => note[e].oldPin # 0) BY DEF GenInv, Each, OnDisk
  <2>2. AsOne(e) \/ (note[e] # Nothing /\ Returnable(e)) BY <2>1 DEF EachOf, Midway, Left
  <2>3. CASE AsOne(e) BY <2>3 DEF AsOne, Template!Whole, Template!Lower
  <2>4. CASE note[e] # Nothing /\ Returnable(e)
    BY <2>1, <2>4 DEF Returnable, Template!Whole, Template!Lower, Template!Journaled
  <2>. QED BY <2>2, <2>3, <2>4
<1>. QED BY <1>1, GenerationsKept, PTL

(* A request for new data is not forgotten before a run that has it ends     *)
(* (request_run, run).                                                    *)
THEOREM RequestsLast == FocusSpec => []RequestKept
<1>1. GenerationsHold => RequestKept BY DEF GenerationsHold, GenInv, RequestKept
<1>. QED BY <1>1, GenerationsKept, PTL

=============================================================================
