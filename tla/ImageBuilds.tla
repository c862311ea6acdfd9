------------------------------ MODULE ImageBuilds -------------------------------
(* Image builds of a team (image_builds.py, docker_ops/build_ops.py and the  *)
(* four tools of server.py): the job in the server's memory and in job.json, *)
(* the sealed context, the staging image, publication, and retention.        *)
(*                                                                           *)
(* A build runs in a thread of its own under no key. The tools look a job up *)
(* in memory under the store's lock and, if it is not there, in its file     *)
(* under none. A staging image is published and removed under its build's    *)
(* mutex. Who may see a job, logs and the push of each tag are left out;     *)
(* Services has the other user of staging images.                            *)
(* Definitions marked "Fault:" are plausible bugs no action uses.            *)
EXTENDS Naturals, FiniteSets, Sequences

CONSTANTS
    Builds,
    MaxActive,     \* max_concurrent_builds
    Keep,          \* keep_images, at least 1 (0 keeps them all)
    MaxBuildDeaths \* bound: deaths of the server

ASSUME BuildConstants == Keep \in Nat \ {0} /\ MaxBuildDeaths \in Nat

VARIABLES
    thread,        \* how far each build has come
    known,         \* its status in the server's memory
    active,        \* _active
    told,          \* the cancel events that are set
    file,          \* job.json: its status
    sealed,        \* the contexts on disk
    image,         \* the staging images
    ended,         \* the successful builds, oldest first
    doomed,        \* what the retention after a build is still to remove
    publishing,    \* the builds whose mutex a publication holds
    lookup,        \* a tool's lookup of a job that is not in memory
    buildDeaths

buildVars ==
    <<thread, known, active, told, file, sealed, image, ended, doomed, publishing, lookup, buildDeaths>>

Running == {"queued", "building"}
Terminal == {"succeeded", "failed", "cancelled", "interrupted"}

BuildTypeOK ==
    /\ thread \in [Builds -> {"unborn", "created", "saved", "sealed", "building", "decided",
                              "written", "retention", "pruning", "over"}]
    /\ {known, file} \subseteq [Builds -> {"none"} \cup Running \cup Terminal]
    /\ \A s \in {active, told, sealed, image, publishing} : s \subseteq Builds
    /\ ended \in Seq(Builds) /\ doomed \in [Builds -> SUBSET Builds]
    /\ lookup \in [Builds -> {"none", "stale", "marked"}] /\ buildDeaths \in 0..MaxBuildDeaths

BuildInit ==
    /\ thread = [b \in Builds |-> "unborn"]
    /\ known = [b \in Builds |-> "none"] /\ file = known /\ lookup = known
    /\ active = {} /\ told = {} /\ sealed = {} /\ image = {} /\ publishing = {}
    /\ ended = <<>> /\ doomed = [b \in Builds |-> {}] /\ buildDeaths = 0

-----------------------------------------------------------------------------
Goes(b, place) == thread' = [thread EXCEPT ![b] = place]
Status(b, s) == known' = [known EXCEPT ![b] = s]
Saved(b, s) == file' = [file EXCEPT ![b] = s]
Disk == <<file, sealed, image>>
Others == <<doomed, publishing, lookup, buildDeaths>>

(* start_image_build, under its environment's key: the job is in memory      *)
(* before it is on disk.                                                     *)
CreateJob(b) ==
    /\ thread[b] = "unborn" /\ Cardinality(active) < MaxActive
    /\ active' = active \cup {b} /\ Status(b, "queued") /\ Goes(b, "created")
    /\ UNCHANGED <<told, Disk, ended, Others>>

SaveJob(b) ==
    /\ thread[b] = "created"
    /\ \/ Saved(b, "queued") /\ Goes(b, "saved") /\ UNCHANGED <<active, told>>
       \/ /\ active' = active \ {b} /\ told' = told \ {b} /\ Goes(b, "over")
          /\ UNCHANGED file
    /\ UNCHANGED <<known, sealed, image, ended, Others>>

Decide(b, status) ==
    /\ Status(b, status) /\ Goes(b, "decided")
    /\ active' = active \ {b} /\ told' = told \ {b}
    /\ ended' = IF status = "succeeded" THEN Append(ended, b) ELSE ended

(* snapshot_context; what a failure leaves goes when the job is finished.    *)
SnapshotContext(b) ==
    /\ thread[b] = "saved"
    /\ sealed' = sealed \cup {b}
    /\ \/ Goes(b, "sealed") /\ UNCHANGED <<known, active, told, ended>>
       \/ Decide(b, "failed")
    /\ UNCHANGED <<file, image, Others>>

RunBuild(b) ==
    /\ thread[b] = "sealed"
    /\ Status(b, "building") /\ Saved(b, "building") /\ Goes(b, "building")
    /\ UNCHANGED <<active, told, sealed, image, ended, Others>>

(* The worker has built and tagged the image; nobody knows it yet.           *)
WorkerTags(b) ==
    /\ thread[b] = "building" /\ b \notin image
    /\ image' = image \cup {b}
    /\ UNCHANGED <<thread, known, active, told, file, sealed, ended, Others>>

(* finish, first half: under the store's lock, in memory. A build that is    *)
(* cancelled or times out may have its image.                                *)
WorkerEnds(b) ==
    /\ thread[b] = "building"
    /\ \/ Decide(b, "failed")
       \/ b \in told /\ Decide(b, "cancelled")
       \/ b \in image /\ Decide(b, "succeeded")
    /\ UNCHANGED <<Disk, Others>>

(* finish, second half: outside it.                                          *)
SaveOutcome(b) ==
    /\ thread[b] = "decided"
    /\ Saved(b, known[b]) /\ Goes(b, "written")
    /\ UNCHANGED <<known, active, told, sealed, image, ended, Others>>

DropContext(b) ==
    /\ thread[b] = "written"
    /\ sealed' = sealed \ {b}
    /\ Goes(b, IF known[b] = "succeeded" THEN "retention" ELSE "over")
    /\ UNCHANGED <<known, active, told, file, image, ended, Others>>

-----------------------------------------------------------------------------
(* Retention and publication.                                                *)
Successes == {i \in DOMAIN ended : file[ended[i]] = "succeeded"}

(* Fault: the list is sorted the other way.                                  *)
OldestFirst(n) ==
    {ended[i] : i \in {j \in Successes : Cardinality({k \in Successes : k < j}) >= n}}

(* All but the newest n that are recorded as successful.                     *)
Expendable(n) ==
    {ended[i] : i \in {j \in Successes : Cardinality({k \in Successes : k > j}) >= n}}

FindOld(b) ==
    /\ thread[b] = "retention"
    /\ doomed' = [doomed EXCEPT ![b] = Expendable(Keep)] /\ Goes(b, "pruning")
    /\ UNCHANGED <<known, active, told, Disk, ended, publishing, lookup, buildDeaths>>

Unpublished(v) == v \notin publishing

(* One image, unless a container is of it.                                   *)
PruneOne(b) ==
    /\ thread[b] = "pruning"
    /\ \/ \E v \in doomed[b] :
            /\ Unpublished(v)
            /\ doomed' = [doomed EXCEPT ![b] = @ \ {v}]
            /\ image' = image \ {v} \/ UNCHANGED image
            /\ UNCHANGED thread
       \/ doomed[b] = {} /\ Goes(b, "over") /\ UNCHANGED <<doomed, image>>
    /\ UNCHANGED <<known, active, told, file, sealed, ended, publishing, lookup, buildDeaths>>

(* publish_image_build; at the end it writes the job it loaded.              *)
Publish(b) ==
    /\ b \notin active /\ file[b] = "succeeded" /\ b \notin publishing /\ b \in image
    /\ publishing' = publishing \cup {b}
    /\ UNCHANGED <<thread, known, active, told, Disk, ended, doomed, lookup, buildDeaths>>

Published(b) ==
    /\ b \in publishing
    /\ publishing' = publishing \ {b} /\ Saved(b, "succeeded")
    /\ UNCHANGED <<thread, known, active, told, sealed, image, ended, doomed, lookup, buildDeaths>>

Cancel(b) ==
    /\ b \in active \ told /\ told' = told \cup {b}
    /\ UNCHANGED <<thread, known, active, Disk, ended, Others>>

-----------------------------------------------------------------------------
(* Fault: a lookup goes to the files only.                                   *)
FilesOnly(b) == FALSE

InMemory(b) == b \in active

(* BuildJobStore.load: not in memory, and its file says it runs.             *)
ReadStale(b) ==
    /\ ~InMemory(b) /\ file[b] \in Running /\ lookup[b] = "none"
    /\ lookup' = [lookup EXCEPT ![b] = "stale"]
    /\ UNCHANGED <<thread, known, active, told, Disk, ended, doomed, publishing, buildDeaths>>

MarkInterrupted(b) ==
    /\ lookup[b] = "stale"
    /\ Saved(b, "interrupted") /\ lookup' = [lookup EXCEPT ![b] = "marked"]
    /\ UNCHANGED <<thread, known, active, told, sealed, image, ended, doomed, publishing, buildDeaths>>

SweepContext(b) ==
    /\ lookup[b] = "marked"
    /\ sealed' = sealed \ {b} /\ lookup' = [lookup EXCEPT ![b] = "none"]
    /\ UNCHANGED <<thread, known, active, told, file, image, ended, doomed, publishing, buildDeaths>>

ServerDies ==
    /\ buildDeaths < MaxBuildDeaths /\ buildDeaths' = buildDeaths + 1
    /\ \E b \in Builds : thread[b] \notin {"unborn", "over"}
    /\ thread' = [b \in Builds |-> IF thread[b] = "unborn" THEN "unborn" ELSE "over"]
    /\ known' = [b \in Builds |-> "none"] /\ lookup' = known'
    /\ active' = {} /\ told' = {} /\ publishing' = {} /\ doomed' = [b \in Builds |-> {}]
    /\ UNCHANGED <<Disk, ended>>

BuildNext ==
    \/ \E b \in Builds :
         \/ CreateJob(b) \/ SaveJob(b) \/ SnapshotContext(b) \/ RunBuild(b) \/ WorkerTags(b)
         \/ WorkerEnds(b) \/ SaveOutcome(b) \/ DropContext(b) \/ FindOld(b) \/ PruneOne(b)
         \/ Publish(b) \/ Published(b) \/ Cancel(b)
         \/ ReadStale(b) \/ MarkInterrupted(b) \/ SweepContext(b)
    \/ ServerDies
BuildSpec == BuildInit /\ [][BuildNext]_buildVars

-----------------------------------------------------------------------------
(* A tool that looks at a build, before the server's restart or after it,    *)
(* never takes a live build for a dead one's remains: its context stays and  *)
(* its record is not that of an interrupted one (BuildJobStore.load).        *)
LiveBuildsKeepTheirContext ==
    \A b \in Builds : thread[b] \in {"sealed", "building"} =>
                         b \in sealed /\ file[b] \in Running /\ lookup[b] # "stale"

(* What can be published is there: a publication has its image until it has  *)
(* pushed every tag, and the images of the last keep_images builds that      *)
(* succeeded are never removed, however many retentions run at once.         *)
PublishableIsThere ==
    /\ publishing \subseteq image
    /\ \A i \in DOMAIN ended : i > Len(ended) - Keep => ended[i] \in image

(* What is on record of a build whose thread has ended is how it ended       *)
(* (load: "on-disk jobs left non-terminal by a dead process are marked       *)
(* interrupted here"). The code does not keep it: README.                    *)
OutcomeKept ==
    \A b \in Builds : thread[b] = "over" /\ lookup[b] = "none" /\ known[b] \in Terminal =>
                         file[b] = known[b]

=============================================================================
