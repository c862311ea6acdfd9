--------------------------- MODULE PostgresUpgrade ---------------------------
(* The major upgrade of the two PostgreSQL clusters at the start of a server  *)
(* (postgres_migration.py), under the lock of the data directory that servers *)
(* share (instance_lock.py): dump, delete the old archive, remove, create,    *)
(* restore, start the applications, restore the templates. A journal says how *)
(* far it came; every step may be the server's last, and the next start       *)
(* resumes, or cancels as long as no old cluster is gone.                     *)
(*                                                                            *)
(* Each cluster carries one database, whose content is the number of the last *)
(* write; the development cluster also holds a template's database.           *)
(* Definitions marked "Fault:" are plausible bugs no action uses.             *)
EXTENDS Naturals, FiniteSets

CONSTANTS
    Servers,         \* processes that serve the data directory
    Nobody, NoJournal,
    CommandsOverlap, \* whether a command of the command line may run while a server upgrades
    MaxWrites,       \* bound: writes to each database
    MaxFailures,     \* bound: deaths of the server and failures of steps
    MaxEdits,        \* bound: edits of [database].image and of the template's dump
    MaxStarts        \* bound: starts of the servers the operator does not restart

VARIABLES
    image, conf,     \* the major [database].image names; what each server read of it when it started
    vol, box, runs,  \* each cluster's volume and container, by their major, and whether it runs
    data, latest,    \* the database's content, and (history) the last write to it
    app, wanted,     \* whether the application on each cluster runs; (history) should run
    dump,            \* verified dumps under pg-upgrade/; 0: none
    tplDb, tplDump,  \* the template's database and its dump on disk
    archive, baseDue,\* the cluster whose base backups are in the WAL-G archive; one is requested
    journal,         \* postgres-upgrade.json
    up,              \* what each server does
    boss, at, todo, then,  \* the server that holds the lock alone; its place in the upgrade
    cli,             \* a command between its check for an upgrade and its end
    failures, configEdits, starts

settings == <<image, conf>>
clusters == <<vol, box, runs, data, tplDb>>
files == <<dump, tplDump, archive, baseDue, journal>>
process == <<up, boss, at, todo, then>>
bounds == <<failures, configEdits, starts>>
upVars == <<settings, clusters, latest, app, wanted, files, process, cli, bounds>>

Clusters == {"dev", "prod"}
Majors == {"none", "old", "new"}
Phases == {"out", "dump", "remove_old", "create_new", "restore", "done"}
Journals == [image : {"old", "new"}, phase : [Clusters -> Phases], wasRunning : SUBSET Clusters,
             stopped : SUBSET Clusters, deleting : BOOLEAN, deleted : BOOLEAN,
             started : BOOLEAN, template : {"listed", "settled"}]
Places == {"none", "resume", "plan", "stop", "dump", "retire", "clusters", "saving",
           "applications", "templates", "finish", "cancel", "cancel_dumps", "cancel_journal"}

ASSUME UpConstants ==
    /\ Nobody \notin Servers /\ NoJournal \notin Journals /\ CommandsOverlap \in BOOLEAN
    /\ MaxWrites \in Nat /\ MaxFailures \in Nat /\ MaxEdits \in Nat /\ MaxStarts \in Nat

UpTypeOK ==
    /\ image \in {"old", "new"} /\ conf \in [Servers -> {"old", "new"}]
    /\ vol \in [Clusters -> Majors] /\ box \in [Clusters -> Majors] /\ runs \in [Clusters -> BOOLEAN]
    /\ data \in [Clusters -> 0..MaxWrites + 1] /\ latest \in [Clusters -> 0..MaxWrites + 1]
    /\ app \in [Clusters -> BOOLEAN] /\ wanted \in [Clusters -> BOOLEAN]
    /\ dump \in [Clusters -> 0..MaxWrites + 1]
    /\ tplDb \in BOOLEAN /\ tplDump \in {"ok", "broken", "gone"}
    /\ archive \in Majors /\ baseDue \in BOOLEAN
    /\ journal \in Journals \cup {NoJournal}
    /\ up \in [Servers -> {"down", "booting", "upgrading", "serving"}]
    /\ boss \in Servers \cup {Nobody} /\ at \in Places /\ todo \subseteq Clusters
    /\ then \in {"plan", "exit"} /\ cli \in {"idle", "applying"}
    /\ failures \in 0..MaxFailures /\ configEdits \in 0..MaxEdits /\ starts \in 0..MaxStarts

(* An installation on the old major; production may be absent or disabled.   *)
UpInit ==
    /\ image = "old" /\ conf = [s \in Servers |-> "old"]
    /\ \E prod \in {"absent", "disabled", "running"} :
         /\ vol = [k \in Clusters |-> IF k = "prod" /\ prod = "absent" THEN "none" ELSE "old"]
         /\ box = vol
         /\ runs = [k \in Clusters |-> k = "dev" \/ prod = "running"]
         /\ data = [k \in Clusters |-> IF vol[k] = "none" THEN 0 ELSE 1]
         /\ archive = vol["prod"]
    /\ app = runs /\ wanted = runs
    /\ latest = data /\ dump = [k \in Clusters |-> 0]
    /\ tplDb = TRUE /\ tplDump \in {"ok", "broken"}
    /\ baseDue = FALSE /\ journal = NoJournal
    /\ up = [s \in Servers |-> "down"] /\ boss = Nobody /\ at = "none" /\ todo = {} /\ then = "plan"
    /\ cli = "idle" /\ failures = 0 /\ configEdits = 0 /\ starts = 0

-----------------------------------------------------------------------------
(* Judging the state.                                                        *)

Installed(k) == box[k] # "none"                      \* _initialized
Outdated(img) == img = "new" /\ \E k \in Clusters : Installed(k) /\ vol[k] = "old"
Intact(k) == box[k] = "old" /\ vol[k] = "old"
Planned == {k \in Clusters : journal.phase[k] # "out"}
Revocable ==
    \A k \in Planned : \/ journal.phase[k] = "dump"
                       \/ journal.phase[k] = "remove_old" /\ Intact(k)
Turn(K) == IF "dev" \in K THEN "dev" ELSE "prod"     \* clusters are handled in this order

Works == UNCHANGED bounds
Fails == failures < MaxFailures /\ failures' = failures + 1 /\ UNCHANGED <<configEdits, starts>>
Goto(place) == at' = place /\ UNCHANGED <<up, boss, todo, then>>
GotoWith(place, K) == at' = place /\ todo' = K /\ UNCHANGED <<up, boss, then>>
Exit ==
    /\ up' = [up EXCEPT ![boss] = "down"] /\ boss' = Nobody
    /\ at' = "none" /\ todo' = {} /\ then' = "plan"
CancelThen(next) == at' = "cancel" /\ then' = next /\ todo' = {} /\ UNCHANGED <<up, boss>>

-----------------------------------------------------------------------------
(* Servers: the shared lock, the check of the configuration, the lock alone. *)

Service == CHOOSE s \in Servers : TRUE     \* the one systemd restarts; the others are stdio clients' own

BootServer(s) ==
    /\ up[s] = "down" /\ boss = Nobody
    /\ up' = [up EXCEPT ![s] = "booting"] /\ conf' = [conf EXCEPT ![s] = image]
    /\ IF s = Service THEN Works
       ELSE starts < MaxStarts /\ starts' = starts + 1 /\ UNCHANGED <<failures, configEdits>>
    /\ UNCHANGED <<image, clusters, latest, app, wanted, files, boss, at, todo, then, cli>>

(* validate_configuration: a cluster is never downgraded.                    *)
RefuseImage(s) ==
    /\ up[s] = "booting"
    /\ conf[s] = "old" /\ \E k \in Clusters : Installed(k) /\ vol[k] = "new"
    /\ up' = [up EXCEPT ![s] = "down"]
    /\ UNCHANGED <<settings, clusters, latest, app, wanted, files, boss, at, todo, then, cli, bounds>>

ImageAllowed(img) == img = "new" \/ \A k \in Clusters : Installed(k) => vol[k] = "old"

(* init_system: production's cluster stays as it is (ensure_prod_infra waits  *)
(* for a production that runs).                                              *)
BroughtUp == [runs EXCEPT !["dev"] = TRUE]

(* upgrade returns at once.                                                  *)
ServeAsIs(s) ==
    /\ up[s] = "booting" /\ ImageAllowed(conf[s])
    /\ journal = NoJournal /\ ~Outdated(conf[s])
    /\ up' = [up EXCEPT ![s] = "serving"]
    /\ runs' = BroughtUp
    /\ UNCHANGED <<settings, vol, box, data, tplDb, latest, app, wanted, files, boss, at, todo, then, cli, bounds>>

(* exclusive: refused while any other server holds its shared lock.          *)
TakeOver(s) ==
    /\ up[s] = "booting" /\ ImageAllowed(conf[s])
    /\ journal # NoJournal \/ Outdated(conf[s])
    /\ CommandsOverlap \/ cli = "idle"
    /\ IF \E t \in Servers \ {s} : up[t] # "down"
         THEN /\ up' = [up EXCEPT ![s] = "down"] /\ UNCHANGED <<boss, at>>
         ELSE /\ up' = [up EXCEPT ![s] = "upgrading"] /\ boss' = s /\ at' = "resume"
    /\ UNCHANGED <<settings, clusters, latest, app, wanted, files, todo, then, cli, bounds>>

StopServer(s) ==
    /\ up[s] \in {"booting", "serving"}
    /\ up' = [up EXCEPT ![s] = "down"]
    /\ IF s = Service THEN Fails ELSE Works
    /\ UNCHANGED <<settings, clusters, latest, app, wanted, files, boss, at, todo, then, cli>>

(* A crash, the start-up watchdog's exit (startup_watchdog.py), a raised     *)
(* error that no handler of the upgrade answers.                             *)
Die ==
    /\ boss # Nobody /\ Exit /\ Fails
    /\ UNCHANGED <<settings, clusters, latest, app, wanted, files, cli>>

-----------------------------------------------------------------------------
(* _resume, _cancel, _plan.                                                  *)

Cancels == Revocable

Resume ==
    /\ at = "resume"
    /\ IF journal = NoJournal THEN Goto("plan")
       ELSE IF Cancels THEN CancelThen("plan")
       ELSE IF conf[boss] # journal.image THEN Exit
       ELSE GotoWith("clusters", {})
    /\ UNCHANGED <<settings, clusters, latest, app, wanted, files, cli>> /\ Works

(* Old clusters and applications run again; one that will not start is       *)
(* reported and left to the operator.                                        *)
Restarted(K) ==
    \/ app' = [k \in Clusters |-> app[k] \/ k \in K] /\ UNCHANGED wanted /\ Works
    \/ \E bad \in K :
         /\ app' = [k \in Clusters |-> app[k] \/ k \in K \ {bad}]
         /\ wanted' = [wanted EXCEPT ![bad] = FALSE]
         /\ Fails

Cancel ==
    /\ at = "cancel"
    /\ runs' = [k \in Clusters |-> runs[k] \/ (k \in Planned /\ k \in journal.wasRunning /\ box[k] = "old")]
    /\ Restarted(journal.stopped)
    /\ Goto("cancel_dumps")
    /\ UNCHANGED <<settings, vol, box, data, tplDb, latest, files, cli>>

(* Fault: only a complete deletion of the archive asks for a base backup.    *)
DeletionNotedLate == journal.deleted

DeletionNoted == journal.deleting

CancelDumps ==
    /\ at = "cancel_dumps"
    /\ baseDue' = (baseDue \/ DeletionNoted)
    /\ dump' = [k \in Clusters |-> 0]
    /\ Goto("cancel_journal")
    /\ UNCHANGED <<settings, clusters, latest, app, wanted, tplDump, archive, journal, cli>> /\ Works

CancelJournal ==
    /\ at = "cancel_journal"
    /\ journal' = NoJournal
    /\ IF then = "plan" THEN Goto("plan") ELSE Exit
    /\ UNCHANGED <<settings, clusters, latest, app, wanted, dump, tplDump, archive, baseDue, cli>> /\ Works

(* Clusters whose data is older than the image.                              *)
Aged == {k \in Clusters : Installed(k) /\ vol[k] = "old" /\ conf[boss] = "new"}

(* _inventory: what neither a dump taken now nor one on disk would carry     *)
(* over. The templates with a dump on disk are listed (_templates).          *)
WouldBeLost == tplDb /\ tplDump = "gone"
ListedTemplates == IF tplDump = "gone" THEN "settled" ELSE "listed"

NewJournal ==
    [image |-> conf[boss], phase |-> [k \in Clusters |-> IF k \in Aged THEN "dump" ELSE "out"],
     wasRunning |-> {k \in Aged : runs[k]}, stopped |-> {}, deleting |-> FALSE, deleted |-> FALSE,
     started |-> FALSE, template |-> ListedTemplates]

PlanClusters ==
    /\ at = "plan"
    /\ \/ /\ Aged = {}
          /\ up' = [up EXCEPT ![boss] = "serving"] /\ boss' = Nobody
          /\ at' = "none" /\ todo' = {} /\ then' = "plan"
          /\ runs' = BroughtUp
          /\ UNCHANGED journal /\ Works
       \/ /\ Aged # {} /\ WouldBeLost
          /\ Exit /\ UNCHANGED <<runs, journal>> /\ Works
       \/ /\ Aged # {} /\ ~WouldBeLost
          /\ journal' = NewJournal /\ Goto("stop") /\ UNCHANGED runs /\ Works
    /\ UNCHANGED <<settings, vol, box, data, tplDb, latest, app, wanted, dump, tplDump, archive, baseDue, cli>>

-----------------------------------------------------------------------------
(* _run: stop the applications, dump, verify.                                *)

Affected == {k \in Clusters : app[k] /\ (k = "dev" \/ "prod" \in Planned)}

(* Recorded first: a crash right after the stop must still restart it.       *)
RecordStop(k) ==
    /\ at = "stop" /\ k \in Affected \ journal.stopped
    /\ journal' = [journal EXCEPT !.stopped = @ \cup {k}]
    /\ UNCHANGED <<settings, clusters, latest, app, wanted, dump, tplDump, archive, baseDue, process, cli>>
    /\ Works

(* Fault: stopped first, recorded at the end.                                *)
StopUnrecorded(k) ==
    /\ at = "stop" /\ k \in Affected
    /\ app' = [app EXCEPT ![k] = FALSE]
    /\ UNCHANGED <<settings, clusters, latest, wanted, files, process, cli>> /\ Works

StopApplication(k) ==
    /\ at = "stop" /\ k \in Affected \cap journal.stopped
    /\ app' = [app EXCEPT ![k] = FALSE]
    /\ UNCHANGED <<settings, clusters, latest, wanted, files, process, cli>> /\ Works

(* Fault: applications that are asked to stop are not waited for.            *)
AllAsked == Affected \subseteq journal.stopped

AllStopped == Affected = {}

BeginDumps ==
    /\ at = "stop" /\ AllStopped
    /\ GotoWith("dump", Planned)
    /\ UNCHANGED <<settings, clusters, latest, app, wanted, files, cli>> /\ Works

(* _started: a stopped cluster runs for its dump only.                       *)
StartForDump ==
    /\ at = "dump" /\ todo # {} /\ ~runs[Turn(todo)]
    /\ runs' = [runs EXCEPT ![Turn(todo)] = TRUE]
    /\ UNCHANGED <<settings, vol, box, data, tplDb, latest, app, wanted, files, process, cli>> /\ Works

DumpCluster ==
    /\ at = "dump" /\ todo # {} /\ runs[Turn(todo)]
    /\ LET k == Turn(todo) IN
         /\ dump' = [dump EXCEPT ![k] = data[k]]
         /\ runs' = [runs EXCEPT ![k] = k \in journal.wasRunning]
         /\ GotoWith("dump", todo \ {k})
    /\ UNCHANGED <<settings, vol, box, data, tplDb, latest, app, wanted, tplDump, archive, baseDue, journal, cli>>
    /\ Works

(* Nothing has been removed: leave everything as it was.                     *)
DumpFails ==
    /\ at \in {"stop", "dump"}
    /\ CancelThen("exit") /\ Fails
    /\ UNCHANGED <<settings, clusters, latest, app, wanted, files, cli>>

CommitRemoval ==
    /\ at = "dump" /\ todo = {}
    /\ journal' = [journal EXCEPT !.phase = [k \in Clusters |-> IF k \in Planned THEN "remove_old" ELSE "out"]]
    /\ Goto("clusters")
    /\ UNCHANGED <<settings, clusters, latest, app, wanted, dump, tplDump, archive, baseDue, cli>> /\ Works

-----------------------------------------------------------------------------
(* _retire_archive: before any old cluster is removed.                       *)

ToRetire == journal.phase["prod"] = "remove_old" /\ ~journal.deleted

BeginRetirement ==
    /\ at = "clusters" /\ ToRetire
    /\ runs' = [runs EXCEPT !["prod"] = FALSE]
    /\ journal' = [journal EXCEPT !.deleting = TRUE]
    /\ Goto("retire")
    /\ UNCHANGED <<settings, vol, box, data, tplDb, latest, app, wanted, dump, tplDump, archive, baseDue, cli>>
    /\ Works

DeleteArchive ==
    /\ at = "retire" /\ archive # "none"
    /\ archive' = "none"
    /\ UNCHANGED <<settings, clusters, latest, app, wanted, dump, tplDump, baseDue, journal, process, cli>>
    /\ Works

FinishRetirement ==
    /\ at = "retire" /\ archive = "none"
    /\ journal' = [journal EXCEPT !.deleted = TRUE]
    /\ Goto("clusters")
    /\ UNCHANGED <<settings, clusters, latest, app, wanted, dump, tplDump, archive, baseDue, cli>> /\ Works

(* S3 refuses, part of the objects being gone.                               *)
RetirementFails ==
    /\ at = "retire" /\ archive # "none" /\ archive' = "none"
    /\ IF \A k \in Planned : Intact(k) THEN CancelThen("exit") ELSE Exit
    /\ Fails
    /\ UNCHANGED <<settings, clusters, latest, app, wanted, dump, tplDump, baseDue, journal, cli>>

-----------------------------------------------------------------------------
(* The replacement of one cluster after the other.                           *)

Unfinished == {k \in Planned : journal.phase[k] # "done"}
Replacing(k, phase) ==
    at = "clusters" /\ ~ToRetire /\ Unfinished # {} /\ k = Turn(Unfinished) /\ journal.phase[k] = phase
SaveIn(k, phase) ==
    /\ journal' = [journal EXCEPT !.phase[k] = phase]
    /\ UNCHANGED <<settings, clusters, latest, app, wanted, dump, tplDump, archive, baseDue, process, cli>>
    /\ Works

RemoveContainer(k) ==
    /\ Replacing(k, "remove_old") /\ box[k] # "none"
    /\ box' = [box EXCEPT ![k] = "none"] /\ runs' = [runs EXCEPT ![k] = FALSE]
    /\ UNCHANGED <<settings, vol, data, tplDb, latest, app, wanted, files, process, cli>> /\ Works

RemoveVolume(k) ==
    /\ Replacing(k, "remove_old") /\ box[k] = "none" /\ vol[k] # "none"
    /\ vol' = [vol EXCEPT ![k] = "none"] /\ data' = [data EXCEPT ![k] = 0]
    /\ tplDb' = (tplDb /\ k # "dev")
    /\ UNCHANGED <<settings, box, runs, latest, app, wanted, files, process, cli>> /\ Works

SaveRemoved(k) ==
    /\ Replacing(k, "remove_old") /\ box[k] = "none" /\ vol[k] = "none"
    /\ SaveIn(k, "create_new")

CreateCluster(k) ==
    /\ Replacing(k, "create_new") /\ box[k] = "none"
    /\ vol' = [vol EXCEPT ![k] = "new"] /\ box' = [box EXCEPT ![k] = "new"]
    /\ runs' = [runs EXCEPT ![k] = TRUE]
    /\ UNCHANGED <<settings, data, tplDb, latest, app, wanted, files, process, cli>> /\ Works

SaveCreated(k) ==
    /\ Replacing(k, "create_new") /\ box[k] = "new"
    /\ SaveIn(k, "restore")

RestoreDatabase(k) ==
    /\ Replacing(k, "restore") /\ data[k] # dump[k]
    /\ runs' = [runs EXCEPT ![k] = TRUE]
    /\ \/ /\ data' = [data EXCEPT ![k] = dump[k]] /\ UNCHANGED process /\ Works
       \/ /\ data' = [data EXCEPT ![k] = 0] /\ Exit /\ Fails
    /\ UNCHANGED <<settings, vol, box, tplDb, latest, app, wanted, files, cli>>

SaveRestored(k) ==
    /\ Replacing(k, "restore") /\ data[k] = dump[k]
    /\ SaveIn(k, "done")

-----------------------------------------------------------------------------
(* The applications, the templates, the end.                                 *)

(* _start_applications, up to the containers it stopped.                     *)
PrepareProduction ==
    /\ at = "clusters" /\ Unfinished = {} /\ ~journal.started
    /\ IF "prod" \in Planned
         THEN /\ runs' = [runs EXCEPT !["prod"] = "prod" \in journal.wasRunning] /\ baseDue' = TRUE
         ELSE UNCHANGED <<runs, baseDue>>
    /\ Goto("applications")
    /\ UNCHANGED <<settings, vol, box, data, tplDb, latest, app, wanted, dump, tplDump, archive, journal, cli>>
    /\ Works

StartApplications ==
    /\ at = "applications" /\ Restarted(journal.stopped)
    /\ Goto("saving")
    /\ UNCHANGED <<settings, clusters, latest, files, cli>>

SaveStarted ==
    /\ at = "saving" /\ journal' = [journal EXCEPT !.started = TRUE]
    /\ Goto("clusters")
    /\ UNCHANGED <<settings, clusters, latest, app, wanted, dump, tplDump, archive, baseDue, cli>> /\ Works

(* A template that was deleted meanwhile is skipped; a broken dump stops the *)
(* start until the operator repairs or deletes the template.                 *)
RestoreTemplate ==
    /\ at = "clusters" /\ Unfinished = {} /\ journal.started
    /\ journal.template = "listed" /\ "dev" \in Planned
    /\ IF tplDump = "broken"
         THEN Exit /\ UNCHANGED <<tplDb, journal>>
         ELSE /\ tplDb' = (tplDump = "ok") /\ journal' = [journal EXCEPT !.template = "settled"]
              /\ UNCHANGED process
    /\ UNCHANGED <<settings, vol, box, runs, data, latest, app, wanted, dump, tplDump, archive, baseDue, cli>>
    /\ Works

TemplatesSettled == journal.template = "settled" \/ "dev" \notin Planned

FinishUpgrade ==
    /\ at = "clusters" /\ Unfinished = {} /\ journal.started /\ TemplatesSettled
    /\ dump' = [k \in Clusters |-> 0]
    /\ Goto("finish")
    /\ UNCHANGED <<settings, clusters, latest, app, wanted, tplDump, archive, baseDue, journal, cli>> /\ Works

ForgetJournal ==
    /\ at = "finish"
    /\ journal' = NoJournal
    /\ Goto("plan")
    /\ UNCHANGED <<settings, clusters, latest, app, wanted, dump, tplDump, archive, baseDue, cli>> /\ Works

-----------------------------------------------------------------------------
(* Applications, the operator, the backup scheduler, a command.              *)

WriteDatabase(k) ==
    /\ data[k] # 0 /\ runs[k] /\ latest[k] <= MaxWrites
    /\ latest' = [latest EXCEPT ![k] = @ + 1] /\ data' = [data EXCEPT ![k] = latest[k] + 1]
    /\ UNCHANGED <<settings, vol, box, runs, tplDb, app, wanted, files, process, bounds>>

ApplicationWrites(k) == app[k] /\ WriteDatabase(k) /\ UNCHANGED cli

EditImage ==
    /\ configEdits < MaxEdits /\ configEdits' = configEdits + 1
    /\ image' \in {"old", "new"} \ {image}
    /\ UNCHANGED <<conf, clusters, latest, app, wanted, files, process, cli, failures, starts>>

(* What the refusal tells the operator: the image back to the journal's.     *)
HeedRefusal ==
    /\ image = "old"
    /\ \/ \E k \in Clusters : Installed(k) /\ vol[k] = "new"
       \/ journal # NoJournal /\ ~Revocable
    /\ image' = "new"
    /\ UNCHANGED <<conf, clusters, latest, app, wanted, files, process, cli, bounds>>

(* A repaired dump; `oduflow delete-template`, which also drops the          *)
(* template's database, or the dump alone is removed.                        *)
EditTemplate ==
    /\ configEdits < MaxEdits /\ configEdits' = configEdits + 1 /\ boss = Nobody
    /\ \/ tplDump = "broken" /\ tplDump' = "ok" /\ UNCHANGED tplDb
       \/ tplDump # "gone" /\ tplDump' = "gone" /\ tplDb' \in {tplDb, FALSE}
    /\ UNCHANGED <<settings, vol, box, runs, data, latest, app, wanted, dump, archive, baseDue, journal,
                   process, cli, failures, starts>>

BaseBackup ==
    /\ \E s \in Servers : up[s] = "serving"
    /\ baseDue /\ runs["prod"]
    /\ archive' = vol["prod"] /\ baseDue' = FALSE
    /\ UNCHANGED <<settings, clusters, latest, app, wanted, dump, tplDump, journal, process, cli, bounds>>

(* refuse_pending is looked at once, before the command's work.              *)
CommandBegins ==
    /\ cli = "idle" /\ journal = NoJournal /\ ~Outdated(image)
    /\ CommandsOverlap \/ boss = Nobody
    /\ cli' = "applying"
    /\ UNCHANGED <<settings, clusters, latest, app, wanted, files, process, bounds>>

CommandEnds ==
    /\ cli = "applying" /\ cli' = "idle"
    /\ WriteDatabase("dev") \/ UNCHANGED <<settings, clusters, latest, app, wanted, files, process, bounds>>

-----------------------------------------------------------------------------

ServerSteps(s) == RefuseImage(s) \/ ServeAsIs(s) \/ TakeOver(s)
UpgradeSteps ==
    \/ Resume \/ Cancel \/ CancelDumps \/ CancelJournal \/ PlanClusters
    \/ \E k \in Clusters :
         \/ RecordStop(k) \/ StopApplication(k)
         \/ RemoveContainer(k) \/ RemoveVolume(k) \/ SaveRemoved(k)
         \/ CreateCluster(k) \/ SaveCreated(k) \/ RestoreDatabase(k) \/ SaveRestored(k)
    \/ BeginDumps \/ StartForDump \/ DumpCluster \/ DumpFails \/ CommitRemoval
    \/ BeginRetirement \/ DeleteArchive \/ FinishRetirement \/ RetirementFails
    \/ PrepareProduction \/ StartApplications \/ SaveStarted
    \/ RestoreTemplate \/ FinishUpgrade \/ ForgetJournal

UpNext ==
    \/ \E s \in Servers : BootServer(s) \/ ServerSteps(s) \/ StopServer(s)
    \/ UpgradeSteps \/ Die
    \/ \E k \in Clusters : ApplicationWrites(k)
    \/ EditImage \/ HeedRefusal \/ EditTemplate \/ BaseBackup
    \/ CommandBegins \/ CommandEnds

(* systemd restarts the service; a started server goes on; the operator puts *)
(* the image back when a start is refused for it. Nobody has to repair a     *)
(* template.                                                                 *)
UpFairness ==
    /\ WF_upVars(BootServer(Service)) /\ WF_upVars(UpgradeSteps)
    /\ WF_upVars(HeedRefusal) /\ WF_upVars(CommandEnds)
    /\ \A s \in Servers : WF_upVars(ServerSteps(s))
UpSpec == UpInit /\ [][UpNext]_upVars /\ UpFairness

-----------------------------------------------------------------------------
(* The last write to every carried database is in its cluster or in a        *)
(* verified dump, whatever step a server dies at and whatever the operator   *)
(* sets the image to in between (module docstring: "removed only after all   *)
(* dumps have been taken and verified").                                     *)
NothingLost == \A k \in Clusters : latest[k] \in {data[k], dump[k]}

(* A server that serves has every database as last written, the template's   *)
(* database unless the template was deleted, the applications that ran, and  *)
(* for production's cluster a base backup to recover from or a request for   *)
(* one.                                                                      *)
ServesWhole ==
    (\E s \in Servers : up[s] = "serving") =>
        /\ \A k \in Clusters : data[k] = latest[k] /\ (wanted[k] => app[k])
        /\ tplDb \/ tplDump = "gone"
        /\ runs["prod"] => baseDue \/ archive = vol["prod"]

(* An application that was stopped for the upgrade runs again in the end,    *)
(* though a template may stay broken for ever (_start_applications: "a       *)
(* broken template dump must not keep them down until it is fixed").         *)
ApplicationsReturn == \A k \in Clusters : wanted[k] ~> (app[k] \/ ~wanted[k])

=============================================================================
