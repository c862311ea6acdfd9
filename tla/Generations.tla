----------------------------- MODULE Generations -----------------------------
(* Template synchronisation (template_sync.py) and the retained filestore     *)
(* generations of environments (template_generations.py). A run fetches a     *)
(* backup of the remote database, pins every environment of the template to   *)
(* a hard-linked copy of the filestore it is mounted on, replaces the         *)
(* template, and moves the environments that asked for it to the new data:    *)
(* database and filestore are swapped one after the other, under a journal,   *)
(* and put back when a step fails.                                            *)
(*                                                                            *)
(* Data is [v, needs]: the backup a database was restored from, and the one   *)
(* whose filestore was under it when it was made. Only environments with an   *)
(* overlay are modelled, and only the run replaces the template.              *)
(* Definitions marked "Fault:" are plausible bugs no action uses.             *)
EXTENDS Naturals, FiniteSets

CONSTANTS
    Boxes,         \* environments of the template
    Nothing,       \* no data
    MaxBackups,    \* bound: backups the remote side publishes
    MaxCopies,     \* bound: generations that exist at a time
    MaxMishaps,    \* bound: failed steps and deaths of the worker
    MaxReboots     \* bound: restarts of the host

Backups == 0..MaxBackups
CopyIds == 1..MaxCopies
Records == [v : Backups, needs : Backups]
Journals == [before : Records, oldPin : 0..MaxCopies, oldSnap : Backups, ran : BOOLEAN]

GenConstants ==
    /\ {MaxBackups, MaxCopies, MaxMishaps, MaxReboots} \subseteq Nat /\ MaxBackups # 0
    /\ Nothing \notin Records \cup Journals

VARIABLES
    remote,        \* the newest backup of the remote database
    queued,        \* the file `pending'
    asked,         \* history: the newest backup a request not yet answered was made for
    live,          \* the template: database, filestore, recorded snapshot
    copies,        \* generations on disk: the backup whose filestore each holds, 0: none
    db, deltas,    \* each environment's database and upper layer, or Nothing
    lower,         \* the filestore it is mounted on, 0: not mounted
    pin, snap,     \* the generation it is pinned to; the snapshot its data matches
    on,            \* whether its container runs
    opted,         \* environments that follow the template (auto_refresh)
    note,          \* each environment's refresh journal
    newDb, newUp,  \* staged or set aside by a refresh: a database, an upper layer
    stage,         \* the place of the worker; what it works with
    inbox, gen, moving,
    stale,         \* overlays are not reconciled since the host restarted
    mishaps, reboots

template == <<live, copies>>
box == <<db, deltas, lower, pin, snap, on>>
refresh == <<note, newDb, newUp>>
worker == <<stage, inbox, gen, moving>>
genVars == <<remote, queued, asked, template, box, opted, refresh, worker, stale, mishaps, reboots>>

Data == Records \cup {Nothing}
Notes == Journals \cup {Nothing}
Stages == {"idle", "transfer", "gate", "pin", "import_db", "import_files", "record", "choose",
           "next", "journal", "sanitize", "stop", "swap_db", "swap_files", "mark", "mount", "start",
           "done", "clean", "back_stop", "back_db", "back_files", "back_pin", "back_mount",
           "back_start", "collect"}
Gated == Stages \ {"idle", "transfer", "gate"}   \* under the team's lock

GenTypeOK ==
    /\ remote \in Backups /\ queued \in BOOLEAN /\ asked \in Backups
    /\ live \in [db : Backups, files : Backups, snap : Backups] /\ copies \in [CopyIds -> Backups]
    /\ db \in [Boxes -> Data] /\ deltas \in [Boxes -> Data] /\ lower \in [Boxes -> Backups]
    /\ pin \in [Boxes -> 0..MaxCopies] /\ snap \in [Boxes -> Backups]
    /\ on \in [Boxes -> BOOLEAN] /\ opted \subseteq Boxes
    /\ note \in [Boxes -> Notes] /\ newDb \in [Boxes -> Data] /\ newUp \in [Boxes -> Data]
    /\ stage \in Stages /\ inbox \in Backups /\ gen \in 0..MaxCopies /\ moving \subseteq Boxes
    /\ stale \in BOOLEAN /\ mishaps \in 0..MaxMishaps /\ reboots \in 0..MaxReboots

GenInit ==
    /\ remote = 1 /\ queued = FALSE /\ asked = 0
    /\ live = [db |-> 1, files |-> 1, snap |-> 0] /\ copies = [c \in CopyIds |-> 0]
    /\ \E some \in SUBSET Boxes :
         /\ db = [e \in Boxes |-> IF e \in some THEN [v |-> 1, needs |-> 1] ELSE Nothing]
         /\ lower = [e \in Boxes |-> IF e \in some THEN 1 ELSE 0]
         /\ on = [e \in Boxes |-> e \in some]
    /\ deltas = db
    /\ pin = [e \in Boxes |-> 0] /\ snap = pin
    /\ opted \in SUBSET Boxes
    /\ note = [e \in Boxes |-> Nothing] /\ newDb = note /\ newUp = note
    /\ stage = "idle" /\ inbox = 0 /\ gen = 0 /\ moving = {}
    /\ stale = FALSE /\ mishaps = 0 /\ reboots = 0

-----------------------------------------------------------------------------
Exists(e) == db[e] # Nothing
Lower(e, p) == IF p = 0 THEN live.files ELSE copies[p]       \* lower_paths
Journaled == {e \in Boxes : note[e] # Nothing}               \* require_no_recovery
Fine == UNCHANGED <<mishaps, reboots>>
Mishap == mishaps < MaxMishaps /\ mishaps' = mishaps + 1 /\ UNCHANGED reboots
To(place) == stage' = place /\ UNCHANGED <<inbox, gen, moving>>
Stop == stage' = "idle" /\ gen' = 0 /\ moving' = {} /\ inbox' = 0
Unused == CHOOSE c \in CopyIds : copies[c] = 0 /\ \A e \in Boxes : pin[e] # c
One == CHOOSE e \in moving : TRUE                            \* the environment being refreshed

-----------------------------------------------------------------------------
(* Requests and backups.                                                     *)

Publish ==
    /\ remote < MaxBackups /\ remote' = remote + 1
    /\ UNCHANGED <<queued, asked, template, box, opted, refresh, worker, stale>> /\ Fine

RequestRun ==
    /\ queued' = TRUE /\ asked' = remote
    /\ ~queued \/ asked # remote
    /\ UNCHANGED <<remote, template, box, opted, refresh, worker, stale>> /\ Fine

(* The request is forgotten when the run starts: one made while the run      *)
(* transfers is for a newer backup.                                          *)
Consumed == queued' = FALSE

(* The minute tick; the template's own lock is the worker's.                 *)
StartRun ==
    /\ stage = "idle" /\ queued
    /\ Consumed /\ To("transfer")
    /\ UNCHANGED <<remote, asked, template, box, opted, refresh, stale>> /\ Fine

(* READY names the same backup before and after the transfer.                *)
Transfer ==
    /\ stage = "transfer"
    /\ inbox' = remote /\ stage' = "gate" /\ UNCHANGED <<gen, moving>>
    /\ UNCHANGED <<remote, queued, asked, template, box, opted, refresh, stale>> /\ Fine

Answered == asked' = IF asked <= inbox \/ stage = "transfer" THEN 0 ELSE asked

(* The failure is recorded; so is a death, which inspect_job reports.        *)
RunFails ==
    /\ stage \in {"transfer", "pin", "import_db", "import_files", "record", "choose"}
    /\ Stop /\ Answered /\ Mishap
    /\ UNCHANGED <<remote, queued, template, box, opted, refresh, stale>>

WorkerDies ==
    /\ stage # "idle"
    /\ Stop /\ Answered /\ Mishap
    /\ UNCHANGED <<remote, queued, template, box, opted, refresh, stale>>

(* Fault: a run that does not get the team's lock was a run.                 *)
NotDeferred == UNCHANGED queued

Deferred == queued' = TRUE

(* acquire_team_blocking gives up: an environment stayed busy.               *)
Defer ==
    /\ stage = "gate" /\ Deferred /\ Stop /\ Fine
    /\ UNCHANGED <<remote, asked, template, box, opted, refresh, stale>>

-----------------------------------------------------------------------------
(* _publish: pin_existing, import_template, record_template_snapshot.        *)

Candidates == {e \in Boxes : Exists(e) /\ pin[e] = 0}

EnterGate ==
    /\ stage = "gate" /\ To("pin")
    /\ UNCHANGED <<remote, queued, asked, template, box, opted, refresh, stale>> /\ Fine

ToPin == Candidates

(* One generation for all, pinned while their overlays are detached.         *)
PinExisting ==
    /\ stage = "pin"
    /\ IF ToPin = {} THEN UNCHANGED <<copies, pin, lower>>
       ELSE /\ \E c \in CopyIds : copies[c] = 0
            /\ copies' = [copies EXCEPT ![Unused] = live.files]
            /\ pin' = [e \in Boxes |-> IF e \in ToPin THEN Unused ELSE pin[e]]
            /\ lower' = [e \in Boxes |-> IF e \in ToPin /\ lower[e] # 0 THEN live.files ELSE lower[e]]
    /\ To("import_db")
    /\ UNCHANGED <<remote, queued, asked, live, db, deltas, snap, on, opted, refresh, stale>>
    /\ Fine

(* The worker dies in between: overlays are off, some pins are written.      *)
PinHalf ==
    /\ stage = "pin" /\ ToPin # {} /\ \E c \in CopyIds : copies[c] = 0
    /\ copies' = [copies EXCEPT ![Unused] = live.files]
    /\ \E some \in SUBSET ToPin : pin' = [e \in Boxes |-> IF e \in some THEN Unused ELSE pin[e]]
    /\ lower' = [e \in Boxes |-> IF e \in ToPin THEN 0 ELSE lower[e]]
    /\ on' = [e \in Boxes |-> on[e] /\ e \notin ToPin]
    /\ Stop /\ Answered /\ Mishap
    /\ UNCHANGED <<remote, queued, live, db, deltas, snap, opted, refresh, stale>>

(* The recorded snapshot goes first, then the database, then the files.      *)
ImportDatabase ==
    /\ stage = "import_db"
    /\ live' = [live EXCEPT !.db = inbox, !.snap = 0]
    /\ To("import_files")
    /\ UNCHANGED <<remote, queued, asked, copies, box, opted, refresh, stale>> /\ Fine

(* Unpinned environments would be mounted on the new files: there are none.  *)
ImportFiles ==
    /\ stage = "import_files"
    /\ live' = [live EXCEPT !.files = inbox]
    /\ lower' = [e \in Boxes |-> IF lower[e] # 0 /\ pin[e] = 0 THEN inbox ELSE lower[e]]
    /\ To("record")
    /\ UNCHANGED <<remote, queued, asked, copies, db, deltas, pin, snap, on, opted, refresh, stale>>
    /\ Fine

RecordSnapshot ==
    /\ stage = "record"
    /\ live' = [live EXCEPT !.snap = inbox] /\ To("choose")
    /\ UNCHANGED <<remote, queued, asked, copies, box, opted, refresh, stale>> /\ Fine

Targets == {e \in opted : Exists(e) /\ snap[e] # inbox}

Choose ==
    /\ stage = "choose"
    /\ IF Targets = {} THEN UNCHANGED copies /\ To("collect")
       ELSE /\ \E c \in CopyIds : copies[c] = 0
            /\ copies' = [copies EXCEPT ![Unused] = live.files]
            /\ gen' = Unused /\ moving' = Targets /\ stage' = "next"
            /\ UNCHANGED inbox
    /\ UNCHANGED <<remote, queued, asked, live, box, opted, refresh, stale>> /\ Fine

-----------------------------------------------------------------------------
(* refresh_environment.                                                      *)

NextOne ==
    /\ stage = "next"
    /\ IF moving = {} THEN To("collect")
       ELSE IF One \in Journaled THEN To("done")
       ELSE To("journal")
    /\ UNCHANGED <<remote, queued, asked, template, box, opted, refresh, stale>> /\ Fine

WriteJournal ==
    /\ stage = "journal"
    /\ note' = [note EXCEPT ![One] = [before |-> db[One], oldPin |-> pin[One],
                                        oldSnap |-> snap[One], ran |-> on[One]]]
    /\ To("sanitize")
    /\ UNCHANGED <<remote, queued, asked, template, box, opted, newDb, newUp, stale>> /\ Fine

(* The clone, its overlay, its neutralisation; the serving container is      *)
(* not touched.                                                              *)
Sanitize ==
    /\ stage = "sanitize"
    /\ newDb' = [newDb EXCEPT ![One] = [v |-> live.db, needs |-> copies[gen]]]
    /\ newUp' = [newUp EXCEPT ![One] = [v |-> live.db, needs |-> copies[gen]]]
    /\ To("stop")
    /\ UNCHANGED <<remote, queued, asked, template, box, opted, note, stale>> /\ Fine

SanitizeFails ==
    /\ stage = "sanitize" /\ Mishap
    /\ To("clean")
    /\ UNCHANGED <<remote, queued, asked, template, box, opted, refresh, stale>>

StopBox ==
    /\ stage = "stop"
    /\ on' = [on EXCEPT ![One] = FALSE] /\ lower' = [lower EXCEPT ![One] = 0]
    /\ To("swap_db")
    /\ UNCHANGED <<remote, queued, asked, template, db, deltas, pin, snap, opted, refresh, stale>> /\ Fine

(* One transaction: both names change hands, or none.                        *)
ExchangeDb == db' = [db EXCEPT ![One] = newDb[One]] /\ newDb' = [newDb EXCEPT ![One] = db[One]]
ExchangeFiles == deltas' = [deltas EXCEPT ![One] = newUp[One]] /\ newUp' = [newUp EXCEPT ![One] = deltas[One]]

SwapDatabases ==
    /\ stage = "swap_db" /\ ExchangeDb /\ To("swap_files")
    /\ UNCHANGED <<remote, queued, asked, template, deltas, lower, pin, snap, on, opted, note, newUp, stale>>
    /\ Fine

SwapFiles ==
    /\ stage = "swap_files" /\ ExchangeFiles /\ To("mark")
    /\ UNCHANGED <<remote, queued, asked, template, db, lower, pin, snap, on, opted, note, newDb, stale>>
    /\ Fine

WritePin ==
    /\ stage = "mark"
    /\ pin' = [pin EXCEPT ![One] = gen] /\ snap' = [snap EXCEPT ![One] = inbox]
    /\ To("mount")
    /\ UNCHANGED <<remote, queued, asked, template, db, deltas, lower, on, opted, refresh, stale>> /\ Fine

Mounted == lower' = [lower EXCEPT ![One] = Lower(One, pin[One])]

MountNew ==
    /\ stage = "mount" /\ Mounted /\ To("start")
    /\ UNCHANGED <<remote, queued, asked, template, db, deltas, pin, snap, on, opted, refresh, stale>> /\ Fine

StartNew ==
    /\ stage = "start"
    /\ on' = [on EXCEPT ![One] = note[One].ran]
    /\ To("clean")
    /\ UNCHANGED <<remote, queued, asked, template, db, deltas, lower, pin, snap, opted, refresh, stale>> /\ Fine

(* finally: what was set aside, the stage, the journal.                      *)
CleanUp ==
    /\ stage = "clean"
    /\ newDb' = [newDb EXCEPT ![One] = Nothing] /\ newUp' = [newUp EXCEPT ![One] = Nothing]
    /\ note' = [note EXCEPT ![One] = Nothing]
    /\ To("done")
    /\ UNCHANGED <<remote, queued, asked, template, box, opted, stale>> /\ Fine

(* The worker dies between the deletions and the journal's.                  *)
CleanHalf ==
    /\ stage = "clean"
    /\ newDb' = [newDb EXCEPT ![One] = Nothing] /\ newUp' = [newUp EXCEPT ![One] = Nothing]
    /\ Stop /\ Answered /\ Mishap
    /\ UNCHANGED <<remote, queued, template, box, opted, note, stale>>

Done ==
    /\ stage = "done"
    /\ moving' = moving \ {One} /\ stage' = "next" /\ UNCHANGED <<inbox, gen>>
    /\ UNCHANGED <<remote, queued, asked, template, box, opted, refresh, stale>> /\ Fine

-----------------------------------------------------------------------------
(* except: everything is put back, or the journal is kept.                   *)

Swapped == newDb[One] = note[One].before
SwappedFiles == newUp[One] = note[One].before

RefreshFails ==
    /\ stage \in {"swap_db", "swap_files", "mark", "mount", "start"} /\ Mishap
    /\ To("back_stop")
    /\ UNCHANGED <<remote, queued, asked, template, box, opted, refresh, stale>>

BackStop ==
    /\ stage = "back_stop"
    /\ on' = [on EXCEPT ![One] = FALSE] /\ lower' = [lower EXCEPT ![One] = 0]
    /\ To("back_db")
    /\ UNCHANGED <<remote, queued, asked, template, db, deltas, pin, snap, opted, refresh, stale>> /\ Fine

BackDatabase ==
    /\ stage = "back_db" /\ To("back_files")
    /\ IF Swapped THEN ExchangeDb ELSE UNCHANGED <<db, newDb>>
    /\ UNCHANGED <<remote, queued, asked, template, deltas, lower, pin, snap, on, opted, note, newUp, stale>>
    /\ Fine

(* Fault: the new filestore stays, since the pin is put back.                *)
KeepNewFiles == UNCHANGED <<deltas, newUp>>

ReturnFiles == IF SwappedFiles THEN ExchangeFiles ELSE UNCHANGED <<deltas, newUp>>

BackFiles ==
    /\ stage = "back_files" /\ To("back_pin")
    /\ ReturnFiles
    /\ UNCHANGED <<remote, queued, asked, template, db, lower, pin, snap, on, opted, note, newDb, stale>>
    /\ Fine

BackPin ==
    /\ stage = "back_pin" /\ To("back_mount")
    /\ pin' = [pin EXCEPT ![One] = note[One].oldPin] /\ snap' = [snap EXCEPT ![One] = note[One].oldSnap]
    /\ UNCHANGED <<remote, queued, asked, template, db, deltas, lower, on, opted, refresh, stale>> /\ Fine

BackMount ==
    /\ stage = "back_mount" /\ Mounted /\ To("back_start")
    /\ UNCHANGED <<remote, queued, asked, template, db, deltas, pin, snap, on, opted, refresh, stale>> /\ Fine

BackStart ==
    /\ stage = "back_start"
    /\ on' = [on EXCEPT ![One] = note[One].ran]
    /\ To("clean")
    /\ UNCHANGED <<remote, queued, asked, template, db, deltas, lower, pin, snap, opted, refresh, stale>> /\ Fine

BackFails ==
    /\ stage \in {"back_stop", "back_db", "back_files", "back_pin", "back_mount", "back_start"}
    /\ Mishap /\ To("done")
    /\ UNCHANGED <<remote, queued, asked, template, box, opted, refresh, stale>>

-----------------------------------------------------------------------------
(* collect: generations no environment is pinned to.                         *)

Referenced == {pin[e] : e \in Boxes}

(* Fault: an environment that needs recovery does not hold anything up.      *)
CollectAnyway == [c \in CopyIds |-> IF c \in Referenced THEN copies[c] ELSE 0]

Collected == IF Journaled # {} THEN copies
             ELSE [c \in CopyIds |-> IF c \in Referenced THEN copies[c] ELSE 0]

Collect ==
    /\ stage = "collect"
    /\ copies' = Collected
    /\ Stop /\ Answered
    /\ UNCHANGED <<remote, queued, live, box, opted, refresh, stale>> /\ Fine

-----------------------------------------------------------------------------
(* Other operations, sharing the team's lock.                                *)

Open == stage \notin Gated

Create(e) ==
    /\ Open /\ ~Exists(e)
    /\ db' = [db EXCEPT ![e] = [v |-> live.db, needs |-> live.files]]
    /\ deltas' = [deltas EXCEPT ![e] = [v |-> live.db, needs |-> live.files]]
    /\ lower' = [lower EXCEPT ![e] = live.files] /\ snap' = [snap EXCEPT ![e] = live.snap]
    /\ on' = [on EXCEPT ![e] = TRUE]
    /\ UNCHANGED <<remote, queued, asked, template, pin, opted, refresh, worker, stale>> /\ Fine

(* collect_best_effort is inside, after the workspace is gone.               *)
Delete(e) ==
    /\ Open /\ Exists(e) /\ e \notin Journaled
    /\ db' = [db EXCEPT ![e] = Nothing] /\ deltas' = [deltas EXCEPT ![e] = Nothing]
    /\ lower' = [lower EXCEPT ![e] = 0] /\ pin' = [pin EXCEPT ![e] = 0] /\ snap' = [snap EXCEPT ![e] = 0]
    /\ on' = [on EXCEPT ![e] = FALSE]
    /\ copies' = IF pin[e] = 0 \/ Journaled # {} THEN copies
                 ELSE [c \in CopyIds |-> IF \E f \in Boxes \ {e} : pin[f] = c THEN copies[c] ELSE 0]
    /\ UNCHANGED <<remote, queued, asked, live, opted, refresh, worker, stale>> /\ Fine

Startable(e) == Exists(e) /\ e \notin Journaled

(* start_environment mounts first (ensure_overlay_mounted).                  *)
StartEnvironment(e) ==
    /\ Open /\ Startable(e) /\ ~on[e]
    /\ lower' = [lower EXCEPT ![e] = IF @ = 0 THEN Lower(e, pin[e]) ELSE @]
    /\ on' = [on EXCEPT ![e] = TRUE]
    /\ UNCHANGED <<remote, queued, asked, template, db, deltas, pin, snap, opted, refresh, worker, stale>>
    /\ Fine

StopEnvironment(e) ==
    /\ Open /\ on[e] /\ e \notin Journaled
    /\ on' = [on EXCEPT ![e] = FALSE]
    /\ UNCHANGED <<remote, queued, asked, template, db, deltas, lower, pin, snap, opted, refresh, worker, stale>>
    /\ Fine

(* Overlays are gone; Docker starts again what ran, on the bare directories. *)
Reboot ==
    /\ reboots < MaxReboots /\ reboots' = reboots + 1 /\ UNCHANGED mishaps
    /\ lower' = [e \in Boxes |-> 0] /\ on' = [e \in Boxes |-> on[e]]
    /\ Stop /\ IF stage = "idle" THEN UNCHANGED asked ELSE Answered
    /\ stale' = TRUE
    /\ UNCHANGED <<remote, queued, template, db, deltas, pin, snap, opted, refresh>>

(* reconcile_overlay_mounts, when the server starts: containers on a missing *)
(* overlay are stopped, remounted and started.                               *)
Reconcile ==
    /\ stale /\ Open /\ stale' = FALSE
    /\ lower' = [e \in Boxes |-> IF Exists(e) /\ e \notin Journaled /\ lower[e] = 0
                                 THEN Lower(e, pin[e]) ELSE lower[e]]
    /\ UNCHANGED <<remote, queued, asked, template, db, deltas, pin, snap, on, opted, refresh, worker>>
    /\ Fine

GenNext ==
    \/ Publish \/ RequestRun \/ StartRun \/ Transfer \/ RunFails \/ WorkerDies \/ Defer
    \/ EnterGate \/ PinExisting \/ PinHalf \/ ImportDatabase \/ ImportFiles \/ RecordSnapshot \/ Choose
    \/ NextOne \/ WriteJournal \/ Sanitize \/ SanitizeFails \/ StopBox \/ SwapDatabases \/ SwapFiles
    \/ WritePin \/ MountNew \/ StartNew \/ CleanUp \/ CleanHalf \/ Done
    \/ RefreshFails \/ BackStop \/ BackDatabase \/ BackFiles \/ BackPin \/ BackMount \/ BackStart \/ BackFails
    \/ Collect \/ Reboot \/ Reconcile
    \/ \E e \in Boxes : Create(e) \/ Delete(e) \/ StartEnvironment(e) \/ StopEnvironment(e)
GenSpec == GenInit /\ [][GenNext]_genVars

-----------------------------------------------------------------------------
(* A container never runs on half of two data sets: its database, its own    *)
(* attachments and the template's filestore under them belong together,      *)
(* whatever a run was doing when it failed or died, and also after Docker    *)
(* started it again (once the overlays are reconciled, what lost its mount   *)
(* has it back).                                                             *)
ServesOnePiece ==
    \A e \in Boxes : on[e] =>
        /\ deltas[e] = db[e]
        /\ lower[e] = db[e].needs \/ (stale /\ lower[e] = 0)
           \/ (e \in Journaled /\ lower[e] = 0)

(* Until the new data is in place as a whole, everything of the old data is  *)
(* on disk, the generation it is mounted on included: a collection never     *)
(* takes it, and what a journal names can be put back by hand.               *)
Whole(d, p, D, U) == d \in D /\ d \in U /\ Lower("", p) = d.needs
Recoverable ==
    \A e \in Boxes : Exists(e) =>
        \/ Whole(db[e], pin[e], {db[e]}, {deltas[e]})
        \/ /\ e \in Journaled
           /\ Whole(note[e].before, note[e].oldPin, {db[e], newDb[e]}, {deltas[e], newUp[e]})

(* A request for the newest backup is not lost: until a run that has, or     *)
(* will have, that backup ends, it is queued or such a run is under way.     *)
RequestKept ==
    asked # 0 => \/ queued
                 \/ stage # "idle" /\ (stage = "transfer" \/ inbox >= asked)

=============================================================================
