-------------------------- MODULE ProductionRestore --------------------------
(* A restore of one production: a database and a filestore are staged beside  *)
(* the live ones and swapped in by renames, the database first, with the      *)
(* production stopped. Any statement may fail, before or after it took        *)
(* effect, and the server may die between any two; a failure rolls back what  *)
(* was renamed, and Odoo is started again only when the live pair is known to *)
(* be coherent.                                                               *)
(*                                                                            *)
(* A version stands for the data of one snapshot (or of a dev environment):   *)
(* the same version in the live database and the live filestore is a coherent *)
(* pair. The three database names are fixed; the staged and the set-aside     *)
(* filestore are fresh directories of each restore, so that a crash leaves    *)
(* strays behind instead of something the next restore would overwrite. The   *)
(* production's lock admits one restore, start or stop at a time.             *)
(*                                                                            *)
(* Definitions marked "Fault:" are plausible bugs; no action uses them.       *)
(* They are put in place of the definition that follows them to see that      *)
(* a property notices.                                                        *)
EXTENDS Naturals, FiniteSets

CONSTANTS
    Versions,       \* snapshots and environments to restore from
    First,          \* what the production holds in the beginning
    Absent,         \* no database of that name, no such directory
    Partial,        \* a staged database whose load did not finish
    Careful,        \* operators inspect an uncertain pair before they go on
    MaxFailures,    \* bound: statements and calls that raise
    MaxCrashes      \* bound: deaths of the server

ASSUME VersionsAssumption ==
    First \in Versions /\ Absent \notin Versions /\ Partial \notin Versions /\ Absent # Partial
ASSUME FlagsAssumption == Careful \in BOOLEAN
ASSUME BoundsAssumption == MaxFailures \in Nat /\ MaxCrashes \in Nat

VARIABLES
    db,           \* what the databases {db}, {db}__restore and {db}__old hold
    fs,           \* what the live, the staged and the set-aside directory hold
    strays,       \* filestores that crashes left in directories of their own
    odoo,         \* the production's container
    step,         \* the next step of the restore, or "idle"
    job,          \* the restore's target and local variables
    current,      \* the version whose swap completed last
    uncertain,    \* a restore ended without knowing which pair is live
    outcome,      \* how the last restore ended
    mishaps,      \* history: what the code gives no guarantees about happened
    failures, crashes

vars == <<db, fs, strays, odoo, step, job, current, uncertain, outcome, mishaps,
          failures, crashes>>
Bounds == <<failures, crashes>>

Places == {"live", "stage", "old"}
Steps == {"idle", "staging", "stopping", "drop_old", "rename_out", "rename_in", "undo_in",
          "move_out", "move_in", "undo_swap", "remove_old", "drop_done", "finally", "cleanup"}

TypeOK ==
    /\ db \in [Places -> Versions \cup {Absent, Partial}]
    /\ fs \in [Places -> Versions \cup {Absent}]
    /\ strays \subseteq Versions
    /\ odoo \in {"running", "stopped", "restarting"}
    /\ step \in Steps
    /\ job \in [target : Versions, before : Versions, wasRunning : BOOLEAN,
                stopped : BOOLEAN, safe : BOOLEAN, committed : BOOLEAN]
    /\ current \in Versions
    /\ uncertain \in BOOLEAN
    /\ mishaps \subseteq {"put_back_failed", "began_restarting"}
    /\ outcome \in {"none", "restored", "failed", "died"}
    /\ failures \in 0..MaxFailures /\ crashes \in 0..MaxCrashes

Init ==
    /\ db = [p \in Places |-> IF p = "live" THEN First ELSE Absent]
    /\ fs = [p \in Places |-> IF p = "live" THEN First ELSE Absent]
    /\ strays = {}
    /\ odoo = "running"
    /\ step = "idle"
    /\ job = [target |-> First, before |-> First, wasRunning |-> FALSE,
              stopped |-> FALSE, safe |-> TRUE, committed |-> FALSE]
    /\ current = First
    /\ uncertain = FALSE /\ outcome = "none" /\ mishaps = {}
    /\ failures = 0 /\ crashes = 0

(* ALTER DATABASE p RENAME TO q, and os.replace(p, q): nothing happens (the  *)
(* statement raises) unless p exists and q does not.                         *)
CanMove(f, p, q) == f[p] # Absent /\ f[q] = Absent
(* Fault: a move that breaks off halfway leaves a truncated copy under the   *)
(* target.                                                                   *)
MovedPartial(f, p, q) == [f EXCEPT ![q] = Partial, ![p] = Absent]

Moved(f, p, q) ==
    IF CanMove(f, p, q) THEN [f EXCEPT ![q] = f[p], ![p] = Absent] ELSE f
Dropped(f, p) == [f EXCEPT ![p] = Absent]

Goto(here, there) == step = here /\ step' = there
Fails == failures < MaxFailures /\ failures' = failures + 1 /\ UNCHANGED crashes
Works == UNCHANGED Bounds

-----------------------------------------------------------------------------
(* The restore.                                                              *)

(* restore_production / restore_production_from_environment: whether the     *)
(* production runs is read once, before the data is staged.                  *)
Begin(v) ==
    /\ Careful => ~uncertain
    /\ Goto("idle", "staging")
    /\ job' = [target |-> v, before |-> current, wasRunning |-> odoo = "running",
               stopped |-> FALSE, safe |-> TRUE, committed |-> FALSE]
    /\ mishaps' = mishaps \cup {m \in {"began_restarting"} : odoo = "restarting"}
    /\ UNCHANGED <<db, fs, strays, odoo, current, uncertain, outcome>> /\ Works

(* Rebuild the filestore beside the live one, then DROP, CREATE and load     *)
(* {db}__restore.                                                            *)
StagePair ==
    /\ Goto("staging", "stopping")
    /\ fs' = [fs EXCEPT !["stage"] = job.target]
    /\ db' = [db EXCEPT !["stage"] = job.target]
    /\ UNCHANGED <<strays, odoo, job, current, uncertain, outcome, mishaps>> /\ Works

StagePairFails ==
    /\ Fails
    /\ Goto("staging", "cleanup")
    /\ \E d \in {db["stage"], Absent, Partial} : db' = [db EXCEPT !["stage"] = d]
    /\ UNCHANGED <<fs, strays, odoo, job, current, uncertain, outcome, mishaps>>

(* _commit_restored_pair: downtime starts here.                              *)
StopOdoo ==
    /\ Goto("stopping", "drop_old")
    /\ IF job.wasRunning
       THEN odoo' = "stopped" /\ job' = [job EXCEPT !.stopped = TRUE]
       ELSE UNCHANGED <<odoo, job>>
    /\ UNCHANGED <<db, fs, strays, current, uncertain, outcome, mishaps>> /\ Works

StopOdooFails ==
    /\ Fails
    /\ job.wasRunning
    /\ Goto("stopping", "finally")
    /\ odoo' \in {odoo, "stopped"}
    /\ UNCHANGED <<db, fs, strays, job, current, uncertain, outcome, mishaps>>

(* DROP DATABASE IF EXISTS {db}__old, and end the live database's sessions.  *)
DropOld ==
    /\ Goto("drop_old", "rename_out")
    /\ db' = Dropped(db, "old")
    /\ UNCHANGED <<fs, strays, odoo, job, current, uncertain, outcome, mishaps>> /\ Works

DropOldFails ==
    /\ Fails
    /\ Goto("drop_old", "finally")
    /\ db' \in {db, Dropped(db, "old")}
    /\ UNCHANGED <<fs, strays, odoo, job, current, uncertain, outcome, mishaps>>

(* From here on an exception leaves the database's name uncertain.           *)
RenameOut ==
    /\ CanMove(db, "live", "old")
    /\ Goto("rename_out", "rename_in")
    /\ db' = Moved(db, "live", "old")
    /\ job' = [job EXCEPT !.safe = FALSE]
    /\ UNCHANGED <<fs, strays, odoo, current, uncertain, outcome, mishaps>> /\ Works

RenameOutFails ==
    /\ IF CanMove(db, "live", "old") THEN Fails ELSE Works
    /\ Goto("rename_out", "finally")
    /\ db' \in {db, Moved(db, "live", "old")}
    /\ job' = [job EXCEPT !.safe = FALSE]
    /\ UNCHANGED <<fs, strays, odoo, current, uncertain, outcome, mishaps>>

RenameIn ==
    /\ Goto("rename_in", "move_out")
    /\ db' = Moved(db, "stage", "live")
    /\ UNCHANGED <<fs, strays, odoo, job, current, uncertain, outcome, mishaps>> /\ Works

RenameInFails ==
    /\ Fails
    /\ Goto("rename_in", "undo_in")
    /\ db' \in {db, Moved(db, "stage", "live")}
    /\ UNCHANGED <<fs, strays, odoo, job, current, uncertain, outcome, mishaps>>

(* Roll the old database back into place, and raise.                         *)
UndoRename ==
    /\ CanMove(db, "old", "live")
    /\ Goto("undo_in", "finally")
    /\ db' = Moved(db, "old", "live")
    /\ job' = [job EXCEPT !.safe = TRUE]
    /\ UNCHANGED <<fs, strays, odoo, current, uncertain, outcome, mishaps>> /\ Works

UndoRenameFails ==
    /\ IF CanMove(db, "old", "live") THEN Fails ELSE Works
    /\ Goto("undo_in", "finally")
    /\ db' \in {db, Moved(db, "old", "live")}
    /\ UNCHANGED <<fs, strays, odoo, job, current, uncertain, outcome, mishaps>>

(* Fault: the old filestore is overwritten instead of being set aside.       *)
MoveOutDeletes ==
    /\ Goto("move_out", "move_in")
    /\ fs' = Dropped(fs, "live")
    /\ UNCHANGED <<db, strays, odoo, job, current, uncertain, outcome, mishaps>> /\ Works

(* _swap_restored_filestore.                                                 *)
MoveOut ==
    /\ Goto("move_out", "move_in")
    /\ fs' = Moved(fs, "live", "old")
    /\ UNCHANGED <<db, strays, odoo, job, current, uncertain, outcome, mishaps>> /\ Works

MoveOutFails ==
    /\ Fails
    /\ Goto("move_out", "undo_swap")
    /\ UNCHANGED <<db, fs, strays, odoo, job, current, uncertain, outcome, mishaps>>

(* The pair is committed: the live state is coherent again.                  *)
MoveIn ==
    /\ Goto("move_in", "remove_old")
    /\ fs' = Moved(fs, "stage", "live")
    /\ job' = [job EXCEPT !.safe = TRUE]
    /\ current' = job.target
    /\ UNCHANGED <<db, strays, odoo, uncertain, outcome, mishaps>> /\ Works

MoveInFails ==
    /\ Fails
    /\ Goto("move_in", "undo_swap")
    /\ fs' = Moved(fs, "old", "live")
    /\ UNCHANGED <<db, strays, odoo, job, current, uncertain, outcome, mishaps>>

(* The same, and putting the old filestore back fails too.                   *)
MoveInFailsTwice ==
    /\ Fails
    /\ Goto("move_in", "undo_swap")
    /\ mishaps' = mishaps \cup {"put_back_failed"}
    /\ UNCHANGED <<db, fs, strays, odoo, job, current, uncertain, outcome>>

(* _rollback_database_swap: the restored database back to its scratch name,  *)
(* the old one back to its own.                                              *)
SwappedBack == Moved(Moved(db, "live", "stage"), "old", "live")

UndoSwap ==
    /\ Goto("undo_swap", "finally")
    /\ db' = SwappedBack
    /\ job' = [job EXCEPT !.safe = TRUE]
    /\ UNCHANGED <<fs, strays, odoo, current, uncertain, outcome, mishaps>> /\ Works

UndoSwapFails ==
    /\ Fails
    /\ Goto("undo_swap", "finally")
    /\ db' \in {db, Moved(db, "live", "stage"), SwappedBack}
    /\ UNCHANGED <<fs, strays, odoo, job, current, uncertain, outcome, mishaps>>

(* rmtree(ignore_errors): what it leaves behind is a stray.                  *)
RemoveOld ==
    /\ Goto("remove_old", "drop_done")
    /\ fs' = Dropped(fs, "old")
    /\ UNCHANGED <<db, strays, odoo, job, current, uncertain, outcome, mishaps>> /\ Works

DropDone ==
    /\ Goto("drop_done", "finally")
    /\ db' = Dropped(db, "old")
    /\ job' = [job EXCEPT !.committed = TRUE]
    /\ UNCHANGED <<fs, strays, odoo, current, uncertain, outcome, mishaps>> /\ Works

DropDoneFails ==
    /\ Fails
    /\ Goto("drop_done", "finally")
    /\ db' \in {db, Dropped(db, "old")}
    /\ UNCHANGED <<fs, strays, odoo, job, current, uncertain, outcome, mishaps>>

(* Fault: Odoo is started again whatever became of the pair.                 *)
StartAgainAlways == job.stopped

(* Odoo is started only if the restore stopped it and the pair is coherent;  *)
(* a start that fails is only logged.                                        *)
StartAgain == job.stopped /\ job.safe

Finally ==
    /\ Goto("finally", "cleanup")
    /\ odoo' = IF StartAgain THEN "running" ELSE odoo
    /\ uncertain' = (uncertain \/ ~job.safe)
    /\ UNCHANGED <<db, fs, strays, job, current, outcome, mishaps>> /\ Works

FinallyStartFails ==
    /\ Fails
    /\ StartAgain
    /\ Goto("finally", "cleanup")
    /\ UNCHANGED <<db, fs, strays, odoo, job, current, uncertain, outcome, mishaps>>

(* The outer finally drops what is still staged, and swallows its errors.    *)
Cleanup ==
    /\ Goto("cleanup", "idle")
    /\ db' \in (IF job.committed THEN {db} ELSE {Dropped(db, "stage"), db})
    /\ fs' = [fs EXCEPT !["stage"] = Absent, !["old"] = Absent]
    /\ strays' = strays \cup ({fs["old"]} \cap Versions)
    /\ outcome' = IF job.committed THEN "restored" ELSE "failed"
    /\ UNCHANGED <<odoo, job, current, uncertain, mishaps>> /\ Works

-----------------------------------------------------------------------------
(* Everything else that touches the production.                              *)

(* The server dies in the middle of a restore; its directories stay where    *)
(* they are and belong to no later restore.                                  *)
Die ==
    /\ crashes < MaxCrashes /\ crashes' = crashes + 1
    /\ step # "idle" /\ step' = "idle"
    /\ fs' = [fs EXCEPT !["stage"] = Absent, !["old"] = Absent]
    /\ strays' = strays \cup ({fs["stage"], fs["old"]} \cap Versions)
    /\ uncertain' = (uncertain \/ ~job.safe)
    /\ outcome' = "died"
    /\ UNCHANGED <<db, odoo, job, current, mishaps, failures>>

StartProduction ==
    /\ step = "idle" /\ odoo = "stopped"
    /\ Careful => ~uncertain
    /\ odoo' = "running"
    /\ UNCHANGED <<db, fs, strays, step, job, current, uncertain, outcome, mishaps>> /\ Works

StopProduction ==
    /\ step = "idle" /\ odoo # "stopped"
    /\ odoo' = "stopped"
    /\ UNCHANGED <<db, fs, strays, step, job, current, uncertain, outcome, mishaps>> /\ Works

(* The operator inspects {db} and {db}__old, and the directories beside the  *)
(* filestore, and puts the pair of the last completed swap back.             *)
Repair ==
    /\ step = "idle" /\ uncertain
    /\ \E p \in Places : db[p] = current
    /\ current \in strays \cup {fs["live"]}
    /\ db' = [p \in Places |-> IF p = "live" THEN current ELSE Absent]
    /\ fs' = [fs EXCEPT !["live"] = current]
    /\ uncertain' = FALSE
    /\ UNCHANGED <<strays, odoo, step, job, current, outcome, mishaps>> /\ Works

(* Odoo dies; Docker's restart policy brings it up again.                    *)
OdooDies ==
    /\ odoo = "running"
    /\ odoo' = "restarting"
    /\ UNCHANGED <<db, fs, strays, step, job, current, uncertain, outcome, mishaps>> /\ Works

DockerRestarts ==
    /\ odoo = "restarting"
    /\ odoo' = "running"
    /\ UNCHANGED <<db, fs, strays, step, job, current, uncertain, outcome, mishaps>> /\ Works

RestoreStep ==
    \/ StagePair \/ StagePairFails \/ StopOdoo \/ StopOdooFails
    \/ DropOld \/ DropOldFails \/ RenameOut \/ RenameOutFails
    \/ RenameIn \/ RenameInFails \/ UndoRename \/ UndoRenameFails
    \/ MoveOut \/ MoveOutFails \/ MoveIn \/ MoveInFails \/ MoveInFailsTwice
    \/ UndoSwap \/ UndoSwapFails \/ RemoveOld \/ DropDone \/ DropDoneFails
    \/ Finally \/ FinallyStartFails \/ Cleanup

Next ==
    \/ \E v \in Versions : Begin(v)
    \/ RestoreStep
    \/ Die
    \/ StartProduction \/ StopProduction \/ Repair
    \/ OdooDies \/ DockerRestarts

Spec == Init /\ [][Next]_vars

-----------------------------------------------------------------------------
(* The properties.                                                           *)

(* Odoo only ever runs on a coherent pair, the one whose swap completed      *)
(* last: _commit_restored_pair stops it before the first rename and starts   *)
(* it only once the live state is provably coherent again. (Unless a         *)
(* filestore could not be put back, or a restore began while Docker was      *)
(* restarting the container.)                                                *)
ServesCoherentPair ==
    odoo = "running" /\ mishaps = {} => db["live"] = current /\ fs["live"] = current

(* Until a swap completes, the data it replaces still exists, under one name *)
(* or another: the old database is dropped only after everything else        *)
(* succeeded (_commit_restored_pair).                                        *)
PreviousSurvives ==
    /\ \E p \in Places : db[p] = current
    /\ current \in {fs["live"], fs["old"]} \cup strays

(* Users never see the data change under a running Odoo: the production is   *)
(* down from before the first rename until after the last one, unless the    *)
(* restore began while Docker was restarting the container.                  *)
SwapsOnlyWhileDown ==
    [][(db["live"]' # db["live"] \/ fs["live"]' # fs["live"]) /\ "began_restarting" \notin mishaps
        => odoo # "running"]_vars

(* What the docstring of _commit_restored_pair says without reservation: the *)
(* container is started only on a coherent pair ...                          *)
AlwaysServesCoherentPair ==
    odoo = "running" => db["live"] = current /\ fs["live"] = current

(* ... and is stopped before anything is renamed.                            *)
AlwaysSwapsWhileDown ==
    [][db["live"]' # db["live"] \/ fs["live"]' # fs["live"] => odoo # "running"]_vars

(* What docs/production.md says of a restore that fails: it leaves the       *)
(* previous state untouched.                                                 *)
FailedRestoreUntouched == outcome = "failed" /\ step = "idle" => current = job.before
=============================================================================
