-------------------------- MODULE ProductionLifecycle --------------------------
(* The life of one production name (docker_ops/production_ops.py):           *)
(* create_production and its roll-back, delete_production, the purge of what *)
(* a deletion kept, and reconfigure_production, which brings container and   *)
(* checkout to the record. An operation holds the name's lock throughout; a  *)
(* sweep takes it late, and a command's sweep not at all.                    *)
(*                                                                           *)
(* Databases, workspaces and containers carry the attempt that made them.    *)
(* Of two settings each field of a record has 1 and 2. Other names, and the  *)
(* check that no two of them share a domain, are not modelled.               *)
(* Definitions marked "Fault:" are plausible bugs no action uses.            *)
EXTENDS Naturals, FiniteSets

CONSTANTS
    Nil,            \* no record, container, workspace, database
    Sweepers,       \* who purges: "reaper", "command"
    MaxFields,      \* bound: settings changed by one call
    MaxCreates, MaxCalls, MaxMishaps, MaxEdits \* bounds: creations, reconfigurations, failed
                                               \* steps and deaths, changes of the environment

VARIABLES
    record,         \* productions.json: attempt, settings, whether the creation completed
    dbase,          \* the database: attempt and data copied in
    space,          \* the workspace: attempt, checkout, worktree, data copied in
    marked,         \* the workspace carries a tombstone
    container,      \* attempt and settings it was created with
    source,         \* the environment promoted: whether it runs, its data
    step, call,     \* the operation that holds the name's lock; what it works with
    sweep,          \* a purge: whose, productions it found registered, its step
    settled,        \* history: the last operation was a reconfiguration that returned
    kept,           \* history: attempt whose data a deletion kept, 0 after a purge or none
    creates, calls, mishaps, edits

history == <<settled, kept>>
bounded == <<creates, calls, mishaps, edits>>
prodVars == <<record, dbase, space, marked, container, source, step, call, sweep, history, bounded>>

Fields == {"domain", "branch", "repo", "image", "addons"}
Settings == [Fields -> {1, 2}]
CreateSteps == {"checked", "workspace", "worktrees", "create_db", "seed", "lock_env", "copy_db",
                "copy_files", "run", "finish"}
UndoSteps == {"undo_container", "undo_data", "undo_record", "undo_mark"}
ChangeSteps == {"record", "checkout", "addons", "remove", "swap", "recreate", "judge"}
DeleteSteps == {"del_container", "del_data", "del_record"}
Steps == {"idle"} \cup CreateSteps \cup UndoSteps \cup ChangeSteps \cup DeleteSteps
Changes == {c \in SUBSET Fields : Cardinality(c) <= MaxFields}
NoCall == [seed |-> "none", ran |-> FALSE, issued |-> FALSE, left |-> FALSE, updates |-> {},
           staged |-> Nil, drop |-> FALSE]

Records == [gen : 1..MaxCreates, set : Settings, whole : BOOLEAN]
Databases == [gen : 1..MaxCreates, data : 0..MaxEdits]
Spaces == [gen : 0..MaxCreates, repo : 0..2, branch : 0..2, addons : 0..2, data : 0..MaxEdits]
Containers == [gen : 1..MaxCreates, set : Settings]
Clones == [repo : {1, 2}, branch : {1, 2}]

ProdConstants ==
    /\ {MaxFields, MaxCreates, MaxCalls, MaxMishaps, MaxEdits} \subseteq Nat
    /\ Sweepers \subseteq {"reaper", "command"}
    /\ Nil \notin Records /\ Nil \notin Databases /\ Nil \notin Spaces
    /\ Nil \notin Containers /\ Nil \notin Clones

PLTypeOK ==
    /\ record \in Records \cup {Nil} /\ dbase \in Databases \cup {Nil}
    /\ space \in Spaces \cup {Nil} /\ container \in Containers \cup {Nil}
    /\ marked \in BOOLEAN /\ source \in [up : BOOLEAN, data : 0..MaxEdits]
    /\ step \in Steps
    /\ call \in [seed : {"none", "template", "env"}, ran : BOOLEAN, issued : BOOLEAN, left : BOOLEAN,
                 updates : SUBSET Fields, drop : BOOLEAN,
                 staged : Clones \cup {Nil}]
    /\ sweep \in [by : {"nobody"} \cup Sweepers, seen : BOOLEAN, at : {"look", "lock", "drop", "remove"}]
    /\ settled \in BOOLEAN /\ kept \in 0..MaxCreates
    /\ creates \in 0..MaxCreates /\ calls \in 0..MaxCalls /\ mishaps \in 0..MaxMishaps /\ edits \in 0..MaxEdits

PLInit ==
    /\ record = Nil /\ dbase = Nil /\ space = Nil /\ marked = FALSE /\ container = Nil
    /\ source \in [up : BOOLEAN, data : {0}]
    /\ step = "idle" /\ call = NoCall
    /\ sweep = [by |-> "nobody", seen |-> FALSE, at |-> "look"]
    /\ settled = FALSE /\ kept = 0 /\ creates = 0 /\ calls = 0 /\ mishaps = 0 /\ edits = 0

-----------------------------------------------------------------------------
things == <<record, dbase, space, marked, container, source>>
Same == UNCHANGED <<sweep, history, bounded>>
Go(s) == step' = s /\ UNCHANGED call
Return == step' = "idle" /\ call' = NoCall
Locked == step # "idle" \/ (sweep.by = "reaper" /\ sweep.at \in {"drop", "remove"})
Spend == mishaps < MaxMishaps /\ mishaps' = mishaps + 1 /\ UNCHANGED <<creates, calls, edits>>
Have(x) == x # Nil

-----------------------------------------------------------------------------
(* Creation.                                                                 *)

(* ensure_name_free; _source_env_info, long before the environment's lock.   *)
BeginCreate(seed) ==
    /\ ~Locked /\ record = Nil /\ creates < MaxCreates
    /\ creates' = creates + 1 /\ step' = "checked" /\ settled' = FALSE
    /\ call' = [NoCall EXCEPT !.seed = seed, !.ran = source.up]
    /\ UNCHANGED <<things, sweep, kept, calls, mishaps, edits>>

(* Fault: what a deletion kept is no obstacle.                               *)
AnythingGoes == TRUE
NoLeftovers == dbase = Nil /\ space = Nil

Register ==
    /\ step = "checked" /\ NoLeftovers /\ container = Nil
    /\ record' = [gen |-> creates, set |-> [f \in Fields |-> 1], whole |-> FALSE]
    /\ Go("workspace") /\ Same
    /\ UNCHANGED <<dbase, space, marked, container, source>>

RefuseName ==
    /\ step = "checked" /\ ~(NoLeftovers /\ container = Nil)
    /\ Return /\ Same /\ UNCHANGED things

(* The directory may be there; the clone wants its place empty.              *)
MakeWorkspace ==
    /\ step = "workspace"
    /\ IF space = Nil
         THEN /\ space' = [gen |-> creates, repo |-> 1, branch |-> 1, addons |-> 0, data |-> 0]
              /\ Go("worktrees")
         ELSE Go("undo_container") /\ UNCHANGED space
    /\ Same /\ UNCHANGED <<record, dbase, marked, container, source>>

MakeWorktrees ==
    /\ step = "worktrees"
    /\ space' = [space EXCEPT !.addons = 1]
    /\ Go("create_db") /\ Same /\ UNCHANGED <<record, dbase, marked, container, source>>

(* CREATE DATABASE: the flag is set before the statement.                    *)
CreateDatabase ==
    /\ step = "create_db" /\ call' = [call EXCEPT !.issued = TRUE]
    /\ IF dbase = Nil
         THEN /\ dbase' = [gen |-> creates, data |-> 0]
              /\ step' = IF call.seed = "env" THEN "lock_env" ELSE "seed"
         ELSE step' = "undo_container" /\ UNCHANGED dbase
    /\ Same /\ UNCHANGED <<record, space, marked, container, source>>

SeedTemplate ==
    /\ step = "seed" /\ Go("run") /\ Same /\ UNCHANGED things

(* Fault: what the request saw when it came in.                              *)
AsSeen == call.ran

Running == source.up

(* _copy_env_data_into_production: looks again, stops, copies, starts.       *)
StopSource ==
    /\ step = "lock_env"
    /\ call' = [call EXCEPT !.ran = Running]
    /\ source' = [source EXCEPT !.up = @ /\ ~Running]
    /\ step' = "copy_db"
    /\ Same /\ UNCHANGED <<record, dbase, space, marked, container>>

CopyDatabase ==
    /\ step = "copy_db"
    /\ dbase' = [dbase EXCEPT !.data = source.data]
    /\ Go("copy_files") /\ Same /\ UNCHANGED <<record, space, marked, container, source>>

Back == [source EXCEPT !.up = @ \/ call.ran]

CopyFilestore ==
    /\ step = "copy_files"
    /\ space' = [space EXCEPT !.data = source.data]
    /\ source' = Back
    /\ Go("run") /\ Same /\ UNCHANGED <<record, dbase, marked, container>>

Built(r) == [gen |-> r.gen, set |-> r.set]                 \* _container_spec

RunContainer ==
    /\ step = "run"
    /\ container' = Built(record)
    /\ Go("finish") /\ Same /\ UNCHANGED <<record, dbase, space, marked, source>>

FinishCreate ==
    /\ step = "finish"
    /\ record' = [record EXCEPT !.whole = TRUE]
    /\ Return /\ Same /\ UNCHANGED <<dbase, space, marked, container, source>>

CreateFails ==
    /\ step \in CreateSteps \ {"checked"} /\ Spend
    /\ source' = IF step \in {"copy_db", "copy_files"} THEN Back ELSE source
    /\ Go("undo_container")
    /\ UNCHANGED <<record, dbase, space, marked, container, sweep, history>>

(* _cleanup_partial_production.                                              *)
UndoContainer ==
    /\ step = "undo_container"
    /\ container' = Nil
    /\ Go("undo_data") /\ Same /\ UNCHANGED <<record, dbase, space, marked, source>>

(* _destroy_leftovers(require_db_drop=True), or no database to drop.         *)
UndoData ==
    /\ step = "undo_data" /\ step' = "undo_record"
    /\ \/ /\ space' = Nil /\ marked' = FALSE
          /\ dbase' = IF call.issued THEN Nil ELSE dbase
          /\ UNCHANGED <<call, mishaps>>
       \/ /\ call.issued /\ mishaps < MaxMishaps /\ mishaps' = mishaps + 1
          /\ call' = [call EXCEPT !.left = TRUE]
          /\ UNCHANGED <<dbase, space, marked>>
    /\ UNCHANGED <<record, container, source, sweep, history, creates, calls, edits>>

UndoRecord ==
    /\ step = "undo_record" /\ record' = Nil
    /\ IF call.left THEN Go("undo_mark") ELSE Return
    /\ Same /\ UNCHANGED <<dbase, space, marked, container, source>>

UndoMark ==
    /\ step = "undo_mark" /\ marked' = TRUE
    /\ Return /\ Same /\ UNCHANGED <<record, dbase, space, container, source>>

-----------------------------------------------------------------------------
(* Deletion.                                                                 *)

BeginDelete(drop) ==
    /\ ~Locked /\ Have(record)
    /\ step' = "del_container" /\ call' = [NoCall EXCEPT !.drop = drop]
    /\ settled' = FALSE
    /\ UNCHANGED <<things, sweep, kept, bounded>>

(* A container the daemon will not remove is a warning.                      *)
RemoveContainer ==
    /\ step = "del_container"
    /\ \/ container' = Nil /\ UNCHANGED mishaps
       \/ Have(container) /\ mishaps < MaxMishaps /\ mishaps' = mishaps + 1 /\ UNCHANGED container
    /\ Go("del_data")
    /\ UNCHANGED <<record, dbase, space, marked, source, sweep, history, creates, calls, edits>>

WriteTombstone ==
    /\ marked' = TRUE
    /\ space' = IF space = Nil THEN [gen |-> 0, repo |-> 0, branch |-> 0, addons |-> 0, data |-> 0] ELSE space

(* With drop_database the workspace goes whether or not the DROP succeeds.   *)
DeleteData ==
    /\ step = "del_data"
    /\ IF call.drop
         THEN /\ space' = Nil /\ marked' = FALSE
              /\ record' = [record EXCEPT !.whole = FALSE]
              /\ \/ dbase' = Nil /\ UNCHANGED mishaps
                 \/ Have(dbase) /\ mishaps < MaxMishaps /\ mishaps' = mishaps + 1 /\ UNCHANGED dbase
         ELSE WriteTombstone /\ UNCHANGED <<dbase, record, mishaps>>
    /\ Go("del_record")
    /\ UNCHANGED <<container, source, sweep, history, creates, calls, edits>>

DeleteRecord ==
    /\ step = "del_record" /\ record' = Nil
    /\ kept' = IF ~call.drop /\ record.whole THEN record.gen ELSE kept
    /\ Return
    /\ UNCHANGED <<dbase, space, marked, container, source, sweep, settled, bounded>>

-----------------------------------------------------------------------------
(* The purge of what deletions kept: the reaper's, or a command's.           *)

BeginSweep(who) ==
    /\ sweep.by = "nobody"
    /\ sweep' = [by |-> who, seen |-> Have(record), at |-> "look"]
    /\ UNCHANGED <<things, step, call, history, bounded>>

(* The registry was read before; it may have lost or gained the name since.  *)
Pass == sweep' = [sweep EXCEPT !.by = "nobody", !.at = "look"]

(* Fault: a tombstone means deleted.                                         *)
TombstoneSuffices == FALSE

Registered == sweep.seen

NameBusy == sweep.by = "reaper" /\ step # "idle"

ClearStale ==
    /\ sweep.by # "nobody" /\ sweep.at = "look" /\ marked /\ Registered
    /\ marked' = FALSE /\ Pass
    /\ UNCHANGED <<record, dbase, space, container, source, step, call, history, bounded>>

(* No tombstone, or one that is too young.                                   *)
PassBy ==
    /\ sweep.by # "nobody" /\ sweep.at = "look" /\ (marked => ~Registered)
    /\ Pass /\ UNCHANGED <<things, step, call, history, bounded>>

FindDue ==
    /\ sweep.by # "nobody" /\ sweep.at = "look" /\ marked /\ ~Registered
    /\ sweep' = [sweep EXCEPT !.at = "lock"]
    /\ UNCHANGED <<things, step, call, history, bounded>>

LockName ==
    /\ sweep.by # "nobody" /\ sweep.at = "lock"
    /\ IF NameBusy THEN Pass ELSE sweep' = [sweep EXCEPT !.at = "drop"]
    /\ UNCHANGED <<things, step, call, history, bounded>>

DropDatabase ==
    /\ sweep.at = "drop" /\ kept' = 0
    /\ \/ dbase' = Nil /\ sweep' = [sweep EXCEPT !.at = "remove"] /\ UNCHANGED bounded
       \/ Have(dbase) /\ Pass /\ UNCHANGED dbase /\ Spend
    /\ UNCHANGED <<record, space, marked, container, source, step, call, settled>>

RemoveWorkspace ==
    /\ sweep.at = "remove"
    /\ space' = Nil /\ marked' = FALSE /\ Pass
    /\ UNCHANGED <<record, dbase, container, source, step, call, history, bounded>>

-----------------------------------------------------------------------------
(* Reconfiguration, also by a restart that finds the routing outdated and by *)
(* the take-over of the connector's checkout (forced).                       *)

(* Fault: a branch is where the container says it is.                        *)
LabelOnly(labels) == Have(labels) /\ labels.set["branch"] # record.set["branch"]

BranchDrift(labels) ==
    \/ Have(labels) /\ labels.set["branch"] # record.set["branch"]
    \/ space.branch # record.set["branch"]

RoutingDrift(labels) == Have(labels) /\ labels.set["domain"] # record.set["domain"]

Usable == Have(space) /\ space.repo # 0                   \* is_git_repository

Drift(updates) ==
    \/ container = Nil \/ ~Usable
    \/ RoutingDrift(container)
    \/ "branch" \notin updates /\ BranchDrift(container)

(* The arguments that differ from the record; a call made again has none.    *)
BeginChange(updates, force) ==
    /\ ~Locked /\ Have(record) /\ record.whole /\ calls < MaxCalls
    /\ calls' = calls + 1
    /\ IF updates = {} /\ ~force /\ ~Drift(updates)
         THEN settled' = TRUE /\ Return
         ELSE settled' = FALSE /\ step' = "record" /\ call' = [NoCall EXCEPT !.updates = updates]
    /\ UNCHANGED <<things, sweep, kept, creates, mishaps, edits>>

ChangeRecord ==
    /\ step = "record"
    /\ record' = [record EXCEPT !.set = [f \in Fields |-> IF f \in call.updates THEN 3 - record.set[f] ELSE record.set[f]]]
    /\ Go("checkout") /\ Same /\ UNCHANGED <<dbase, space, marked, container, source>>

(* Another repository is cloned beside; another branch is checked out in     *)
(* the place the old container still runs from.                              *)
Converge ==
    /\ step = "checkout" /\ step' = "addons"
    /\ IF "repo" \in call.updates \/ ~Usable
         THEN /\ call' = [call EXCEPT !.staged = [repo |-> record.set["repo"], branch |-> record.set["branch"]]]
              /\ UNCHANGED space
         ELSE /\ space' = IF "branch" \in call.updates \/ BranchDrift(container)
                            THEN [space EXCEPT !.branch = record.set["branch"]] ELSE space
              /\ UNCHANGED call
    /\ Same /\ UNCHANGED <<record, dbase, marked, container, source>>

(* A worktree is replaced if this call changes its branch, or made.          *)
ConvergeAddons ==
    /\ step = "addons"
    /\ space' = IF Usable /\ ("addons" \in call.updates \/ space.addons = 0)
                  THEN [space EXCEPT !.addons = record.set["addons"]] ELSE space
    /\ Go("remove") /\ Same /\ UNCHANGED <<record, dbase, marked, container, source>>

RemoveOld ==
    /\ step = "remove" /\ container' = Nil
    /\ Go("swap") /\ Same /\ UNCHANGED <<record, dbase, space, marked, source>>

SwapClone ==
    /\ step = "swap"
    /\ space' = IF call.staged # Nil /\ Have(space)
                  THEN [space EXCEPT !.repo = call.staged.repo, !.branch = call.staged.branch] ELSE space
    /\ Go("recreate") /\ Same /\ UNCHANGED <<record, dbase, marked, container, source>>

RunChanged ==
    /\ step = "recreate"
    /\ container' = Built(record)
    /\ Go("judge") /\ Same /\ UNCHANGED <<record, dbase, space, marked, source>>

(* wait_production_healthy; the reply.                                       *)
Judge ==
    /\ step = "judge" /\ settled' = TRUE
    /\ Return /\ UNCHANGED <<things, sweep, kept, bounded>>

ChangeFails ==
    /\ step \in ChangeSteps /\ Spend
    /\ Return /\ UNCHANGED <<things, sweep, history>>

-----------------------------------------------------------------------------
(* The environment being promoted; the lock is the copy's from its stop on.  *)

EnvLocked == step \in {"copy_db", "copy_files"}

UserWrites ==
    /\ source.up /\ edits < MaxEdits /\ edits' = edits + 1
    /\ source' = [source EXCEPT !.data = edits + 1]
    /\ UNCHANGED <<record, dbase, space, marked, container, step, call, sweep, history, creates, calls, mishaps>>

StartOrStop ==
    /\ ~EnvLocked /\ source' = [source EXCEPT !.up = ~@]
    /\ UNCHANGED <<record, dbase, space, marked, container, step, call, sweep, history, bounded>>

(* The server dies; a command's sweep goes on.                               *)
Die ==
    /\ step # "idle" \/ sweep.by = "reaper"
    /\ Spend /\ Return
    /\ sweep' = IF sweep.by = "reaper" THEN [by |-> "nobody", seen |-> sweep.seen, at |-> "look"] ELSE sweep
    /\ UNCHANGED <<things, history>>

PLNext ==
    \/ \E seed \in {"none", "template", "env"} : BeginCreate(seed)
    \/ Register \/ RefuseName \/ MakeWorkspace \/ MakeWorktrees \/ CreateDatabase \/ SeedTemplate
    \/ StopSource \/ CopyDatabase \/ CopyFilestore \/ RunContainer \/ FinishCreate
    \/ CreateFails \/ UndoContainer \/ UndoData \/ UndoRecord \/ UndoMark
    \/ \E drop \in BOOLEAN : BeginDelete(drop)
    \/ RemoveContainer \/ DeleteData \/ DeleteRecord
    \/ \E who \in Sweepers : BeginSweep(who)
    \/ ClearStale \/ PassBy \/ FindDue \/ LockName \/ DropDatabase \/ RemoveWorkspace
    \/ \E updates \in Changes, force \in BOOLEAN : BeginChange(updates, force)
    \/ ChangeRecord \/ Converge \/ ConvergeAddons \/ RemoveOld \/ SwapClone \/ RunChanged \/ Judge
    \/ ChangeFails \/ UserWrites \/ StartOrStop \/ Die
PLSpec == PLInit /\ [][PLNext]_prodVars

-----------------------------------------------------------------------------
(* A production that was created whole has the database and the workspace of *)
(* its own creation: no sweep takes them, whatever it read before, and no    *)
(* leftover is mixed in (_refuse_leftovers, purge_deleted_productions).      *)
OwnData ==
    Have(record) /\ record.whole =>
        Have(dbase) /\ Have(space) /\ dbase.gen = record.gen /\ space.gen = record.gen

(* What a deletion kept is there until a purge begins: a creation of the     *)
(* name that fails does not clean it away ("everything here belongs to this  *)
(* attempt", _cleanup_partial_production).                                   *)
KeptUntilPurged ==
    kept # 0 => Have(dbase) /\ Have(space) /\ dbase.gen = kept /\ space.gen = kept

(* A promoted production's database and filestore are of one moment of the   *)
(* environment, however it was started, stopped and used while the request   *)
(* cloned and checked.                                                       *)
PromotedPair ==
    Have(record) /\ record.whole /\ Have(dbase) /\ Have(space) => dbase.data = space.data

(* A reconfiguration that returned left the checkout and the container on    *)
(* the record's domain and branch, whatever earlier ones failed half-way.    *)
Converged ==
    settled => /\ Have(container) /\ Usable
               /\ container.set["domain"] = record.set["domain"]
               /\ record.set["branch"] \in {container.set["branch"]} \cap {space.branch}

(* "on a mid-way failure re-running the same call resumes the convergence":  *)
(* so a call that returned left everything as the record says. It does not.  *)
ResumesAll ==
    settled => /\ container.set = record.set
               /\ \A f \in {"repo", "branch", "addons"} : space[f] = record.set[f]

=============================================================================
