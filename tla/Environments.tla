---------------------------- MODULE Environments -----------------------------
(* The life of development environments: create, delete, recreate, rename,    *)
(* update, stop, start, the wake-up of a stopped one, and the reaper that     *)
(* stops and deletes idle ones from a listing it made earlier.                *)
(*                                                                            *)
(* What an environment consists of lies in five places, none of which knows   *)
(* the others: a container, a database, a workspace, the access registries    *)
(* (personal MCP token and share link) and the activity record. Each creation *)
(* has a number; the model asks whether what lies in the five places under    *)
(* one name was born together. Addresses and identities in the agent          *)
(* container are modules of their own.                                        *)
(*                                                                            *)
(* Definitions marked "Fault:" are plausible bugs no action uses.             *)
EXTENDS Naturals, FiniteSets

CONSTANTS
    Envs, NoEnv,     \* names of environments (different names, different databases)
    Workers, Reaper, \* threads that serve tools and routes; the reaper's thread
    Nobody,
    MaxBorn,         \* bound: creations
    EnvFailures,     \* bound: operations that fail (Docker, SQL, files) and deaths of the server
    EnvOps           \* bound: operations begun by tools and routes

ASSUME EnvConstants ==
    /\ NoEnv \notin Envs /\ Reaper \notin Workers /\ Nobody \notin Workers \cup {Reaper}
    /\ {MaxBorn, EnvFailures, EnvOps} \subseteq Nat

VARIABLES
    box,             \* containers by name
    db, ws,          \* the creation whose database, whose workspace has this name; 0: none
    prot,            \* the .protected marker in the workspace
    access,          \* the creation the name's token and share link were made for; 0: none
    act,             \* activity.json
    owner, op,       \* holders of the environments' locks; what each thread does
    sweep,           \* the reaper's listing and what is left of it
    born, root,      \* creations so far; the creation each one continues (recreate)
    stranded,        \* history: names whose clean-up or move was left unfinished
    died,            \* history: the server died in the middle of an operation
    envFailures, envOps

places == <<box, db, ws, prot, access, act>>
envVars == <<places, owner, op, sweep, born, root, stranded, died, envFailures, envOps>>

Actors == Workers \cup {Reaper}
Births == 0..MaxBorn
Ages == {"none", "recent", "old"}
Statuses == {"none", "running", "stopped"}
Boxes == [status : Statuses, id : Births]
NoBox == [status |-> "none", id |-> 0]
NoRecord == [last |-> "none", stopped |-> "none"]

EnvSteps == {"none", "clean", "workspace", "database", "run", "configure", "record", "rollback",
             "drop_box", "drop_database", "drop_workspace", "forget",
             "remove_box", "move", "rename_db", "rename_records", "run_again",
             "stop", "mark_stopped", "start", "mark_started", "wake"}
Kinds == {"none", "create", "delete", "recreate", "update", "stop", "start", "wake"}
IdleOp == [kind |-> "none", env |-> NoEnv, to |-> NoEnv, step |-> "none", id |-> 0]
Asleep == [phase |-> "asleep", todo |-> {}, late |-> {},
           seen |-> [n \in Envs |-> "none"], kept |-> {}, recs |-> [n \in Envs |-> NoRecord]]

EnvTypeOK ==
    /\ box \in [Envs -> Boxes] /\ db \in [Envs -> Births] /\ ws \in [Envs -> Births]
    /\ prot \subseteq Envs /\ access \in [Envs -> Births]
    /\ act \in [Envs -> [last : Ages, stopped : Ages]]
    /\ owner \in [Envs -> Actors \cup {Nobody}]
    /\ op \in [Actors -> [kind : Kinds, env : Envs \cup {NoEnv}, to : Envs \cup {NoEnv},
                          step : EnvSteps, id : Births]]
    /\ sweep \in [phase : {"asleep", "listed", "judging"}, todo : SUBSET Envs, late : SUBSET Envs,
                  seen : [Envs -> Statuses], kept : SUBSET Envs,
                  recs : [Envs -> [last : Ages, stopped : Ages]]]
    /\ born \in Births /\ root \in [1..MaxBorn -> Births]
    /\ stranded \subseteq Envs
    /\ envFailures \in 0..EnvFailures /\ died \in BOOLEAN /\ envOps \in 0..EnvOps

EnvInit ==
    /\ box = [n \in Envs |-> NoBox] /\ db = [n \in Envs |-> 0] /\ ws = [n \in Envs |-> 0]
    /\ prot = {} /\ access = [n \in Envs |-> 0] /\ act = [n \in Envs |-> NoRecord]
    /\ owner = [n \in Envs |-> Nobody] /\ op = [a \in Actors |-> IdleOp] /\ sweep = Asleep
    /\ born = 0 /\ root = [i \in 1..MaxBorn |-> 0]
    /\ stranded = {} /\ died = FALSE /\ envFailures = 0 /\ envOps = 0

-----------------------------------------------------------------------------
(* Threads, locks and failures.                                              *)

Exists(n) == box[n].status # "none"
At(a, step) == op[a].step = step
Go(a, step) == op' = [op EXCEPT ![a].step = step] /\ UNCHANGED owner
Done(a) ==
    /\ op' = [op EXCEPT ![a] = IdleOp]
    /\ owner' = [n \in Envs |-> IF owner[n] = a THEN Nobody ELSE owner[n]]

EnvWorks == UNCHANGED <<died, envFailures, envOps>>
EnvFails ==
    /\ envFailures < EnvFailures /\ envFailures' = envFailures + 1
    /\ UNCHANGED <<died, envOps>>
EnvBegins ==
    /\ envOps < EnvOps /\ envOps' = envOps + 1
    /\ UNCHANGED <<died, envFailures>>

(* acquire_env, not blocking, for one or (a rename) two names.               *)
Begin(a, kind, n, to, step, id) ==
    /\ At(a, "none")
    /\ \A m \in {n, to} : owner[m] = Nobody
    /\ owner' = [m \in Envs |-> IF m \in {n, to} THEN a ELSE owner[m]]
    /\ op' = [op EXCEPT ![a] = [kind |-> kind, env |-> n, to |-> to, step |-> step, id |-> id]]

(* Work that comes in during a sweep.                                        *)
Worked(n) ==
    sweep' = IF sweep.phase = "asleep" THEN sweep ELSE [sweep EXCEPT !.late = sweep.late \cup {n}]

(* with_env_lock records the call as work before it runs.                    *)
Touch(n) == act' = [act EXCEPT ![n].last = "recent"] /\ Worked(n)

Strand(n) == stranded' = stranded \cup {n}

-----------------------------------------------------------------------------
(* create_environment.                                                       *)

BeginCreate(a, n) ==
    /\ ~Exists(n) /\ born < MaxBorn
    /\ Begin(a, "create", n, n, "clean", 0)
    /\ UNCHANGED <<places, sweep, born, root, stranded>> /\ EnvBegins

(* _cleanup_old_environment: a database that cannot be dropped is ignored    *)
(* here; CREATE DATABASE will refuse.                                        *)
CleanOld(a) ==
    /\ At(a, "clean")
    /\ LET n == op[a].env IN
         /\ \/ db' = [db EXCEPT ![n] = 0] /\ EnvWorks
            \/ UNCHANGED db /\ EnvFails
         /\ ws' = [ws EXCEPT ![n] = 0] /\ prot' = prot \ {n}
    /\ Go(a, "workspace")
    /\ UNCHANGED <<box, access, act, sweep, born, root, stranded>>

(* The clone; a recreation continues the creation it replaces.               *)
MakeWorkspace(a) ==
    /\ At(a, "workspace") /\ born < MaxBorn /\ ws[op[a].env] = 0
    /\ born' = born + 1
    /\ root' = [root EXCEPT ![born + 1] = IF op[a].kind = "recreate" THEN root[op[a].id] ELSE born + 1]
    /\ ws' = [ws EXCEPT ![op[a].env] = born + 1]
    /\ op' = [op EXCEPT ![a].step = "database", ![a].id = born + 1]
    /\ UNCHANGED <<box, db, prot, access, act, owner, sweep, stranded>> /\ EnvWorks

(* Fault: CREATE DATABASE accepts what is there already.                     *)
MakeDatabaseAnyway(a) ==
    /\ At(a, "database")
    /\ db' = IF db[op[a].env] = 0 THEN [db EXCEPT ![op[a].env] = op[a].id] ELSE db
    /\ Go(a, "run")
    /\ UNCHANGED <<box, ws, prot, access, act, sweep, born, root, stranded>> /\ EnvWorks

MakeDatabase(a) ==
    /\ At(a, "database") /\ db[op[a].env] = 0
    /\ db' = [db EXCEPT ![op[a].env] = op[a].id]
    /\ Go(a, "run")
    /\ UNCHANGED <<box, ws, prot, access, act, sweep, born, root, stranded>> /\ EnvWorks

(* The role, the filestore, the port and the container; both initialising an *)
(* empty database and starting the container roll back.                      *)
RunBox(a) ==
    /\ At(a, "run")
    /\ \/ /\ box' = [box EXCEPT ![op[a].env] = [status |-> "running", id |-> op[a].id]]
          /\ Go(a, "configure") /\ Worked(op[a].env) /\ EnvWorks
       \/ UNCHANGED <<box, sweep>> /\ Go(a, "rollback") /\ EnvFails
    /\ UNCHANGED <<db, ws, prot, access, act, born, root, stranded>>

Configure(a) ==
    /\ At(a, "configure")
    /\ \/ Go(a, "record") /\ EnvWorks
       \/ Go(a, "rollback") /\ EnvFails
    /\ UNCHANGED <<places, sweep, born, root, stranded>>

(* env_tokens.create_or_get                                                  *)
Token(a, n) == IF access[n] = 0 THEN op[a].id ELSE access[n]

RecordCreated(a) ==
    /\ At(a, "record")
    /\ LET n == op[a].env IN
         /\ act' = [act EXCEPT ![n].last = "recent"]
         /\ Worked(n)
         /\ \/ access' = [access EXCEPT ![n] = Token(a, n)] /\ EnvWorks
            \/ UNCHANGED access /\ EnvFails
    /\ Done(a)
    /\ UNCHANGED <<box, db, ws, prot, born, root, stranded>>

(* recreate_environment: a create that fails revokes what delete preserved.  *)
Revoke(a) ==
    access' = IF op[a].kind = "recreate" THEN [access EXCEPT ![op[a].env] = 0] ELSE access

(* An exception outside the two rolled back steps: what was made stays.      *)
CreateRaises(a) ==
    /\ \/ op[a].step \in {"clean", "workspace", "database", "run"} /\ EnvFails
       \/ At(a, "database") /\ db[op[a].env] # 0 /\ EnvWorks
    /\ Revoke(a)
    /\ Done(a)
    /\ UNCHANGED <<box, db, ws, prot, act, sweep, born, root, stranded>>

(* _rollback_partial_environment: each part best effort.                     *)
RollBack(a) ==
    /\ At(a, "rollback")
    /\ LET n == op[a].env IN
       \E left \in SUBSET {"box", "db", "ws"} :
         /\ IF left = {} THEN EnvWorks ELSE EnvFails
         /\ box' = IF "box" \in left THEN box ELSE [box EXCEPT ![n] = NoBox]
         /\ db' = IF "db" \in left THEN db ELSE [db EXCEPT ![n] = 0]
         /\ ws' = IF "ws" \in left THEN ws ELSE [ws EXCEPT ![n] = 0]
         /\ prot' = IF "ws" \in left THEN prot ELSE prot \ {n}
    /\ Revoke(a)
    /\ Done(a)
    /\ UNCHANGED <<act, sweep, born, root, stranded>>

-----------------------------------------------------------------------------
(* delete_environment, and the first half of recreate_environment.           *)

Deletable(n) == n \notin prot /\ (Exists(n) \/ ws[n] # 0)

BeginDelete(a, n) ==
    /\ Deletable(n)
    /\ Begin(a, "delete", n, n, "drop_box", box[n].id)
    /\ Touch(n)
    /\ UNCHANGED <<box, db, ws, prot, access, born, root, stranded>> /\ EnvBegins

BeginRecreate(a, n) ==
    /\ Deletable(n) /\ Exists(n) /\ born < MaxBorn
    /\ Begin(a, "recreate", n, n, "drop_box", box[n].id)
    /\ Touch(n)
    /\ UNCHANGED <<box, db, ws, prot, access, born, root, stranded>> /\ EnvBegins

(* A container that cannot be stopped or removed ends the deletion.          *)
DropBox(a) ==
    /\ At(a, "drop_box")
    /\ LET n == op[a].env IN
       \/ box' = [box EXCEPT ![n] = NoBox] /\ Go(a, "drop_database") /\ EnvWorks
       \/ /\ Exists(n) /\ EnvFails /\ Done(a)
          /\ \E s \in {box[n].status, "stopped"} : box' = [box EXCEPT ![n].status = s]
    /\ UNCHANGED <<db, ws, prot, access, act, sweep, born, root, stranded>>

(* A database that cannot be dropped is a warning.                           *)
DropDatabase(a) ==
    /\ At(a, "drop_database")
    /\ \/ db' = [db EXCEPT ![op[a].env] = 0] /\ EnvWorks
       \/ UNCHANGED db /\ EnvFails
    /\ Go(a, "drop_workspace")
    /\ UNCHANGED <<box, ws, prot, access, act, sweep, born, root, stranded>>

DropWorkspace(a) ==
    /\ At(a, "drop_workspace")
    /\ LET n == op[a].env IN
       \/ /\ ws' = [ws EXCEPT ![n] = 0] /\ prot' = prot \ {n}
          /\ Go(a, "forget") /\ EnvWorks /\ UNCHANGED stranded
       \/ UNCHANGED <<ws, prot>> /\ Done(a) /\ EnvFails /\ Strand(n)
    /\ UNCHANGED <<box, db, access, act, sweep, born, root>>

(* The activity record, and unless recreating the token and the share link;  *)
(* failing to remove those is only logged.                                   *)
Forget(a) ==
    /\ At(a, "forget")
    /\ LET n == op[a].env IN
         /\ act' = [act EXCEPT ![n] = NoRecord]
         /\ IF op[a].kind = "recreate"
            THEN Go(a, "clean") /\ EnvWorks /\ UNCHANGED <<access, stranded>>
            ELSE /\ Done(a)
                 /\ \/ access' = [access EXCEPT ![n] = 0] /\ EnvWorks /\ stranded' = stranded \ {n}
                    \/ UNCHANGED access /\ EnvFails /\ Strand(n)
    /\ UNCHANGED <<box, db, ws, prot, sweep, born, root>>

-----------------------------------------------------------------------------
(* update_environment, with or without a rename.                             *)

Free(n) == ~Exists(n) /\ ws[n] = 0 /\ db[n] = 0

BeginUpdate(a, n, to) ==
    /\ Exists(n)
    /\ to # n => Free(to)
    /\ Begin(a, "update", n, to, "remove_box", box[n].id)
    /\ Touch(n)
    /\ UNCHANGED <<box, db, ws, prot, access, born, root, stranded>> /\ EnvBegins

(* Failures to stop or to remove the old container are swallowed.            *)
RemoveBox(a) ==
    /\ At(a, "remove_box")
    /\ LET n == op[a].env IN
       \/ box' = [box EXCEPT ![n] = NoBox] /\ EnvWorks
       \/ /\ Exists(n) /\ EnvFails
          /\ \E s \in {box[n].status, "stopped"} : box' = [box EXCEPT ![n].status = s]
    /\ Go(a, IF op[a].to = op[a].env THEN "run_again" ELSE "move")
    /\ UNCHANGED <<db, ws, prot, access, act, sweep, born, root, stranded>>

(* rename in every registry: records[new] = records.pop(old)                *)
Moved(f, n, m, none) == [f EXCEPT ![m] = f[n], ![n] = none]

MoveWorkspace(a) ==
    /\ At(a, "move")
    /\ LET n == op[a].env  m == op[a].to IN
       \/ /\ ws' = Moved(ws, n, m, 0)
          /\ prot' = IF n \in prot THEN (prot \ {n}) \cup {m} ELSE prot
          /\ Go(a, "rename_db") /\ EnvWorks /\ UNCHANGED stranded
       \/ UNCHANGED <<ws, prot>> /\ Done(a) /\ EnvFails /\ Strand(n)
    /\ UNCHANGED <<box, db, access, act, sweep, born, root>>

(* Fault: a database that cannot be renamed leaves the workspace moved.      *)
PutBackNothing(n, m) == UNCHANGED <<ws, prot>>

PutBack(n, m) ==
    /\ ws' = Moved(ws, m, n, 0)
    /\ prot' = IF m \in prot THEN (prot \ {m}) \cup {n} ELSE prot

(* ALTER DATABASE RENAME; the workspace moves back if it fails.              *)
RenameDatabase(a) ==
    /\ At(a, "rename_db")
    /\ LET n == op[a].env  m == op[a].to IN
       \/ /\ db[n] = 0 \/ db[m] = 0
          /\ db' = (IF db[n] = 0 THEN db ELSE Moved(db, n, m, 0)) /\ Go(a, "rename_records")
          /\ EnvWorks /\ UNCHANGED <<ws, prot, stranded>>
       \/ /\ db[n] # 0 /\ UNCHANGED db /\ Done(a) /\ PutBack(n, m) /\ Strand(n)
          /\ IF db[m] = 0 THEN EnvFails ELSE EnvWorks
    /\ UNCHANGED <<box, access, act, sweep, born, root>>

(* Registries move last. A registry that cannot be written ends the update   *)
(* with the workspace and the database already under the new name; the two   *)
(* access registries and the activity swallow their own errors.              *)
RenameRecords(a) ==
    /\ At(a, "rename_records")
    /\ LET n == op[a].env  m == op[a].to IN
       \/ /\ act' = IF act[n] = NoRecord THEN act ELSE Moved(act, n, m, NoRecord)
          /\ \/ /\ access' = IF access[n] = 0 THEN access ELSE Moved(access, n, m, 0)
                /\ EnvWorks /\ stranded' = IF n \in stranded THEN stranded \cup {m} ELSE stranded
             \/ UNCHANGED access /\ EnvFails /\ stranded' = stranded \cup {n, m}
          /\ op' = [op EXCEPT ![a].step = "run_again", ![a].env = m] /\ UNCHANGED owner
       \/ UNCHANGED <<act, access>> /\ Done(a) /\ EnvFails /\ stranded' = stranded \cup {n, m}
    /\ UNCHANGED <<box, db, ws, prot, sweep, born, root>>

(* containers.run under the (new) name; if it fails nothing serves the data. *)
RunAgain(a) ==
    /\ At(a, "run_again")
    /\ LET n == op[a].env IN
       \/ /\ ~Exists(n) /\ EnvWorks /\ UNCHANGED stranded
          /\ box' = [box EXCEPT ![n] = [status |-> "running", id |-> op[a].id]] /\ Worked(n)
       \/ /\ IF Exists(n) THEN EnvWorks ELSE EnvFails
          /\ UNCHANGED <<box, sweep>> /\ Strand(n)
    /\ Done(a)
    /\ UNCHANGED <<db, ws, prot, access, act, born, root>>

-----------------------------------------------------------------------------
(* Stop, start, restart, and the wake-up without a lock.                     *)

BeginStop(a, n) ==
    /\ n \notin prot /\ Exists(n)
    /\ Begin(a, "stop", n, n, "stop", box[n].id)
    /\ Touch(n)
    /\ UNCHANGED <<box, db, ws, prot, access, born, root, stranded>> /\ EnvBegins

SetStatus(n, s) == box' = [box EXCEPT ![n].status = s]

StopBox(a) ==
    /\ At(a, "stop")
    /\ SetStatus(op[a].env, "stopped")
    /\ Go(a, "mark_stopped")
    /\ UNCHANGED <<db, ws, prot, access, act, sweep, born, root, stranded>> /\ EnvWorks

(* activity.mark_stopped keeps an earlier stop time.                         *)
MarkedStopped(n) ==
    [act EXCEPT ![n].stopped = IF act[n].stopped = "none" THEN "recent" ELSE act[n].stopped]
MarkedStarted(n) == [act EXCEPT ![n] = [last |-> "recent", stopped |-> "none"]]

MarkStopped(a) ==
    /\ At(a, "mark_stopped")
    /\ act' = MarkedStopped(op[a].env)
    /\ Done(a)
    /\ UNCHANGED <<box, db, ws, prot, access, sweep, born, root, stranded>> /\ EnvWorks

BeginStart(a, n) ==
    /\ Exists(n)
    /\ Begin(a, "start", n, n, "start", box[n].id)
    /\ Touch(n)
    /\ UNCHANGED <<box, db, ws, prot, access, born, root, stranded>> /\ EnvBegins

(* ensure_running: whoever finds the environment stopped starts it; the      *)
(* callers of one process take turns (keyed_mutex), nobody else is kept out. *)
BeginWake(a, n) ==
    /\ At(a, "none") /\ box[n].status = "stopped"
    /\ \A b \in Actors : ~(op[b].kind = "wake" /\ op[b].env = n /\ At(b, "wake"))
    /\ op' = [op EXCEPT ![a] = [kind |-> "wake", env |-> n, to |-> n, step |-> "wake",
                                id |-> box[n].id]]
    /\ UNCHANGED <<places, owner, sweep, born, root, stranded>> /\ EnvBegins

StartBox(a) ==
    /\ op[a].step \in {"start", "wake"}
    /\ LET n == op[a].env IN
       IF Exists(n) /\ box[n].id = op[a].id
       THEN SetStatus(n, "running") /\ Worked(n) /\ Go(a, "mark_started")
       ELSE UNCHANGED <<box, sweep>> /\ Done(a)
    /\ UNCHANGED <<db, ws, prot, access, act, born, root, stranded>> /\ EnvWorks

MarkStarted(a) ==
    /\ At(a, "mark_started")
    /\ act' = MarkedStarted(op[a].env) /\ Worked(op[a].env)
    /\ Done(a)
    /\ UNCHANGED <<box, db, ws, prot, access, born, root, stranded>> /\ EnvWorks

(* protect_environment and unprotect_environment take no lock.               *)
Protect(n) ==
    /\ Exists(n) /\ ws[n] # 0
    /\ prot' \in {prot \cup {n}, prot \ {n}} \ {prot}
    /\ UNCHANGED <<box, db, ws, access, act, owner, op, sweep, born, root, stranded>> /\ EnvBegins

-----------------------------------------------------------------------------
(* The reaper: one listing, then a decision per environment.                 *)

SweepList ==
    /\ sweep.phase = "asleep" /\ At(Reaper, "none")
    /\ sweep' = [phase |-> "listed", todo |-> {n \in Envs : Exists(n)}, late |-> {},
                 seen |-> [n \in Envs |-> box[n].status], kept |-> prot,
                 recs |-> [n \in Envs |-> NoRecord]]
    /\ UNCHANGED <<places, owner, op, born, root, stranded>> /\ EnvWorks

(* Fault: only running environments keep their records.                      *)
PruneStopped == [n \in Envs |-> IF sweep.seen[n] = "running" THEN act[n] ELSE NoRecord]

(* activity.prune drops what the listing does not show.                      *)
Prune == [n \in Envs |-> IF n \in sweep.todo THEN act[n] ELSE NoRecord]

(* Fault: the records of the sweep before are used.                          *)
SweepReadLate ==
    /\ sweep.phase = "listed"
    /\ act' = Prune
    /\ sweep' = [sweep EXCEPT !.phase = "judging",
                              !.recs = [n \in Envs |-> [last |-> "old", stopped |-> act'[n].stopped]]]
    /\ UNCHANGED <<box, db, ws, prot, access, owner, op, born, root, stranded>> /\ EnvWorks

SweepRead ==
    /\ sweep.phase = "listed"
    /\ act' = Prune
    /\ sweep' = [sweep EXCEPT !.phase = "judging", !.recs = act']
    /\ UNCHANGED <<box, db, ws, prot, access, owner, op, born, root, stranded>> /\ EnvWorks

Judged(n) == sweep' = [sweep EXCEPT !.todo = sweep.todo \ {n}, !.seen[n] = "none",
                                    !.kept = sweep.kept \ {n}, !.recs[n] = NoRecord]
ToJudge(n) == sweep.phase = "judging" /\ n \in sweep.todo /\ At(Reaper, "none")

(* Records that do not match the listing are corrected, without the lock.    *)
Observe(n) ==
    /\ ToJudge(n) /\ Judged(n)
    /\ LET seen == sweep.seen[n]  rec == sweep.recs[n] IN
       \/ seen = "running" /\ rec.stopped # "none" /\ act' = MarkedStarted(n)
       \/ /\ seen = "running" /\ rec = NoRecord
          /\ act' = [act EXCEPT ![n].last = "recent"]
       \/ seen = "stopped" /\ rec.stopped = "none" /\ act' = MarkedStopped(n)
    /\ UNCHANGED <<box, db, ws, prot, access, owner, op, born, root, stranded>> /\ EnvWorks

Expired(n) ==
    /\ n \notin sweep.kept
    /\ \/ sweep.seen[n] = "running" /\ sweep.recs[n] = [last |-> "old", stopped |-> "none"]
       \/ sweep.seen[n] = "stopped" /\ sweep.recs[n].stopped = "old"

(* _auto_stop and _auto_delete: the lock, and what the operation itself      *)
(* checks; the decision is the listing's.                                    *)
AutoStop(n) ==
    /\ ToJudge(n) /\ Judged(n)
    /\ Expired(n) /\ sweep.seen[n] = "running"
    /\ n \notin prot /\ Exists(n)
    /\ Begin(Reaper, "stop", n, n, "stop", box[n].id)
    /\ UNCHANGED <<places, born, root, stranded>> /\ EnvWorks

AutoDelete(n) ==
    /\ ToJudge(n) /\ Judged(n)
    /\ Expired(n) /\ sweep.seen[n] = "stopped"
    /\ Deletable(n)
    /\ Begin(Reaper, "delete", n, n, "drop_box", box[n].id)
    /\ UNCHANGED <<places, born, root, stranded>> /\ EnvWorks

(* Nothing to do, busy, protected or gone since: skipped until next time.    *)
Refused(n) ==
    \/ owner[n] # Nobody \/ n \in prot
    \/ IF sweep.seen[n] = "running" THEN ~Exists(n) ELSE ~Deletable(n)
Skip(n) ==
    /\ ToJudge(n) /\ Judged(n)
    /\ \/ Expired(n) /\ Refused(n)
       \/ /\ ~Expired(n)
          /\ \/ sweep.seen[n] = "running" /\ sweep.recs[n].stopped = "none" /\ sweep.recs[n].last # "none"
             \/ sweep.seen[n] = "stopped" /\ sweep.recs[n].stopped # "none"
    /\ UNCHANGED <<places, owner, op, born, root, stranded>> /\ EnvWorks

SweepEnds ==
    /\ sweep.phase = "judging" /\ sweep.todo = {} /\ At(Reaper, "none")
    /\ sweep' = Asleep
    /\ UNCHANGED <<places, owner, op, born, root, stranded>> /\ EnvWorks

(* The thresholds pass.                                                      *)
Grow(n) ==
    /\ act' \in {[act EXCEPT ![n].last = "old"], [act EXCEPT ![n].stopped = "old"]}
    /\ \/ act[n].last = "recent" /\ act'[n].last = "old"
       \/ act[n].stopped = "recent" /\ act'[n].stopped = "old"
    /\ UNCHANGED <<box, db, ws, prot, access, owner, op, sweep, born, root, stranded>> /\ EnvWorks

-----------------------------------------------------------------------------
(* The server dies: its threads and locks are gone, everything else stays.   *)
HalfDone == {n \in Envs : \E a \in Actors : n \in {op[a].env, op[a].to} /\ op[a].kind # "wake"}

EnvDie ==
    /\ envFailures < EnvFailures /\ envFailures' = envFailures + 1 /\ died' = TRUE /\ UNCHANGED envOps
    /\ HalfDone # {}
    /\ op' = [a \in Actors |-> IdleOp] /\ owner' = [n \in Envs |-> Nobody] /\ sweep' = Asleep
    /\ stranded' = stranded \cup HalfDone
    /\ UNCHANGED <<places, born, root>>

BeginWork(a) ==
    \/ \E n \in Envs : \/ BeginCreate(a, n) \/ BeginDelete(a, n) \/ BeginRecreate(a, n)
                       \/ BeginStop(a, n) \/ BeginStart(a, n) \/ BeginWake(a, n)
    \/ \E n, to \in Envs : BeginUpdate(a, n, to)

Work(a) ==
    \/ CleanOld(a) \/ MakeWorkspace(a) \/ MakeDatabase(a) \/ RunBox(a) \/ Configure(a)
    \/ RecordCreated(a) \/ CreateRaises(a) \/ RollBack(a)
    \/ DropBox(a) \/ DropDatabase(a) \/ DropWorkspace(a) \/ Forget(a)
    \/ RemoveBox(a) \/ MoveWorkspace(a) \/ RenameDatabase(a) \/ RenameRecords(a) \/ RunAgain(a)
    \/ StopBox(a) \/ MarkStopped(a) \/ StartBox(a) \/ MarkStarted(a)

Sweeping ==
    \/ SweepList \/ SweepRead \/ SweepEnds
    \/ \E n \in Envs : Observe(n) \/ AutoStop(n) \/ AutoDelete(n) \/ Skip(n)

EnvNext ==
    \/ \E a \in Workers : BeginWork(a)
    \/ \E a \in Actors : Work(a)
    \/ Sweeping
    \/ \E n \in Envs : Protect(n) \/ Grow(n)
    \/ EnvDie

EnvSpec == EnvInit /\ [][EnvNext]_envVars

(* Threads go on with what they began, the reaper's loop runs, time passes.  *)
EnvFairness ==
    /\ \A a \in Actors : WF_envVars(Work(a))
    /\ WF_envVars(Sweeping)
    /\ \A n \in Envs : WF_envVars(Grow(n))

EnvFairSpec == EnvSpec /\ EnvFairness

-----------------------------------------------------------------------------
(* The properties.                                                           *)

(* A container never serves a database or a workspace that was made for      *)
(* another environment, whatever failed before: leftovers of a name, a       *)
(* rename onto a name, a recreation (_create_environment_impl,               *)
(* _relocate_environment_state).                                             *)
ServesOwnData ==
    \A n \in Envs : Exists(n) => db[n] \in {0, box[n].id} /\ ws[n] \in {0, box[n].id}

Settled(n) == owner[n] = Nobody

(* After an operation the database and the workspace of a creation lie under *)
(* the same name: a rename moves both or neither, unless the server died in  *)
(* the middle or a registry failed (_relocate_environment_state).            *)
PairUnderOneName ==
    ~died => \A n, m \in Envs :
        n # m /\ Settled(n) /\ Settled(m) => ws[n] = 0 \/ db[m] # ws[n]

(* A token or share link opens the environment it was made for, or what      *)
(* recreated it: a new environment under an old name does not inherit the    *)
(* access of the old one, unless a deletion or move was left unfinished      *)
(* (env_tokens: "revoked on delete", recreate_environment).                  *)
AccessIsInherited ==
    \A n \in Envs \ stranded :
        Settled(n) /\ Exists(n) /\ access[n] # 0 => root[access[n]] = root[box[n].id]

(* The reaper stops and deletes only what was idle when its sweep read the   *)
(* records; work it overlooks has come in during that same sweep (sweep).    *)
ReaperActsOnIdle ==
    [][\A n \in Envs :
         /\ op[Reaper].env = n /\ At(Reaper, "stop") /\ box'[n] # box[n]
              => n \in sweep.late \/ act[n].last # "recent"
         /\ op[Reaper].env = n /\ At(Reaper, "drop_box") /\ box'[n] # box[n]
              => n \in sweep.late \/ box[n].status = "stopped"]_envVars

(* What nobody uses any more is stopped and then deleted, unless protected   *)
(* (reaper.py).                                                              *)
Quiet == \A a \in Workers : op[a] = IdleOp
AbandonedIsDeleted == <>[](Quiet /\ prot = {}) => <>[](\A n \in Envs : ~Exists(n))

(* reaper.py: "Environments busy with another operation ... are skipped until *)
(* the next sweep, so the reaper never races agents": the reaper deletes     *)
(* only environments that are stopped.                                       *)
ReaperDeletesStopped ==
    [][\A n \in Envs : op[Reaper].env = n /\ At(Reaper, "drop_box") /\ box'[n] = NoBox
         => box[n].status # "running"]_envVars
=============================================================================
