---------------------------- MODULE Tenants_proofs ---------------------------
(* What is proved about what an environment has under its name, where it is   *)
(* reached and what it owns in the agent container, for any number of names,  *)
(* threads and operations.                                                    *)
(*                                                                            *)
(* Environments: the types, that a container serves only what was made with   *)
(* it, that a rename keeps a database and its workspace together, and that    *)
(* the reaper stops and deletes nothing it saw to be in use. None of these is *)
(* inductive alone. What an operation still has to do depends on what it      *)
(* found when it began, so each stage of each operation has its own assertion *)
(* about its names (Staged); that no other thread disturbs it follows from    *)
(* the locks (Locked): every thread but one that wakes a container owns the   *)
(* names it changes.                                                          *)
(*                                                                            *)
(* Addresses: no two environments have one port or one hostname, and a team   *)
(* has no more of them than slots. What the containers show is registered     *)
(* (PortsRegistered, HostsRegistered), and the registries name everything     *)
(* once (OnePortEach, OneHostEach); between the two each operation carries    *)
(* what it will give its container, registered for its name (GivesOwn). A     *)
(* hostname that was asked for is registered before the container that has    *)
(* the old one is gone (Waits), which is why an operation makes sure that no  *)
(* container shows it (HostsSure) before it runs its own.                     *)
(*                                                                            *)
(* AgentIdentities: an environment inherits nothing of an earlier one, and    *)
(* what is left in the container is still to be removed. A uid is given once  *)
(* (UidsOnce) and everything it owns was made for one creation (Serves), also *)
(* while a rename carries it from one name to the other (UidsOfEnvs). What a  *)
(* purge has on its list is retired for good (Listed), so removing it takes   *)
(* nothing from an environment, and a removal is confirmed only when nothing  *)
(* is left (Cleared); DirsOwned and HomesOwned say who answers for each file. *)
EXTENDS MCTenants, FiniteSetTheorems, TLAPS

-----------------------------------------------------------------------------
(* The types, in parts.                                                      *)

PlacesTyped ==
    /\ box \in [Envs -> Boxes] /\ db \in [Envs -> Births] /\ ws \in [Envs -> Births]
    /\ prot \subseteq Envs /\ access \in [Envs -> Births]
    /\ act \in [Envs -> [last : Ages, stopped : Ages]]
ThreadsTyped ==
    /\ owner \in [Envs -> Actors \cup {Nobody}]
    /\ op \in [Actors -> [kind : Kinds, env : Envs \cup {NoEnv}, to : Envs \cup {NoEnv},
                          step : EnvSteps, id : Births]]
SweepTyped ==
    sweep \in [phase : {"asleep", "listed", "judging"}, todo : SUBSET Envs, late : SUBSET Envs,
              seen : [Envs -> Statuses], kept : SUBSET Envs,
              recs : [Envs -> [last : Ages, stopped : Ages]]]
CountsTyped ==
    /\ born \in Births /\ root \in [1..MaxBorn -> Births]
    /\ stranded \subseteq Envs
    /\ envFailures \in 0..EnvFailures /\ died \in BOOLEAN /\ envOps \in 0..EnvOps

(* The types are those parts.                                                 *)
LEMMA TypesInParts == EnvTypeOK <=> PlacesTyped /\ ThreadsTyped /\ SweepTyped /\ CountsTyped
BY DEF EnvTypeOK, PlacesTyped, ThreadsTyped, SweepTyped, CountsTyped

-----------------------------------------------------------------------------
(* The inductive invariant.                                                  *)

Busy(a) == op[a].kind \notin {"none", "wake"}

(* What the step of a thread says of the rest of its operation.              *)
Numbered == {"database", "run", "remove_box", "move", "rename_db", "rename_records", "run_again"}
Ordered ==
    \A a \in Actors :
        /\ op[a].kind = "none" <=> op[a].step = "none"
        /\ op[a].kind = "wake" => op[a].step \in {"wake", "mark_started"}
        /\ op[a].kind # "none" => op[a].env \in Envs /\ op[a].to \in Envs
        /\ op[a].step \in {"move", "rename_db", "rename_records"} => op[a].env # op[a].to
        /\ op[a].kind = "recreate" \/ op[a].step \in Numbered => op[a].id # 0

(* A thread that is not only waking a container owns the names it works on.  *)
Locked ==
    \A a \in Actors : Busy(a) => owner[op[a].env] = a /\ owner[op[a].to] = a

Of(f, n, i) == f[n] \in {0, i}

(* What a thread has established about its names at each step.               *)
Unmade(a) ==
    op[a].step \in {"clean", "workspace", "database", "run", "drop_database", "drop_workspace", "forget"}
        => ~Exists(op[a].env)
Made(a) ==
    /\ op[a].step \in {"database", "run"} => ws[op[a].env] = op[a].id
    /\ op[a].step = "run" => db[op[a].env] = op[a].id
Stopping(a) == op[a].step = "stop" => Exists(op[a].env)
Target(a) ==
    /\ op[a].step \in {"remove_box", "move"} /\ op[a].env # op[a].to
         => ~Exists(op[a].to) /\ ws[op[a].to] = 0 /\ db[op[a].to] = 0
    /\ op[a].step = "rename_db" => ~Exists(op[a].to) /\ db[op[a].to] = 0 /\ ws[op[a].env] = 0
    /\ op[a].step = "rename_records" => ~Exists(op[a].to) /\ ws[op[a].env] = 0 /\ db[op[a].env] = 0
Carried(a) ==
    /\ op[a].step \in {"remove_box", "move", "run_again"}
         => Of(db, op[a].env, op[a].id) /\ Of(ws, op[a].env, op[a].id)
    /\ op[a].step = "rename_db"
         => Of(db, op[a].env, op[a].id) /\ Of(ws, op[a].to, op[a].id)
    /\ op[a].step = "rename_records"
         => Of(db, op[a].to, op[a].id) /\ Of(ws, op[a].to, op[a].id)
    /\ op[a].step \in {"remove_box", "move", "rename_db"} /\ Exists(op[a].env)
         => box[op[a].env].id = op[a].id
Stage(a) == Unmade(a) /\ Made(a) /\ Stopping(a) /\ Target(a) /\ Carried(a)
Staged == \A a \in Actors : Stage(a)

(* No box is NoBox, and a box belongs to a creation.                         *)
Boxed == \A n \in Envs : IF Exists(n) THEN box[n].id # 0 ELSE box[n] = NoBox

(* Numbers are given once.                                                   *)
Fresh == \A n \in Envs : ws[n] \in 0..born /\ db[n] \in 0..born
Single == \A n, m \in Envs : n # m => ws[n] = 0 \/ ws[n] # ws[m]

(* A workspace and its database are apart only in the middle of a rename.    *)
Moving(n, m) == \E a \in Actors : op[a].step = "rename_db" /\ op[a].to = n /\ op[a].env = m
Paired ==
    ~died => \A n, m \in Envs : n # m => ws[n] = 0 \/ db[m] # ws[n] \/ Moving(n, m)

(* What a sweep relies on: a name it has read as idle and still means to     *)
(* judge, or acts on, has not been used since, or that use is on record.     *)
Idle(n) == n \in sweep.late \/ act[n].last # "recent"
Resting(n) == n \in sweep.late \/ box[n].status \in {"stopped", "none"}
Swept ==
    /\ op[Reaper].step # "none" => sweep.phase = "judging"
    /\ sweep.phase # "asleep" =>
         \A n \in sweep.todo : sweep.seen[n] = "stopped" => Resting(n)
    /\ sweep.phase = "judging" =>
         \A n \in sweep.todo : Exists(n) /\ sweep.recs[n].last = "old" => Idle(n)
    /\ op[Reaper].step = "stop" => Idle(op[Reaper].env)
    /\ op[Reaper].step = "drop_box" => Resting(op[Reaper].env)

EnvInv ==
    /\ EnvTypeOK /\ Ordered /\ Locked /\ Staged /\ Boxed
    /\ ServesOwnData /\ Fresh /\ Single /\ Paired /\ Swept

-----------------------------------------------------------------------------
(* What the steps of a thread do to the table of threads and to the locks.   *)

(* A thread goes on to its next step and keeps its locks.                     *)
LEMMA Went ==
    ASSUME ThreadsTyped, NEW a \in Actors, NEW s, Go(a, s)
    PROVE  /\ owner' = owner /\ op'[a].step = s
           /\ op'[a].kind = op[a].kind /\ op'[a].id = op[a].id
           /\ op'[a].env = op[a].env /\ op'[a].to = op[a].to
           /\ \A b \in Actors \ {a} : op'[b] = op[b]
BY DEF ThreadsTyped, Go

(* A thread that is done gives its locks back.                                *)
LEMMA Ended ==
    ASSUME ThreadsTyped, NEW a \in Actors, Done(a)
    PROVE  /\ op'[a].step = "none" /\ op'[a].kind = "none" /\ op'[a].id = 0
           /\ op'[a].env = NoEnv /\ op'[a].to = NoEnv
           /\ \A b \in Actors \ {a} : op'[b] = op[b]
           /\ \A n \in Envs : owner'[n] = IF owner[n] = a THEN Nobody ELSE owner[n]
BY DEF ThreadsTyped, Done, IdleOp

(* A thread that begins takes locks nobody has.                               *)
LEMMA Began ==
    ASSUME ThreadsTyped, NEW a \in Actors, NEW kind, NEW n \in Envs, NEW to \in Envs, NEW step,
           NEW id, Begin(a, kind, n, to, step, id)
    PROVE  /\ op[a].step = "none" /\ owner[n] = Nobody /\ owner[to] = Nobody
           /\ op'[a].step = step /\ op'[a].kind = kind /\ op'[a].id = id
           /\ op'[a].env = n /\ op'[a].to = to
           /\ \A b \in Actors \ {a} : op'[b] = op[b]
           /\ owner'[n] = a /\ owner'[to] = a
           /\ \A m \in Envs \ {n, to} : owner'[m] = owner[m]
BY DEF ThreadsTyped, Begin, At

(* The beginnings of operations.                                             *)
Begins(a, n, to, step, i) ==
    /\ op'[a].step = step /\ op'[a].env = n /\ op'[a].to = to /\ op'[a].id = i
    /\ UNCHANGED <<box, db, ws, born, died>>

(* How each kind of operation begins.                                         *)
LEMMA Begun ==
    ASSUME ThreadsTyped, NEW a \in Actors, NEW n \in Envs
    PROVE  /\ BeginCreate(a, n) => Begins(a, n, n, "clean", 0)
           /\ BeginDelete(a, n) \/ BeginRecreate(a, n) \/ (a = Reaper /\ AutoDelete(n))
                => Begins(a, n, n, "drop_box", box[n].id)
           /\ BeginStop(a, n) \/ (a = Reaper /\ AutoStop(n)) => Begins(a, n, n, "stop", box[n].id)
           /\ BeginStart(a, n) => Begins(a, n, n, "start", box[n].id)
           /\ \A to \in Envs : BeginUpdate(a, n, to) => Begins(a, n, to, "remove_box", box[n].id)
<1> USE DEF Begins, places, EnvBegins, EnvWorks, Begin, ThreadsTyped
<1>1. BeginCreate(a, n) => Begins(a, n, n, "clean", 0) BY DEF BeginCreate
<1>2. BeginDelete(a, n) => Begins(a, n, n, "drop_box", box[n].id) BY DEF BeginDelete
<1>3. BeginRecreate(a, n) => Begins(a, n, n, "drop_box", box[n].id) BY DEF BeginRecreate
<1>4. BeginStop(a, n) => Begins(a, n, n, "stop", box[n].id) BY DEF BeginStop
<1>5. BeginStart(a, n) => Begins(a, n, n, "start", box[n].id) BY DEF BeginStart
<1>6. ASSUME NEW to \in Envs, BeginUpdate(a, n, to) PROVE Begins(a, n, to, "remove_box", box[n].id)
  BY <1>6 DEF BeginUpdate
<1>7. a = Reaper /\ AutoDelete(n) => Begins(a, n, n, "drop_box", box[n].id)
  BY DEF AutoDelete
<1>8. a = Reaper /\ AutoStop(n) => Begins(a, n, n, "stop", box[n].id) BY DEF AutoStop
<1>. QED BY <1>1, <1>2, <1>3, <1>4, <1>5, <1>6, <1>7, <1>8

(* What a clone does to its thread: it takes a new number.                    *)
LEMMA Cloned ==
    ASSUME ThreadsTyped, NEW a \in Actors, MakeWorkspace(a)
    PROVE  /\ op[a].step = "workspace" /\ born < MaxBorn /\ born' = born + 1
           /\ UNCHANGED <<box, db, owner, died>> /\ ws' = [ws EXCEPT ![op[a].env] = born + 1]
           /\ op'[a].step = "database" /\ op'[a].id = born + 1 /\ op'[a].kind = op[a].kind
           /\ op'[a].env = op[a].env /\ op'[a].to = op[a].to
           /\ \A b \in Actors \ {a} : op'[b] = op[b]
BY DEF ThreadsTyped, MakeWorkspace, At, EnvWorks

(* What moving the registries does to its thread: it goes on under the new name. *)
LEMMA Renamed ==
    ASSUME ThreadsTyped, NEW a \in Actors, RenameRecords(a)
    PROVE  /\ op[a].step = "rename_records" /\ UNCHANGED <<box, db, ws, born>>
           /\ \/ /\ op'[a].step = "run_again" /\ op'[a].env = op[a].to /\ owner' = owner
                 /\ op'[a].id = op[a].id /\ op'[a].kind = op[a].kind /\ op'[a].to = op[a].to
                 /\ \A b \in Actors \ {a} : op'[b] = op[b]
              \/ Done(a)
BY DEF ThreadsTyped, RenameRecords, At

-----------------------------------------------------------------------------
(* A step is a thread's, or changes neither data nor threads, or is a death.  *)
(* A thread's step leaves the names it does not own as they are, but for the  *)
(* status of a container that is there.                                       *)

Does(a) ==
    \/ a \in Workers /\ BeginWork(a)
    \/ Work(a)
    \/ a = Reaper /\ \E n \in Envs : AutoStop(n) \/ AutoDelete(n)

LEMMA Steps ==
    ASSUME EnvNext
    PROVE  \/ \E a \in Actors : Does(a)
           \/ UNCHANGED <<box, db, ws, owner, op, born, died>>
           \/ EnvDie
BY DEF EnvNext, Sweeping, Does, SweepList, SweepRead, SweepEnds, Observe, Skip, Protect, Grow,
       EnvWorks, EnvBegins, places, Actors

Yields(a) ==
    /\ \A b \in Actors \ {a} : op'[b] = op[b]
    /\ \A n \in Envs : owner[n] # a =>
          db'[n] = db[n] /\ ws'[n] = ws[n] /\ box'[n].id = box[n].id /\ (Exists(n)' <=> Exists(n))

(* A thread that changes a name owns it.                                      *)
LEMMA Owns ==
    ASSUME Ordered, Locked, NEW a \in Actors, op[a].step \notin {"none", "wake", "mark_started"}
    PROVE  op[a].env \in Envs /\ op[a].to \in Envs /\ owner[op[a].env] = a /\ owner[op[a].to] = a
BY DEF Ordered, Locked, Busy

(* A thread that yields disturbs the stage of no other.                       *)
LEMMA OthersWait ==
    ASSUME ThreadsTyped, Ordered, Locked, NEW a \in Actors, NEW b \in Actors \ {a}, Yields(a),
           Stage(b)
    PROVE  Stage(b)'
<1>1. op'[b] = op[b] BY DEF Yields
<1>2. CASE Busy(b)
  <2>1. op[b].env \in Envs /\ op[b].to \in Envs /\ owner[op[b].env] # a /\ owner[op[b].to] # a
    BY <1>2 DEF Busy, Ordered, Locked
  <2>2. Unmade(b)' BY <1>1, <2>1 DEF Stage, Unmade, Yields
  <2>3. Made(b)' BY <1>1, <2>1 DEF Stage, Made, Yields
  <2>4. Stopping(b)' BY <1>1, <2>1 DEF Stage, Stopping, Yields
  <2>5. Target(b)' BY <1>1, <2>1 DEF Stage, Target, Yields
  <2>6. Carried(b)' BY <1>1, <2>1 DEF Stage, Carried, Yields, Of
  <2>. QED BY <2>2, <2>3, <2>4, <2>5, <2>6 DEF Stage
<1>3. CASE ~Busy(b)
  <2>1. op[b].step \in {"none", "wake", "mark_started"} BY <1>3 DEF Busy, Ordered
  <2>. QED BY <1>1, <2>1 DEF Stage, Unmade, Made, Stopping, Target, Carried
<1>. QED BY <1>2, <1>3

(* A move in one of the places, from one name to another.                    *)
Shifts(f, g, n, m) ==
    \A k \in Envs : g[k] = IF k = m THEN f[n] ELSE IF k = n THEN 0 ELSE f[k]

(* Moved is such a move.                                                      *)
LEMMA MovedShifts ==
    ASSUME NEW f \in [Envs -> Births], NEW n \in Envs, NEW m \in Envs, n # m
    PROVE  Shifts(f, Moved(f, n, m, 0), n, m)
BY DEF Shifts, Moved

(* What MoveWorkspace does to the data.                                       *)
LEMMA MovesData ==
    ASSUME PlacesTyped, ThreadsTyped, Ordered, Locked, NEW a \in Actors, MoveWorkspace(a)
    PROVE  /\ op[a].step = "move" /\ op[a].env \in Envs /\ op[a].to \in Envs /\ op[a].env # op[a].to
           /\ UNCHANGED <<box, db, born>>
           /\ \/ Go(a, "rename_db") /\ Shifts(ws, ws', op[a].env, op[a].to)
              \/ Done(a) /\ UNCHANGED ws
<1>1. /\ op[a].step = "move" /\ op[a].env \in Envs /\ op[a].to \in Envs /\ op[a].env # op[a].to
      /\ UNCHANGED <<box, db, born>>
  BY Owns DEF MoveWorkspace, At, Ordered
<1>2. ASSUME ws' = Moved(ws, op[a].env, op[a].to, 0) PROVE Shifts(ws, ws', op[a].env, op[a].to)
  BY <1>1, <1>2, MovedShifts DEF PlacesTyped
<1>. QED BY <1>1, <1>2 DEF MoveWorkspace

(* What RenameDatabase does to the data: it moves on, or the workspace moves back. *)
LEMMA RenamesData ==
    ASSUME PlacesTyped, ThreadsTyped, Ordered, Locked, NEW a \in Actors, Stage(a), RenameDatabase(a)
    PROVE  /\ op[a].step = "rename_db" /\ op[a].env \in Envs /\ op[a].to \in Envs
           /\ op[a].env # op[a].to
           /\ UNCHANGED <<box, born>>
           /\ \/ Go(a, "rename_records") /\ Shifts(db, db', op[a].env, op[a].to) /\ UNCHANGED ws
              \/ Done(a) /\ Shifts(ws, ws', op[a].to, op[a].env) /\ UNCHANGED db
<1>1. /\ op[a].step = "rename_db" /\ op[a].env \in Envs /\ op[a].to \in Envs /\ op[a].env # op[a].to
      /\ UNCHANGED <<box, born>>
  BY Owns DEF RenameDatabase, At, Ordered
<1>2. db[op[a].to] = 0 BY <1>1 DEF Stage, Target
<1>3. ASSUME db' = (IF db[op[a].env] = 0 THEN db ELSE Moved(db, op[a].env, op[a].to, 0))
      PROVE  Shifts(db, db', op[a].env, op[a].to)
  <2>1. CASE db[op[a].env] = 0 BY <1>1, <1>2, <1>3, <2>1 DEF Shifts, PlacesTyped
  <2>2. CASE db[op[a].env] # 0 BY <1>1, <1>3, <2>2, MovedShifts DEF PlacesTyped
  <2>. QED BY <2>1, <2>2
<1>4. ASSUME PutBack(op[a].env, op[a].to) PROVE Shifts(ws, ws', op[a].to, op[a].env)
  BY <1>1, <1>4, MovedShifts DEF PutBack, PlacesTyped
<1>. QED BY <1>1, <1>3, <1>4 DEF RenameDatabase

Drops ==
    /\ born' = born
    /\ \A n \in Envs : db'[n] \in {0, db[n]} /\ ws'[n] \in {0, ws[n]}

(* What each step does to databases and workspaces.                          *)
MakesData(a) ==
    \/ /\ op[a].step = "workspace" /\ born' = born + 1 /\ UNCHANGED db
       /\ ws' = [ws EXCEPT ![op[a].env] = born + 1] /\ ws[op[a].env] = 0
    \/ /\ op[a].step = "database" /\ UNCHANGED <<ws, born>> /\ db[op[a].env] = 0
       /\ db' = [db EXCEPT ![op[a].env] = op[a].id]
ShiftsData(a) ==
    /\ op[a].env \in Envs /\ op[a].to \in Envs /\ op[a].env # op[a].to /\ UNCHANGED born
    /\ \/ /\ op[a].step = "move" /\ UNCHANGED db
          /\ Shifts(ws, ws', op[a].env, op[a].to) /\ Go(a, "rename_db")
       \/ /\ op[a].step = "rename_db" /\ UNCHANGED ws
          /\ Shifts(db, db', op[a].env, op[a].to) /\ Go(a, "rename_records")
       \/ /\ op[a].step = "rename_db" /\ UNCHANGED db
          /\ Shifts(ws, ws', op[a].to, op[a].env) /\ Done(a)

(* A thread at this step renames the database and does nothing else.          *)
LEMMA OnlyRename ==
    ASSUME NEW a \in Actors, Does(a), op[a].step = "rename_db"
    PROVE  RenameDatabase(a)
<1> USE DEF At
<1>1. ~BeginWork(a)
  BY DEF BeginWork, BeginCreate, BeginDelete, BeginRecreate, BeginStop, BeginStart, BeginWake,
         BeginUpdate, Begin
<1>2. \A n \in Envs : a = Reaper => ~AutoStop(n) /\ ~AutoDelete(n)
  BY DEF AutoStop, AutoDelete, Begin
<1>3. Work(a) BY <1>1, <1>2 DEF Does
<1>4. ~(CleanOld(a) \/ MakeWorkspace(a) \/ MakeDatabase(a) \/ RunBox(a) \/ Configure(a)
        \/ RecordCreated(a) \/ CreateRaises(a) \/ RollBack(a))
  BY DEF CleanOld, MakeWorkspace, MakeDatabase, RunBox, Configure, RecordCreated, CreateRaises,
     RollBack
<1>5. ~(DropBox(a) \/ DropDatabase(a) \/ DropWorkspace(a) \/ Forget(a) \/ RemoveBox(a)
        \/ MoveWorkspace(a) \/ RenameRecords(a) \/ RunAgain(a))
  BY DEF DropBox, DropDatabase, DropWorkspace, Forget, RemoveBox, MoveWorkspace, RenameRecords,
     RunAgain
<1>6. ~(StopBox(a) \/ MarkStopped(a) \/ StartBox(a) \/ MarkStarted(a))
  BY DEF StopBox, MarkStopped, StartBox, MarkStarted
<1>. QED BY <1>3, <1>4, <1>5, <1>6 DEF Work

(* What a step does to the containers.                                       *)
Makes(a, n) ==
    /\ op[a].step \in {"run", "run_again"} /\ n = op[a].env
    /\ box'[n] = [status |-> "running", id |-> op[a].id]
Handles(n) == Exists(n) /\ box'[n].id = box[n].id /\ box'[n].status \in {"running", "stopped"}
BoxSteps(a) == \A n \in Envs : box'[n] = box[n] \/ box'[n] = NoBox \/ Handles(n) \/ Makes(a, n)

(* Setting the status of a container that is there.                           *)
LEMMA SetsStatus ==
    ASSUME PlacesTyped, NEW a \in Actors, NEW n \in Envs, Exists(n),
           NEW s \in {"running", "stopped", box[n].status}, box' = [box EXCEPT ![n].status = s]
    PROVE  BoxSteps(a)
BY DEF PlacesTyped, Boxes, Statuses, Exists, BoxSteps, Handles

(* What a thread's step tells the sweep.                                     *)
Noticed(n) == sweep.phase # "asleep" => n \in sweep'.late
Listened ==
    /\ sweep'.phase = sweep.phase /\ sweep.late \subseteq sweep'.late /\ sweep'.todo \subseteq sweep.todo
    /\ \A n \in sweep'.todo : sweep'.seen[n] = sweep.seen[n] /\ sweep'.recs[n] = sweep.recs[n]
Minded(a) ==
    \A n \in Envs :
        \/ Noticed(n)
        \/ /\ box'[n].status = "running" => box[n].status = "running"
           /\ box'[n].status # "none" => box[n].status # "none"
           /\ \/ act'[n].last = "recent" => act[n].last = "recent"
              \/ op[a].step = "rename_records" /\ n = op[a].to

(* Work on a name is noticed by the sweep.                                    *)
LEMMA WorkIsNoticed ==
    ASSUME SweepTyped, NEW n \in Envs, Worked(n)
    PROVE  Listened /\ Noticed(n)
BY DEF SweepTyped, Worked, Listened, Noticed

(* Leaving the sweep alone changes nothing it relies on.                      *)
LEMMA StillListens ==
    ASSUME UNCHANGED sweep
    PROVE  Listened
BY DEF Listened

(* A name that has been judged is no longer to be judged.                     *)
LEMMA JudgingListens ==
    ASSUME SweepTyped, NEW n \in Envs, Judged(n)
    PROVE  /\ Listened /\ n \notin sweep'.todo /\ sweep'.late = sweep.late
BY DEF SweepTyped, Judged, Listened

(* The types are kept.                                                       *)

(* The next step of a thread.                                                 *)
LEMMA GoKeepsTypes ==
    ASSUME ThreadsTyped, NEW a \in Actors, NEW s \in EnvSteps, Go(a, s)
    PROVE  ThreadsTyped'
BY DEF ThreadsTyped, Go

(* The end of an operation.                                                   *)
LEMMA DoneKeepsTypes ==
    ASSUME ThreadsTyped, NEW a \in Actors, Done(a)
    PROVE  ThreadsTyped'
BY EnvConstants DEF ThreadsTyped, Done, IdleOp, Kinds, EnvSteps, Births

(* Its beginning.                                                             *)
LEMMA BeginKeepsTypes ==
    ASSUME ThreadsTyped, NEW a \in Actors, NEW kind \in Kinds, NEW n \in Envs, NEW to \in Envs,
           NEW step \in EnvSteps, NEW id \in Births, Begin(a, kind, n, to, step, id)
    PROVE  ThreadsTyped'
BY DEF ThreadsTyped, Begin

(* A new status of a container.                                               *)
LEMMA SetsStatusTyped ==
    ASSUME box \in [Envs -> Boxes], NEW n, NEW s \in Statuses, box' = [box EXCEPT ![n].status = s]
    PROVE  box' \in [Envs -> Boxes]
BY DEF Boxes

(* A new container.                                                           *)
LEMMA SetsBoxTyped ==
    ASSUME box \in [Envs -> Boxes], NEW n, NEW b \in Boxes, box' = [box EXCEPT ![n] = b]
    PROVE  box' \in [Envs -> Boxes]
OBVIOUS

(* A container that a creation or an update starts.                           *)
LEMMA MakesBoxTyped ==
    ASSUME box \in [Envs -> Boxes], ThreadsTyped, NEW a \in Actors, NEW n \in Envs,
           box' = [box EXCEPT ![n] = [status |-> "running", id |-> op[a].id]]
    PROVE  box' \in [Envs -> Boxes]
<1>1. op[a].id \in Births BY DEF ThreadsTyped
<1>2. [status |-> "running", id |-> op[a].id] \in Boxes BY <1>1 DEF Boxes, Statuses
<1>. QED BY <1>2, SetsBoxTyped

(* Work that comes in during a sweep.                                         *)
LEMMA WorkKeepsTypes ==
    ASSUME SweepTyped, NEW n \in Envs, Worked(n)
    PROVE  SweepTyped'
BY DEF SweepTyped, Worked

(* A name that is judged.                                                     *)
LEMMA JudgingKeepsTypes ==
    ASSUME SweepTyped, NEW n \in Envs, Judged(n)
    PROVE  SweepTyped'
BY DEF SweepTyped, Judged, Statuses, Ages, NoRecord

(* The step of a thread goes with its operation.                              *)
LEMMA ThreadsKept ==
    ASSUME ThreadsTyped, CountsTyped, Ordered, Boxed, EnvNext
    PROVE  Ordered'
<1> USE EnvConstants DEF Actors, Ordered, Numbered
<1>1. CASE
     \/ SweepList \/ SweepRead \/ SweepEnds
     \/ \E n \in Envs : Observe(n) \/ Skip(n) \/ Protect(n) \/ Grow(n)
  <2>1. UNCHANGED op
    BY <1>1 DEF SweepList, places, EnvWorks, SweepRead, SweepEnds, Observe,
        Judged, Skip, Protect, EnvBegins, Grow
  <2>. QED BY <2>1, Went, Ended, Began
<1>2. ASSUME NEW w \in Workers, NEW n \in Envs, BeginCreate(w, n) PROVE Ordered'
  BY <1>2, Went, Ended, Began DEF BeginCreate, Exists, places, EnvBegins, At
<1>3. ASSUME NEW w \in Workers, NEW n \in Envs, BeginDelete(w, n) PROVE Ordered'
  BY <1>3, Went, Ended, Began DEF BeginDelete, Deletable, Touch, EnvBegins,
      Exists, At, Worked
<1>4. ASSUME NEW w \in Workers, NEW n \in Envs, BeginRecreate(w, n) PROVE Ordered'
  BY <1>4, Went, Ended, Began DEF BeginRecreate, Deletable, Exists, Touch,
      EnvBegins, At, Worked, Boxed
<1>5. ASSUME NEW w \in Workers, NEW n \in Envs, BeginStop(w, n) PROVE Ordered'
  BY <1>5, Went, Ended, Began DEF BeginStop, Exists, Touch, EnvBegins, At,
      Worked
<1>6. ASSUME NEW w \in Workers, NEW n \in Envs, BeginStart(w, n) PROVE Ordered'
  BY <1>6, Went, Ended, Began DEF BeginStart, Exists, Touch, EnvBegins, At,
      Worked
<1>7. ASSUME NEW w \in Workers, NEW n \in Envs, BeginWake(w, n) PROVE Ordered'
  BY <1>7, Went, Ended, Began DEF BeginWake, At, places, EnvBegins
<1>8. ASSUME NEW w \in Workers, NEW n \in Envs, NEW to \in Envs, BeginUpdate(w, n, to)
      PROVE  Ordered'
  BY <1>8, Went, Ended, Began DEF BeginUpdate, Exists, Free, Touch, EnvBegins,
      At, Worked, Boxed
<1>9. ASSUME NEW a \in Actors, CleanOld(a) PROVE Ordered'
  BY <1>9, Went, Ended, Began DEF CleanOld, At, EnvWorks, EnvFails
<1>10. ASSUME NEW a \in Actors, MakeWorkspace(a) PROVE Ordered'
  BY <1>10, Went, Ended, Began, Cloned DEF CountsTyped, Births
<1>11. ASSUME NEW a \in Actors, MakeDatabase(a) PROVE Ordered'
  BY <1>11, Went, Ended, Began DEF MakeDatabase, At, EnvWorks
<1>12. ASSUME NEW a \in Actors, RunBox(a) PROVE Ordered'
  BY <1>12, Went, Ended, Began DEF RunBox, At, Worked, EnvWorks, EnvFails
<1>13. ASSUME NEW a \in Actors, Configure(a) PROVE Ordered'
  BY <1>13, Went, Ended, Began DEF Configure, At, EnvWorks, EnvFails, places
<1>14. ASSUME NEW a \in Actors, RecordCreated(a) PROVE Ordered'
  BY <1>14, Went, Ended, Began DEF RecordCreated, At, Worked, Token, EnvWorks,
      EnvFails
<1>15. ASSUME NEW a \in Actors, CreateRaises(a) PROVE Ordered'
  BY <1>15, Went, Ended, Began DEF CreateRaises, EnvFails, At, EnvWorks,
      Revoke
<1>16. ASSUME NEW a \in Actors, RollBack(a) PROVE Ordered'
  BY <1>16, Went, Ended, Began DEF RollBack, At, EnvWorks, EnvFails, Revoke
<1>17. ASSUME NEW a \in Actors, DropBox(a) PROVE Ordered'
  BY <1>17, Went, Ended, Began DEF DropBox, At, EnvWorks, Exists, EnvFails
<1>18. ASSUME NEW a \in Actors, DropDatabase(a) PROVE Ordered'
  BY <1>18, Went, Ended, Began DEF DropDatabase, At, EnvWorks, EnvFails
<1>19. ASSUME NEW a \in Actors, DropWorkspace(a) PROVE Ordered'
  BY <1>19, Went, Ended, Began DEF DropWorkspace, At, EnvWorks, EnvFails,
      Strand
<1>20. ASSUME NEW a \in Actors, Forget(a) PROVE Ordered'
  BY <1>20, Went, Ended, Began DEF Forget, At, EnvWorks, EnvFails, Strand
<1>21. ASSUME NEW a \in Actors, RemoveBox(a) PROVE Ordered'
  BY <1>21, Went, Ended, Began DEF RemoveBox, At, EnvWorks, Exists, EnvFails
<1>22. ASSUME NEW a \in Actors, MoveWorkspace(a) PROVE Ordered'
  BY <1>22, Went, Ended, Began DEF MoveWorkspace, At, Moved, EnvWorks,
      EnvFails, Strand
<1>23. ASSUME NEW a \in Actors, RenameDatabase(a) PROVE Ordered'
  BY <1>23, Went, Ended, Began DEF RenameDatabase, At, Moved, EnvWorks,
      PutBack, Strand, EnvFails
<1>24. ASSUME NEW a \in Actors, RenameRecords(a) PROVE Ordered'
  BY <1>24, Went, Ended, Began, Renamed
<1>25. ASSUME NEW a \in Actors, RunAgain(a) PROVE Ordered'
  BY <1>25, Went, Ended, Began DEF RunAgain, At, Exists, EnvWorks, Worked,
      EnvFails, Strand
<1>26. ASSUME NEW a \in Actors, StopBox(a) PROVE Ordered'
  BY <1>26, Went, Ended, Began DEF StopBox, At, SetStatus, EnvWorks
<1>27. ASSUME NEW a \in Actors, MarkStopped(a) PROVE Ordered'
  BY <1>27, Went, Ended, Began DEF MarkStopped, At, MarkedStopped, EnvWorks
<1>28. ASSUME NEW a \in Actors, StartBox(a) PROVE Ordered'
  BY <1>28, Went, Ended, Began DEF StartBox, Exists, SetStatus, Worked,
      EnvWorks
<1>29. ASSUME NEW a \in Actors, MarkStarted(a) PROVE Ordered'
  BY <1>29, Went, Ended, Began DEF MarkStarted, At, MarkedStarted, Worked,
      EnvWorks
<1>30. ASSUME NEW n \in Envs, AutoStop(n) PROVE Ordered'
  BY <1>30, Went, Ended, Began DEF AutoStop, ToJudge, Judged, Expired, Exists,
      places, EnvWorks, At
<1>31. ASSUME NEW n \in Envs, AutoDelete(n) PROVE Ordered'
  BY <1>31, Went, Ended, Began DEF AutoDelete, ToJudge, Judged, Expired,
      Deletable, places, EnvWorks, At, Exists
<1>32. CASE EnvDie
  BY <1>32, Went, Ended, Began DEF EnvDie, HalfDone, places, IdleOp
<1>. QED
  BY <1>1, <1>2, <1>3, <1>4, <1>5, <1>6, <1>7, <1>8, <1>9, <1>10, <1>11,
     <1>12, <1>13, <1>14, <1>15, <1>16, <1>17, <1>18, <1>19, <1>20, <1>21,
     <1>22, <1>23, <1>24, <1>25, <1>26, <1>27, <1>28, <1>29, <1>30, <1>31,
     <1>32
    DEF EnvNext, BeginWork, Work, Sweeping

(* A thread owns the names of its operation until it is done.                 *)
LEMMA LocksKept ==
    ASSUME ThreadsTyped, Ordered, Locked, EnvNext
    PROVE  Locked'
<1> USE EnvConstants DEF Actors, Ordered, Locked, Busy
<1>1. CASE
     \/ SweepList \/ SweepRead \/ SweepEnds
     \/ \E n \in Envs : Observe(n) \/ Skip(n) \/ Protect(n) \/ Grow(n)
  <2>1. UNCHANGED <<owner, op>>
    BY <1>1 DEF SweepList, places, EnvWorks, SweepRead, SweepEnds, Observe,
        Judged, Skip, Protect, EnvBegins, Grow
  <2>. QED BY <2>1, Went, Ended, Began
<1>2. ASSUME NEW w \in Workers, NEW n \in Envs, BeginCreate(w, n) PROVE Locked'
  BY <1>2, Went, Ended, Began DEF BeginCreate, Exists, places, EnvBegins, At
<1>3. ASSUME NEW w \in Workers, NEW n \in Envs, BeginDelete(w, n) PROVE Locked'
  BY <1>3, Went, Ended, Began DEF BeginDelete, Deletable, Touch, EnvBegins,
      Exists, At, Worked
<1>4. ASSUME NEW w \in Workers, NEW n \in Envs, BeginRecreate(w, n) PROVE Locked'
  BY <1>4, Went, Ended, Began DEF BeginRecreate, Deletable, Exists, Touch,
      EnvBegins, At, Worked
<1>5. ASSUME NEW w \in Workers, NEW n \in Envs, BeginStop(w, n) PROVE Locked'
  BY <1>5, Went, Ended, Began DEF BeginStop, Exists, Touch, EnvBegins, At,
      Worked
<1>6. ASSUME NEW w \in Workers, NEW n \in Envs, BeginStart(w, n) PROVE Locked'
  BY <1>6, Went, Ended, Began DEF BeginStart, Exists, Touch, EnvBegins, At,
      Worked
<1>7. ASSUME NEW w \in Workers, NEW n \in Envs, BeginWake(w, n) PROVE Locked'
  BY <1>7, Went, Ended, Began DEF BeginWake, At, places, EnvBegins
<1>8. ASSUME NEW w \in Workers, NEW n \in Envs, NEW to \in Envs, BeginUpdate(w, n, to) PROVE Locked'
  BY <1>8, Went, Ended, Began DEF BeginUpdate, Exists, Free, Touch, EnvBegins,
      At, Worked
<1>9. ASSUME NEW a \in Actors, CleanOld(a) PROVE Locked'
  BY <1>9, Went, Ended, Began DEF CleanOld, At, EnvWorks, EnvFails
<1>10. ASSUME NEW a \in Actors, MakeWorkspace(a) PROVE Locked'
  BY <1>10, Went, Ended, Began, Cloned
<1>11. ASSUME NEW a \in Actors, MakeDatabase(a) PROVE Locked'
  BY <1>11, Went, Ended, Began DEF MakeDatabase, At, EnvWorks
<1>12. ASSUME NEW a \in Actors, RunBox(a) PROVE Locked'
  BY <1>12, Went, Ended, Began DEF RunBox, At, Worked, EnvWorks, EnvFails
<1>13. ASSUME NEW a \in Actors, Configure(a) PROVE Locked'
  BY <1>13, Went, Ended, Began DEF Configure, At, EnvWorks, EnvFails, places
<1>14. ASSUME NEW a \in Actors, RecordCreated(a) PROVE Locked'
  BY <1>14, Went, Ended, Began DEF RecordCreated, At, Worked, Token, EnvWorks,
      EnvFails
<1>15. ASSUME NEW a \in Actors, CreateRaises(a) PROVE Locked'
  BY <1>15, Went, Ended, Began DEF CreateRaises, EnvFails, At, EnvWorks,
      Revoke
<1>16. ASSUME NEW a \in Actors, RollBack(a) PROVE Locked'
  BY <1>16, Went, Ended, Began DEF RollBack, At, EnvWorks, EnvFails, Revoke
<1>17. ASSUME NEW a \in Actors, DropBox(a) PROVE Locked'
  BY <1>17, Went, Ended, Began DEF DropBox, At, EnvWorks, Exists, EnvFails
<1>18. ASSUME NEW a \in Actors, DropDatabase(a) PROVE Locked'
  BY <1>18, Went, Ended, Began DEF DropDatabase, At, EnvWorks, EnvFails
<1>19. ASSUME NEW a \in Actors, DropWorkspace(a) PROVE Locked'
  BY <1>19, Went, Ended, Began DEF DropWorkspace, At, EnvWorks, EnvFails,
      Strand
<1>20. ASSUME NEW a \in Actors, Forget(a) PROVE Locked'
  BY <1>20, Went, Ended, Began DEF Forget, At, EnvWorks, EnvFails, Strand
<1>21. ASSUME NEW a \in Actors, RemoveBox(a) PROVE Locked'
  BY <1>21, Went, Ended, Began DEF RemoveBox, At, EnvWorks, Exists, EnvFails
<1>22. ASSUME NEW a \in Actors, MoveWorkspace(a) PROVE Locked'
  BY <1>22, Went, Ended, Began DEF MoveWorkspace, At, Moved, EnvWorks,
      EnvFails, Strand
<1>23. ASSUME NEW a \in Actors, RenameDatabase(a) PROVE Locked'
  BY <1>23, Went, Ended, Began DEF RenameDatabase, At, Moved, EnvWorks,
      PutBack, Strand, EnvFails
<1>24. ASSUME NEW a \in Actors, RenameRecords(a) PROVE Locked'
  BY <1>24, Went, Ended, Began, Renamed
<1>25. ASSUME NEW a \in Actors, RunAgain(a) PROVE Locked'
  BY <1>25, Went, Ended, Began DEF RunAgain, At, Exists, EnvWorks, Worked,
      EnvFails, Strand
<1>26. ASSUME NEW a \in Actors, StopBox(a) PROVE Locked'
  BY <1>26, Went, Ended, Began DEF StopBox, At, SetStatus, EnvWorks
<1>27. ASSUME NEW a \in Actors, MarkStopped(a) PROVE Locked'
  BY <1>27, Went, Ended, Began DEF MarkStopped, At, MarkedStopped, EnvWorks
<1>28. ASSUME NEW a \in Actors, StartBox(a) PROVE Locked'
  BY <1>28, Went, Ended, Began DEF StartBox, Exists, SetStatus, Worked,
      EnvWorks
<1>29. ASSUME NEW a \in Actors, MarkStarted(a) PROVE Locked'
  BY <1>29, Went, Ended, Began DEF MarkStarted, At, MarkedStarted, Worked,
      EnvWorks
<1>30. ASSUME NEW n \in Envs, AutoStop(n) PROVE Locked'
  BY <1>30, Went, Ended, Began DEF AutoStop, ToJudge, Judged, Expired, Exists,
      places, EnvWorks, At
<1>31. ASSUME NEW n \in Envs, AutoDelete(n) PROVE Locked'
  BY <1>31, Went, Ended, Began DEF AutoDelete, ToJudge, Judged, Expired,
      Deletable, places, EnvWorks, At, Exists
<1>32. CASE EnvDie
  BY <1>32, Went, Ended, Began DEF EnvDie, HalfDone, places, IdleOp
<1>. QED
  BY <1>1, <1>2, <1>3, <1>4, <1>5, <1>6, <1>7, <1>8, <1>9, <1>10, <1>11,
     <1>12, <1>13, <1>14, <1>15, <1>16, <1>17, <1>18, <1>19, <1>20, <1>21,
     <1>22, <1>23, <1>24, <1>25, <1>26, <1>27, <1>28, <1>29, <1>30, <1>31,
     <1>32
    DEF EnvNext, BeginWork, Work, Sweeping

(* Every step of a thread leaves the names of others alone.                   *)
LEMMA Yielding ==
    ASSUME PlacesTyped, ThreadsTyped, Ordered, Locked, Staged, NEW a \in Actors, Does(a)
    PROVE  Yields(a)
<1> USE EnvConstants DEF Actors, PlacesTyped, Boxes, Yields, Exists
<1>1. ASSUME NEW n \in Envs, BeginCreate(a, n) PROVE Yields(a)
  BY <1>1, Owns, Went, Ended, Began DEF BeginCreate, places, At
<1>2. ASSUME NEW n \in Envs, BeginDelete(a, n) PROVE Yields(a)
  BY <1>2, Owns, Went, Ended, Began DEF BeginDelete, At
<1>3. ASSUME NEW n \in Envs, BeginRecreate(a, n) PROVE Yields(a)
  BY <1>3, Owns, Went, Ended, Began DEF BeginRecreate, At
<1>4. ASSUME NEW n \in Envs, BeginStop(a, n) PROVE Yields(a)
  BY <1>4, Owns, Went, Ended, Began DEF BeginStop, At
<1>5. ASSUME NEW n \in Envs, BeginStart(a, n) PROVE Yields(a)
  BY <1>5, Owns, Went, Ended, Began DEF BeginStart, At
<1>6. ASSUME NEW n \in Envs, BeginWake(a, n) PROVE Yields(a)
  BY <1>6, Owns, Went, Ended, Began DEF BeginWake, At, places
<1>7. ASSUME NEW n \in Envs, NEW to \in Envs, BeginUpdate(a, n, to) PROVE Yields(a)
  <2>1. \A b \in Actors \ {a} : op'[b] = op[b] BY <1>7, Began DEF BeginUpdate
  <2>. QED BY <1>7, <2>1 DEF BeginUpdate
<1>8. CASE CleanOld(a)
  <2>1. op[a].env \in Envs /\ op[a].to \in Envs /\ owner[op[a].env] = a /\ owner[op[a].to] = a
    BY <1>8, Owns DEF CleanOld, At
  <2>2. \A b \in Actors \ {a} : op'[b] = op[b] BY <1>8, Went DEF CleanOld
  <2>3. \A n \in Envs : owner[n] # a =>
          db'[n] = db[n] /\ ws'[n] = ws[n] /\ box'[n].id = box[n].id /\ (Exists(n)' <=> Exists(n))
    BY <1>8, <2>1 DEF CleanOld, At
  <2>. QED BY <2>2, <2>3
<1>9. CASE MakeWorkspace(a)
  BY <1>9, Owns, Went, Ended, Began, Cloned
<1>10. CASE MakeDatabase(a)
  BY <1>10, Owns, Went, Ended, Began DEF MakeDatabase, At
<1>11. CASE RunBox(a)
  BY <1>11, Owns, Went, Ended, Began DEF RunBox, At
<1>12. CASE Configure(a)
  BY <1>12, Owns, Went, Ended, Began DEF Configure, At, places
<1>13. CASE RecordCreated(a)
  BY <1>13, Owns, Went, Ended, Began DEF RecordCreated, At
<1>14. CASE CreateRaises(a)
  BY <1>14, Owns, Went, Ended, Began DEF CreateRaises, At
<1>15. CASE RollBack(a)
  <2>1. op[a].env \in Envs /\ op[a].to \in Envs /\ owner[op[a].env] = a /\ owner[op[a].to] = a
    BY <1>15, Owns DEF RollBack, At
  <2>2. \A b \in Actors \ {a} : op'[b] = op[b] BY <1>15, Ended DEF RollBack
  <2>3. \A n \in Envs : owner[n] # a =>
          db'[n] = db[n] /\ ws'[n] = ws[n] /\ box'[n].id = box[n].id /\ (Exists(n)' <=> Exists(n))
    BY <1>15, <2>1 DEF RollBack, At
  <2>. QED BY <2>2, <2>3
<1>16. CASE DropBox(a)
  <2>1. op[a].env \in Envs /\ op[a].to \in Envs /\ owner[op[a].env] = a /\ owner[op[a].to] = a
    BY <1>16, Owns DEF DropBox, At
  <2>2. \A b \in Actors \ {a} : op'[b] = op[b] BY <1>16, Went, Ended DEF DropBox
  <2>3. \A n \in Envs : owner[n] # a =>
          db'[n] = db[n] /\ ws'[n] = ws[n] /\ box'[n].id = box[n].id /\ (Exists(n)' <=> Exists(n))
    BY <1>16, <2>1 DEF DropBox, At
  <2>. QED BY <2>2, <2>3
<1>17. CASE DropDatabase(a)
  <2>1. op[a].env \in Envs /\ op[a].to \in Envs /\ owner[op[a].env] = a /\ owner[op[a].to] = a
    BY <1>17, Owns DEF DropDatabase, At
  <2>2. \A b \in Actors \ {a} : op'[b] = op[b] BY <1>17, Went DEF DropDatabase
  <2>3. \A n \in Envs : owner[n] # a =>
          db'[n] = db[n] /\ ws'[n] = ws[n] /\ box'[n].id = box[n].id /\ (Exists(n)' <=> Exists(n))
    BY <1>17, <2>1 DEF DropDatabase, At
  <2>. QED BY <2>2, <2>3
<1>18. CASE DropWorkspace(a)
  <2>1. op[a].env \in Envs /\ op[a].to \in Envs /\ owner[op[a].env] = a /\ owner[op[a].to] = a
    BY <1>18, Owns DEF DropWorkspace, At
  <2>2. \A b \in Actors \ {a} : op'[b] = op[b] BY <1>18, Went, Ended DEF DropWorkspace
  <2>3. \A n \in Envs : owner[n] # a =>
          db'[n] = db[n] /\ ws'[n] = ws[n] /\ box'[n].id = box[n].id /\ (Exists(n)' <=> Exists(n))
    BY <1>18, <2>1 DEF DropWorkspace, At
  <2>. QED BY <2>2, <2>3
<1>19. CASE Forget(a)
  BY <1>19, Owns, Went, Ended, Began DEF Forget, At
<1>20. CASE RemoveBox(a)
  <2>1. op[a].env \in Envs /\ op[a].to \in Envs /\ owner[op[a].env] = a /\ owner[op[a].to] = a
    BY <1>20, Owns DEF RemoveBox, At
  <2>2. \A b \in Actors \ {a} : op'[b] = op[b] BY <1>20, Went DEF RemoveBox
  <2>3. \A n \in Envs : owner[n] # a =>
          db'[n] = db[n] /\ ws'[n] = ws[n] /\ box'[n].id = box[n].id /\ (Exists(n)' <=> Exists(n))
    BY <1>20, <2>1 DEF RemoveBox, At
  <2>. QED BY <2>2, <2>3
<1>21. CASE MoveWorkspace(a)
  <2>1. op[a].env \in Envs /\ op[a].to \in Envs /\ owner[op[a].env] = a /\ owner[op[a].to] = a
    BY <1>21, Owns DEF MoveWorkspace, At
  <2>2. \A b \in Actors \ {a} : op'[b] = op[b] BY <1>21, Went, Ended DEF MoveWorkspace
  <2>3. \A n \in Envs : owner[n] # a =>
          db'[n] = db[n] /\ ws'[n] = ws[n] /\ box'[n].id = box[n].id /\ (Exists(n)' <=> Exists(n))
    BY <1>21, <2>1 DEF MoveWorkspace, At, Moved
  <2>. QED BY <2>2, <2>3
<1>22. CASE RenameDatabase(a)
  <2>1. op[a].env \in Envs /\ op[a].to \in Envs /\ owner[op[a].env] = a /\ owner[op[a].to] = a
    BY <1>22, Owns DEF RenameDatabase, At
  <2>2. \A b \in Actors \ {a} : op'[b] = op[b] BY <1>22, Went, Ended DEF RenameDatabase
  <2>3. \A n \in Envs : owner[n] # a =>
          db'[n] = db[n] /\ ws'[n] = ws[n] /\ box'[n].id = box[n].id /\ (Exists(n)' <=> Exists(n))
    BY <1>22, <2>1 DEF RenameDatabase, At, Moved, PutBack
  <2>. QED BY <2>2, <2>3
<1>23. CASE RenameRecords(a)
  BY <1>23, Owns, Went, Ended, Began, Renamed
<1>24. CASE RunAgain(a)
  <2>1. op[a].env \in Envs /\ op[a].to \in Envs /\ owner[op[a].env] = a /\ owner[op[a].to] = a
    BY <1>24, Owns DEF RunAgain, At
  <2>2. \A b \in Actors \ {a} : op'[b] = op[b] BY <1>24, Ended DEF RunAgain
  <2>3. \A n \in Envs : owner[n] # a =>
          db'[n] = db[n] /\ ws'[n] = ws[n] /\ box'[n].id = box[n].id /\ (Exists(n)' <=> Exists(n))
    BY <1>24, <2>1 DEF RunAgain, At
  <2>. QED BY <2>2, <2>3
<1>25. CASE StopBox(a)
  BY <1>25, Owns, Went, Ended, Began DEF StopBox, At, SetStatus, Staged,
      Stage, Stopping
<1>26. CASE MarkStopped(a)
  BY <1>26, Owns, Went, Ended, Began DEF MarkStopped, At
<1>27. CASE StartBox(a)
  BY <1>27, Owns, Went, Ended, Began DEF StartBox, SetStatus, Ordered
<1>28. CASE MarkStarted(a)
  BY <1>28, Owns, Went, Ended, Began DEF MarkStarted, At
<1>29. ASSUME a = Reaper, NEW n \in Envs, AutoStop(n) PROVE Yields(a)
  BY <1>29, Began DEF AutoStop, places
<1>30. ASSUME a = Reaper, NEW n \in Envs, AutoDelete(n) PROVE Yields(a)
  BY <1>30, Began DEF AutoDelete, places
<1>. QED
  BY <1>1, <1>2, <1>3, <1>4, <1>5, <1>6, <1>7, <1>8, <1>9, <1>10, <1>11,
     <1>12, <1>13, <1>14, <1>15, <1>16, <1>17, <1>18, <1>19, <1>20, <1>21,
     <1>22, <1>23, <1>24, <1>25, <1>26, <1>27, <1>28, <1>29, <1>30
    DEF Does, BeginWork, Work

(* Every step of a thread establishes what its next step relies on.           *)
LEMMA OwnStage ==
    ASSUME PlacesTyped, ThreadsTyped, Ordered, Locked, ServesOwnData, Boxed, NEW a \in Actors,
           Stage(a), Does(a)
    PROVE  Stage(a)'
<1> USE EnvConstants DEF Actors, PlacesTyped, Boxes, Exists, Stage, Unmade,
        Made, Stopping, Target, Carried, Of
<1>1. ASSUME NEW n \in Envs, BeginCreate(a, n) PROVE Stage(a)'
  <2>1. Begins(a, n, n, "clean", 0) BY <1>1, Begun
  <2>. QED BY <1>1, <2>1 DEF BeginCreate, Begins
<1>2. ASSUME NEW n \in Envs, BeginDelete(a, n) PROVE Stage(a)'
  <2>1. Begins(a, n, n, "drop_box", box[n].id) BY <1>2, Begun
  <2>. QED BY <1>2, <2>1 DEF BeginDelete, Begins
<1>3. ASSUME NEW n \in Envs, BeginRecreate(a, n) PROVE Stage(a)'
  <2>1. Begins(a, n, n, "drop_box", box[n].id) BY <1>3, Begun
  <2>. QED BY <1>3, <2>1 DEF BeginRecreate, Begins
<1>4. ASSUME NEW n \in Envs, BeginStop(a, n) PROVE Stage(a)'
  <2>1. Begins(a, n, n, "stop", box[n].id) BY <1>4, Begun
  <2>. QED BY <1>4, <2>1 DEF BeginStop, Begins
<1>5. ASSUME NEW n \in Envs, BeginStart(a, n) PROVE Stage(a)'
  <2>1. Begins(a, n, n, "start", box[n].id) BY <1>5, Begun
  <2>. QED BY <1>5, <2>1 DEF BeginStart, Begins
<1>6. ASSUME NEW n \in Envs, BeginWake(a, n) PROVE Stage(a)'
  BY <1>6, Owns, Went, Ended, Began DEF BeginWake, At, places
<1>7. ASSUME NEW n \in Envs, NEW to \in Envs, BeginUpdate(a, n, to) PROVE Stage(a)'
  <2>1. Begins(a, n, to, "remove_box", box[n].id) BY <1>7, Begun
  <2>. QED BY <1>7, <2>1 DEF BeginUpdate, Begins, Free, ServesOwnData
<1>8. CASE CleanOld(a)
  BY <1>8, Owns, Went, Ended, Began DEF CleanOld, At
<1>9. CASE MakeWorkspace(a)
  BY <1>9, Owns, Went, Ended, Began, Cloned
<1>10. CASE MakeDatabase(a)
  BY <1>10, Owns, Went, Ended, Began DEF MakeDatabase, At
<1>11. CASE RunBox(a)
  BY <1>11, Owns, Went, Ended, Began DEF RunBox, At
<1>12. CASE Configure(a)
  BY <1>12, Owns, Went, Ended, Began DEF Configure, At, places
<1>13. CASE RecordCreated(a)
  BY <1>13, Owns, Went, Ended, Began DEF RecordCreated, At
<1>14. CASE CreateRaises(a)
  BY <1>14, Owns, Went, Ended, Began DEF CreateRaises, At
<1>15. CASE RollBack(a)
  BY <1>15, Owns, Went, Ended, Began DEF RollBack, At, NoBox
<1>16. CASE DropBox(a)
  <2>1. CASE Go(a, "drop_database") /\ box' = [box EXCEPT ![op[a].env] = NoBox]
    BY <1>16, <2>1, Owns, Went DEF DropBox, At, NoBox
  <2>2. CASE Done(a) BY <2>2, Ended
  <2>. QED BY <1>16, <2>1, <2>2 DEF DropBox
<1>17. CASE DropDatabase(a)
  BY <1>17, Owns, Went, Ended, Began DEF DropDatabase, At
<1>18. CASE DropWorkspace(a)
  BY <1>18, Owns, Went, Ended, Began DEF DropWorkspace, At
<1>19. CASE Forget(a)
  BY <1>19, Owns, Went, Ended, Began DEF Forget, At
<1>20. CASE RemoveBox(a)
  <2>1. op[a].step = "remove_box" /\ UNCHANGED <<db, ws>> BY <1>20 DEF RemoveBox, At
  <2>2. op[a].env \in Envs /\ op[a].to \in Envs BY <2>1, Owns
  <2>3. /\ \A n \in Envs \ {op[a].env} : box'[n] = box[n]
        /\ box'[op[a].env].status # "none" => Exists(op[a].env) /\ box'[op[a].env].id = box[op[a].env].id
    <3>1. CASE box' = [box EXCEPT ![op[a].env] = NoBox] BY <2>2, <3>1 DEF NoBox
    <3>2. CASE Exists(op[a].env) /\ \E s \in {box[op[a].env].status, "stopped"} :
                                        box' = [box EXCEPT ![op[a].env].status = s]
      BY <2>2, <3>2
    <3>. QED BY <1>20, <3>1, <3>2 DEF RemoveBox
  <2>4. /\ op'[a].env = op[a].env /\ op'[a].to = op[a].to /\ op'[a].id = op[a].id
        /\ op'[a].step = IF op[a].to = op[a].env THEN "run_again" ELSE "move"
    BY <1>20, Went DEF RemoveBox
  <2>. QED BY <2>1, <2>2, <2>3, <2>4
<1>21. CASE MoveWorkspace(a)
  <2>1. op[a].step = "move" /\ UNCHANGED <<box, db>> BY <1>21 DEF MoveWorkspace, At
  <2>2. op[a].env \in Envs /\ op[a].to \in Envs BY <2>1, Owns
  <2>3. CASE Go(a, "rename_db") /\ ws' = Moved(ws, op[a].env, op[a].to, 0)
    <3>1. /\ op'[a].env = op[a].env /\ op'[a].to = op[a].to /\ op'[a].id = op[a].id
          /\ op'[a].step = "rename_db"
      BY <2>3, Went
    <3>2. ws'[op[a].env] = 0 /\ ws'[op[a].to] = ws[op[a].env]
      BY <2>1, <2>2, <2>3 DEF Moved, Ordered
    <3>3. op[a].env # op[a].to BY <2>1 DEF Ordered
    <3>. QED BY <2>1, <2>2, <3>1, <3>2, <3>3
  <2>4. CASE Done(a) BY <2>4, Ended
  <2>. QED BY <1>21, <2>3, <2>4 DEF MoveWorkspace
<1>22. CASE RenameDatabase(a)
  BY <1>22, Owns, Went, Ended, Began DEF RenameDatabase, At, Moved, PutBack
<1>23. CASE RenameRecords(a)
  BY <1>23, Owns, Went, Ended, Began, Renamed
<1>24. CASE RunAgain(a)
  BY <1>24, Owns, Went, Ended, Began DEF RunAgain, At
<1>25. CASE StopBox(a)
  BY <1>25, Owns, Went, Ended, Began DEF StopBox, At, SetStatus
<1>26. CASE MarkStopped(a)
  BY <1>26, Owns, Went, Ended, Began DEF MarkStopped, At
<1>27. CASE StartBox(a)
  BY <1>27, Owns, Went, Ended, Began DEF StartBox, SetStatus
<1>28. CASE MarkStarted(a)
  BY <1>28, Owns, Went, Ended, Began DEF MarkStarted, At
<1>29. ASSUME a = Reaper, NEW n \in Envs, AutoStop(n) PROVE Stage(a)'
  <2>1. Begins(a, n, n, "stop", box[n].id) BY <1>29, Begun
  <2>. QED BY <1>29, <2>1 DEF AutoStop, Begins
<1>30. ASSUME a = Reaper, NEW n \in Envs, AutoDelete(n) PROVE Stage(a)'
  <2>1. Begins(a, n, n, "drop_box", box[n].id) BY <1>30, Begun
  <2>. QED BY <1>30, <2>1 DEF AutoDelete, Begins
<1>. QED
  BY <1>1, <1>2, <1>3, <1>4, <1>5, <1>6, <1>7, <1>8, <1>9, <1>10, <1>11,
     <1>12, <1>13, <1>14, <1>15, <1>16, <1>17, <1>18, <1>19, <1>20, <1>21,
     <1>22, <1>23, <1>24, <1>25, <1>26, <1>27, <1>28, <1>29, <1>30
    DEF Does, BeginWork, Work

(* So the stage of every thread is as its step says.                          *)
LEMMA StagedKept ==
    ASSUME PlacesTyped, ThreadsTyped, Ordered, Locked, ServesOwnData, Boxed, Staged, EnvNext
    PROVE  Staged'
<1>1. CASE \E a \in Actors : Does(a)
  <2>1. PICK a \in Actors : Does(a) BY <1>1
  <2>2. Yields(a) BY <2>1, Yielding
  <2>3. Stage(a)' BY <2>1, OwnStage DEF Staged
  <2>4. \A b \in Actors \ {a} : Stage(b)' BY <2>2, OthersWait DEF Staged
  <2>. QED BY <2>3, <2>4 DEF Staged
<1>2. CASE UNCHANGED <<box, db, ws, owner, op, born, died>>
  BY <1>2 DEF Staged, Stage, Unmade, Made, Stopping, Target, Carried, Of, Exists
<1>3. CASE EnvDie
  BY <1>3 DEF EnvDie, IdleOp, Staged, Stage, Unmade, Made, Stopping, Target, Carried
<1>. QED BY <1>1, <1>2, <1>3, Steps

(* A step removes data, makes it, or moves it in a rename.                    *)
LEMMA DataSteps ==
    ASSUME PlacesTyped, ThreadsTyped, Ordered, Locked, NEW a \in Actors, Stage(a), Does(a)
    PROVE  Drops \/ MakesData(a) \/ ShiftsData(a)
<1> USE EnvConstants DEF Actors, PlacesTyped, Drops
<1>1. CASE
     \/ \E n \in Envs : BeginCreate(a, n) \/ BeginDelete(a, n)
          \/ BeginRecreate(a, n) \/ BeginStop(a, n) \/ BeginStart(a, n)
          \/ BeginWake(a, n)
     \/ \E n \in Envs, to \in Envs : BeginUpdate(a, n, to)
  <2>1. UNCHANGED <<db, ws, born>>
    BY <1>1 DEF BeginCreate, places, BeginDelete, BeginRecreate, BeginStop,
        BeginStart, BeginWake, BeginUpdate
  <2>. QED BY <2>1, Owns
<1>2. CASE
     \/ RunBox(a) \/ Configure(a) \/ RecordCreated(a) \/ CreateRaises(a)
          \/ DropBox(a) \/ Forget(a) \/ RemoveBox(a)
  <2>1. UNCHANGED <<db, ws, born>>
    BY <1>2 DEF RunBox, Configure, places, RecordCreated, CreateRaises,
        DropBox, Forget, RemoveBox
  <2>. QED BY <2>1, Owns
<1>3. CASE
     \/ RunAgain(a) \/ StopBox(a) \/ MarkStopped(a) \/ StartBox(a)
          \/ MarkStarted(a)
     \/ \E n \in Envs : AutoStop(n) \/ AutoDelete(n)
  <2>1. UNCHANGED <<db, ws, born>>
    BY <1>3 DEF RunAgain, StopBox, SetStatus, MarkStopped, StartBox,
        MarkStarted, AutoStop, places, AutoDelete
  <2>. QED BY <2>1, Owns
<1>4. CASE CleanOld(a)
  BY <1>4, Owns DEF CleanOld, At
<1>5. CASE MakeWorkspace(a)
  BY <1>5, Owns, Cloned DEF MakesData, MakeWorkspace
<1>6. CASE MakeDatabase(a)
  BY <1>6, Owns DEF MakeDatabase, At, MakesData, EnvWorks
<1>7. CASE RollBack(a)
  BY <1>7, Owns DEF RollBack, At
<1>8. CASE DropDatabase(a)
  BY <1>8, Owns DEF DropDatabase, At
<1>9. CASE DropWorkspace(a)
  BY <1>9, Owns DEF DropWorkspace, At
<1>10. CASE MoveWorkspace(a) BY <1>10, MovesData DEF ShiftsData
<1>11. CASE RenameDatabase(a) BY <1>11, RenamesData DEF ShiftsData
<1>12. CASE RenameRecords(a)
  BY <1>12, Owns, Renamed
<1>. QED
  BY <1>1, <1>2, <1>3, <1>4, <1>5, <1>6, <1>7, <1>8, <1>9, <1>10, <1>11, <1>12
    DEF Does, BeginWork, Work

(* Numbers stay unique.                                                       *)
LEMMA FreshKept ==
    ASSUME PlacesTyped, CountsTyped, NEW a \in Actors, Fresh, Single, Made(a),
           Drops \/ MakesData(a) \/ ShiftsData(a)
    PROVE  Fresh' /\ Single'
<1>0. born \in Nat BY EnvConstants DEF CountsTyped, Births
<1>1. CASE Drops BY <1>0, <1>1 DEF Drops, Fresh, Single
<1>2. CASE MakesData(a) /\ op[a].step = "workspace"
  <2>1. /\ born' = born + 1 /\ UNCHANGED db
        /\ \A n \in Envs : ws'[n] = IF n = op[a].env THEN born + 1 ELSE ws[n]
    BY <1>2 DEF MakesData, PlacesTyped
  <2>2. 0..born \subseteq 0..(born + 1) /\ born + 1 \in 0..(born + 1) /\ born + 1 \notin 0..born
    BY <1>0
  <2>3. Fresh' BY <2>1, <2>2 DEF Fresh
  <2>. QED BY <2>1, <2>2, <2>3 DEF Fresh, Single
<1>3. CASE MakesData(a) /\ op[a].step = "database"
  <2>1. /\ UNCHANGED <<ws, born>>
        /\ \A n \in Envs : db'[n] = IF n = op[a].env THEN op[a].id ELSE db[n]
    BY <1>3 DEF MakesData, PlacesTyped
  <2>2. op[a].env \in Envs => op[a].id \in 0..born BY <1>3 DEF Made, MakesData, Fresh
  <2>. QED BY <2>1, <2>2 DEF Fresh, Single
<1>4. CASE ShiftsData(a)
  <2>1. born' = born /\ 0 \in 0..born BY <1>0, <1>4 DEF ShiftsData
  <2>2. ASSUME NEW n \in Envs, NEW m \in Envs, n # m, Shifts(ws, ws', n, m), UNCHANGED db
        PROVE  Fresh' /\ Single'
    BY <2>1, <2>2 DEF Fresh, Single, Shifts
  <2>3. ASSUME NEW n \in Envs, NEW m \in Envs, Shifts(db, db', n, m), UNCHANGED ws
        PROVE  Fresh' /\ Single'
    BY <2>1, <2>3 DEF Fresh, Single, Shifts
  <2>. QED BY <1>4, <2>2, <2>3 DEF ShiftsData
<1>. QED BY <1>1, <1>2, <1>3, <1>4 DEF MakesData

(* A rename takes both or neither; nothing else parts a workspace and its database. *)
LEMMA PairedKept ==
    ASSUME PlacesTyped, ThreadsTyped, CountsTyped, Ordered, Locked, NEW a \in Actors, Stage(a),
           Fresh, Single,
           Paired, Does(a), Yields(a), died' = died, Drops \/ MakesData(a) \/ ShiftsData(a)
    PROVE  Paired'
<1> USE EnvConstants DEF PlacesTyped, CountsTyped, Births
<1> SUFFICES ASSUME ~died, NEW n \in Envs, NEW m \in Envs, n # m, ws'[n] # 0, db'[m] = ws'[n]
             PROVE  Moving(n, m)'
  BY DEF Paired
<1>1. \A k, l \in Envs : k # l => ws[k] = 0 \/ db[l] # ws[k] \/ Moving(k, l) BY DEF Paired
<1>2. \A k, l \in Envs : Moving(k, l) /\ op[a].step # "rename_db" => Moving(k, l)'
  BY DEF Moving, Yields, Actors
<1>3. \A k, l \in Envs : Moving(k, l) /\ (owner[k] = a \/ owner[l] = a)
                            => op[a].step = "rename_db" /\ op[a].to = k /\ op[a].env = l
  <2> SUFFICES ASSUME NEW k \in Envs, NEW l \in Envs, Moving(k, l), owner[k] = a \/ owner[l] = a
               PROVE  op[a].step = "rename_db" /\ op[a].to = k /\ op[a].env = l
    OBVIOUS
  <2>1. PICK b \in Actors : op[b].step = "rename_db" /\ op[b].to = k /\ op[b].env = l BY DEF Moving
  <2>2. owner[k] = b /\ owner[l] = b BY <2>1, Owns
  <2>. QED BY <2>1, <2>2
<1>4. op[a].step = "rename_db" => ShiftsData(a)
  BY OnlyRename, RenamesData DEF ShiftsData
<1>5. CASE Drops /\ op[a].step # "rename_db" BY <1>1, <1>2, <1>5 DEF Drops
<1>6. CASE MakesData(a)
  <2>1. CASE op[a].step = "workspace"
    <3>1. \A k \in Envs : db'[k] # born + 1 BY <1>6, <2>1 DEF MakesData, Fresh
    <3>2. ws' = [ws EXCEPT ![op[a].env] = born + 1] /\ UNCHANGED db BY <1>6, <2>1 DEF MakesData
    <3>3. n # op[a].env BY <3>1, <3>2
    <3>. QED BY <1>1, <1>2, <2>1, <3>2, <3>3
  <2>2. CASE op[a].step = "database"
    <3>1. ws[op[a].env] = op[a].id BY <2>2 DEF Stage, Made
    <3>2. db' = [db EXCEPT ![op[a].env] = op[a].id] /\ UNCHANGED ws BY <1>6, <2>2 DEF MakesData
    <3>3. m # op[a].env BY <2>2, <3>1, <3>2, Owns DEF Single
    <3>. QED BY <1>1, <1>2, <2>2, <3>2, <3>3
  <2>. QED BY <1>6, <2>1, <2>2 DEF MakesData
<1>7. CASE ShiftsData(a)
  <2>0. /\ op[a].env \in Envs /\ op[a].to \in Envs /\ op[a].env # op[a].to
        /\ owner[op[a].env] = a /\ owner[op[a].to] = a
    BY <1>7, Owns DEF ShiftsData
  <2>1. CASE op[a].step = "move"
    <3>1. db' = db /\ Shifts(ws, ws', op[a].env, op[a].to) /\ Go(a, "rename_db")
      BY <1>7, <2>1 DEF ShiftsData
    <3>2. op'[a].step = "rename_db" /\ op'[a].env = op[a].env /\ op'[a].to = op[a].to
      BY <3>1, Went
    <3>3. CASE n = op[a].to
      <4>1. ws'[n] = ws[op[a].env] BY <3>1, <3>3 DEF Shifts
      <4>2. m = op[a].env BY <1>1, <1>3, <2>0, <2>1, <3>1, <3>3, <4>1
      <4>. QED BY <3>2, <3>3, <4>2 DEF Moving
    <3>4. CASE n # op[a].to BY <1>1, <1>2, <2>0, <2>1, <3>1, <3>4 DEF Shifts
    <3>. QED BY <3>3, <3>4
  <2>2. CASE op[a].step = "rename_db" /\ ws' = ws /\ Shifts(db, db', op[a].env, op[a].to)
    <3>1. Shifts(db, db', op[a].env, op[a].to) BY <2>2
    <3>2. ws[op[a].env] = 0 /\ db[op[a].to] = 0 BY <2>2 DEF Stage, Target
    <3>3. CASE m = op[a].to
      <4>1. db'[m] = db[op[a].env] /\ n # op[a].env BY <2>0, <2>2, <3>1, <3>2, <3>3 DEF Shifts
      <4>2. Moving(n, op[a].env) BY <1>1, <2>0, <2>2, <4>1
      <4>. QED BY <1>3, <2>0, <3>3, <4>2
    <3>4. CASE m = op[a].env BY <2>0, <2>2, <3>1, <3>4 DEF Shifts
    <3>5. CASE m # op[a].to /\ m # op[a].env
      <4>1. Moving(n, m) BY <1>1, <2>2, <3>1, <3>5 DEF Shifts
      <4>2. PICK b \in Actors : op[b].step = "rename_db" /\ op[b].to = n /\ op[b].env = m
        BY <4>1 DEF Moving
      <4>. QED BY <3>5, <4>2 DEF Moving, Yields
    <3>. QED BY <3>3, <3>4, <3>5
  <2>3. CASE op[a].step = "rename_db" /\ db' = db /\ Shifts(ws, ws', op[a].to, op[a].env)
    <3>1. ws[op[a].env] = 0 /\ db[op[a].to] = 0 BY <2>3 DEF Stage, Target
    <3>2. CASE n = op[a].env
      <4>1. ws'[n] = ws[op[a].to] BY <2>3, <3>2 DEF Shifts
      <4>2. m # op[a].to BY <2>3, <3>1, <4>1
      <4>3. Moving(op[a].to, m) BY <1>1, <2>0, <2>3, <4>1, <4>2
      <4>. QED BY <1>3, <2>0, <3>2, <4>3
    <3>3. CASE n = op[a].to BY <2>0, <2>3, <3>3 DEF Shifts
    <3>4. CASE n # op[a].to /\ n # op[a].env
      <4>1. Moving(n, m) BY <1>1, <2>3, <3>4 DEF Shifts
      <4>2. PICK b \in Actors : op[b].step = "rename_db" /\ op[b].to = n /\ op[b].env = m
        BY <4>1 DEF Moving
      <4>. QED BY <3>4, <4>2 DEF Moving, Yields
    <3>. QED BY <3>2, <3>3, <3>4
  <2>. QED BY <1>7, <2>1, <2>2, <2>3 DEF ShiftsData
<1>. QED BY <1>4, <1>5, <1>6, <1>7

(* A step leaves a container, removes it, changes its status, or makes it.    *)
LEMMA ContainerSteps ==
    ASSUME PlacesTyped, ThreadsTyped, Ordered, Locked, NEW a \in Actors, Stage(a), Does(a)
    PROVE  BoxSteps(a)
<1> USE EnvConstants DEF Actors, PlacesTyped, Boxes
<1>1. CASE
     \/ \E n \in Envs : BeginCreate(a, n) \/ BeginDelete(a, n)
          \/ BeginRecreate(a, n) \/ BeginStop(a, n) \/ BeginStart(a, n)
          \/ BeginWake(a, n)
     \/ \E n \in Envs, to \in Envs : BeginUpdate(a, n, to)
  <2>1. UNCHANGED box
    BY <1>1 DEF BeginCreate, places, BeginDelete, BeginRecreate, BeginStop,
        BeginStart, BeginWake, BeginUpdate
  <2>. QED BY <2>1 DEF BoxSteps
<1>2. CASE
     \/ CleanOld(a) \/ MakeWorkspace(a) \/ MakeDatabase(a) \/ Configure(a)
          \/ RecordCreated(a) \/ CreateRaises(a) \/ DropDatabase(a)
  <2>1. UNCHANGED box
    BY <1>2 DEF CleanOld, MakeWorkspace, MakeDatabase, Configure, places,
        RecordCreated, CreateRaises, DropDatabase
  <2>. QED BY <2>1 DEF BoxSteps
<1>3. CASE
     \/ DropWorkspace(a) \/ Forget(a) \/ MoveWorkspace(a)
          \/ RenameDatabase(a) \/ RenameRecords(a) \/ MarkStopped(a)
          \/ MarkStarted(a)
  <2>1. UNCHANGED box
    BY <1>3 DEF DropWorkspace, Forget, MoveWorkspace, RenameDatabase, PutBack,
        RenameRecords, MarkStopped, MarkStarted
  <2>. QED BY <2>1 DEF BoxSteps
<1>4. CASE
     \/ \E n \in Envs : AutoStop(n) \/ AutoDelete(n)
  <2>1. UNCHANGED box
    BY <1>4 DEF AutoStop, places, AutoDelete
  <2>. QED BY <2>1 DEF BoxSteps
<1>5. CASE RunBox(a)
  BY <1>5, Owns DEF RunBox, At, BoxSteps, Makes
<1>6. CASE RollBack(a)
  BY <1>6, Owns DEF RollBack, At, BoxSteps
<1>7. CASE DropBox(a)
  <2>1. op[a].env \in Envs BY <1>7, Owns DEF DropBox, At
  <2>2. CASE box' = [box EXCEPT ![op[a].env] = NoBox] BY <2>1, <2>2 DEF BoxSteps
  <2>. QED BY <1>7, <2>1, <2>2, SetsStatus DEF DropBox
<1>8. CASE RemoveBox(a)
  <2>1. op[a].env \in Envs BY <1>8, Owns DEF RemoveBox, At
  <2>2. CASE box' = [box EXCEPT ![op[a].env] = NoBox] BY <2>1, <2>2 DEF BoxSteps
  <2>. QED BY <1>8, <2>1, <2>2, SetsStatus DEF RemoveBox
<1>9. CASE RunAgain(a)
  BY <1>9, Owns DEF RunAgain, At, Exists, BoxSteps, Makes
<1>10. CASE StopBox(a)
  <2>1. op[a].env \in Envs /\ Exists(op[a].env) BY <1>10, Owns DEF StopBox, At, Stage, Stopping
  <2>. QED BY <1>10, <2>1, SetsStatus DEF StopBox, SetStatus
<1>11. CASE StartBox(a)
  <2>1. op[a].env \in Envs BY <1>11 DEF StartBox, Ordered
  <2>2. box' = box => BoxSteps(a) BY DEF BoxSteps
  <2>. QED BY <1>11, <2>1, <2>2, SetsStatus DEF StartBox, SetStatus
<1>. QED
  BY <1>1, <1>2, <1>3, <1>4, <1>5, <1>6, <1>7, <1>8, <1>9, <1>10, <1>11
    DEF Does, BeginWork, Work

(* A container that is made finds its own data, and data moves only where no container is. *)
LEMMA ServingKept ==
    ASSUME PlacesTyped, ThreadsTyped, Ordered, Locked, NEW a \in Actors, Stage(a), Boxed,
           ServesOwnData,
           BoxSteps(a), Drops \/ MakesData(a) \/ ShiftsData(a)
    PROVE  Boxed' /\ ServesOwnData'
<1>1. Boxed'
  <2>1. ASSUME NEW n \in Envs, Makes(a, n) PROVE box'[n].id # 0 /\ box'[n].status = "running"
    BY <2>1 DEF Makes, Ordered, Numbered
  <2>. QED BY <2>1 DEF BoxSteps, Boxed, Exists, Handles, NoBox
<1>2. ASSUME NEW n \in Envs, Exists(n)'
      PROVE  (db[n] \in {0, box'[n].id} /\ ws[n] \in {0, box'[n].id})
  <2>1. CASE Makes(a, n)
    <3>1. CASE op[a].step = "run" BY <2>1, <3>1 DEF Makes, Stage, Made
    <3>2. CASE op[a].step = "run_again" BY <2>1, <3>2 DEF Makes, Stage, Carried, Of
    <3>. QED BY <2>1, <3>1, <3>2 DEF Makes
  <2>2. CASE Exists(n) /\ box'[n].id = box[n].id BY <2>2 DEF ServesOwnData
  <2>3. box'[n] # NoBox BY <1>2 DEF Exists, NoBox
  <2>. QED BY <1>2, <2>1, <2>2, <2>3 DEF BoxSteps, Handles, Exists
<1>3. ASSUME MakesData(a) \/ ShiftsData(a), NEW n \in Envs, Exists(n)'
      PROVE  Exists(n) /\ box'[n].id = box[n].id
  <2>1. op[a].step \notin {"run", "run_again"} BY <1>3 DEF MakesData, ShiftsData
  <2>. QED BY <1>3, <2>1 DEF BoxSteps, Handles, Makes, Exists, NoBox
<1>4. SUFFICES ASSUME NEW n \in Envs, Exists(n)'
               PROVE  db'[n] \in {0, box'[n].id} /\ ws'[n] \in {0, box'[n].id}
  BY <1>1 DEF ServesOwnData
<1>5. db[n] \in {0, box'[n].id} /\ ws[n] \in {0, box'[n].id} BY <1>2, <1>4
<1>6. CASE Drops
  <2>1. db'[n] \in {0, db[n]} /\ ws'[n] \in {0, ws[n]} BY <1>6 DEF Drops
  <2>. QED BY <1>5, <2>1
<1>7. CASE MakesData(a)
  <2>1. n # op[a].env BY <1>3, <1>4, <1>7 DEF MakesData, Stage, Unmade
  <2>2. db'[n] = db[n] /\ ws'[n] = ws[n] BY <1>7, <2>1 DEF MakesData, PlacesTyped
  <2>. QED BY <1>5, <2>2
<1>8. CASE ShiftsData(a)
  <2>1. Exists(n) /\ box'[n].id = box[n].id BY <1>3, <1>4, <1>8
  <2>2. CASE op[a].step = "move"
    <3>1. db' = db /\ Shifts(ws, ws', op[a].env, op[a].to) BY <1>8, <2>2 DEF ShiftsData
    <3>2. n # op[a].to BY <1>8, <2>1, <2>2 DEF ShiftsData, Stage, Target
    <3>3. ws'[n] \in {0, ws[n]} BY <3>1, <3>2 DEF Shifts
    <3>. QED BY <1>5, <3>1, <3>3
  <2>3. CASE op[a].step = "rename_db"
    <3>1. /\ n # op[a].to /\ ws[op[a].to] \in {0, op[a].id}
          /\ n = op[a].env => box[n].id = op[a].id
      BY <2>1, <2>3 DEF Stage, Target, Carried, Of
    <3>2. CASE Shifts(db, db', op[a].env, op[a].to) /\ UNCHANGED ws
      <4>1. db'[n] \in {0, db[n]} BY <3>1, <3>2 DEF Shifts
      <4>. QED BY <1>5, <3>2, <4>1
    <3>3. CASE Shifts(ws, ws', op[a].to, op[a].env) /\ UNCHANGED db
      <4>1. CASE n = op[a].env
        <5>1. ws'[n] = ws[op[a].to] BY <3>3, <4>1 DEF Shifts
        <5>. QED BY <1>5, <2>1, <3>1, <3>3, <4>1, <5>1
      <4>2. CASE n # op[a].env
        <5>1. ws'[n] = ws[n] BY <3>1, <3>3, <4>2 DEF Shifts
        <5>. QED BY <1>5, <3>3, <5>1
      <4>. QED BY <4>1, <4>2
    <3>. QED BY <1>8, <2>3, <3>2, <3>3 DEF ShiftsData
  <2>. QED BY <1>8, <2>2, <2>3 DEF ShiftsData
<1>. QED BY <1>6, <1>7, <1>8

(* A thread's step takes nothing from what the sweep has on record.           *)
LEMMA SweepListens ==
    ASSUME PlacesTyped, ThreadsTyped, SweepTyped, Ordered, Locked, NEW a \in Actors, Stage(a),
           Does(a)
    PROVE  Listened
<1> USE EnvConstants DEF Actors
<1>1. CASE
     \/ \E n \in Envs : BeginCreate(a, n) \/ BeginWake(a, n)
     \/ CleanOld(a) \/ MakeWorkspace(a) \/ MakeDatabase(a) \/ Configure(a)
          \/ CreateRaises(a)
  <2>1. UNCHANGED sweep
    BY <1>1 DEF BeginCreate, places, BeginWake, CleanOld, MakeWorkspace,
        MakeDatabase, Configure, CreateRaises
  <2>. QED BY <2>1 DEF Listened
<1>2. CASE
     \/ RollBack(a) \/ DropBox(a) \/ DropDatabase(a) \/ DropWorkspace(a)
          \/ Forget(a) \/ RemoveBox(a) \/ MoveWorkspace(a)
  <2>1. UNCHANGED sweep
    BY <1>2 DEF RollBack, DropBox, DropDatabase, DropWorkspace, Forget,
        RemoveBox, MoveWorkspace
  <2>. QED BY <2>1 DEF Listened
<1>3. CASE
     \/ RenameDatabase(a) \/ RenameRecords(a) \/ StopBox(a)
          \/ MarkStopped(a)
  <2>1. UNCHANGED sweep
    BY <1>3 DEF RenameDatabase, PutBack, RenameRecords, StopBox, SetStatus,
        MarkStopped
  <2>. QED BY <2>1 DEF Listened
<1>4. ASSUME NEW n \in Envs, BeginDelete(a, n) PROVE Listened
  BY <1>4, Owns, WorkIsNoticed, StillListens, JudgingListens DEF BeginDelete,
      Touch, Exists, At
<1>5. ASSUME NEW n \in Envs, BeginRecreate(a, n) PROVE Listened
  BY <1>5, Owns, WorkIsNoticed, StillListens, JudgingListens DEF BeginRecreate,
      Exists, Touch, At
<1>6. ASSUME NEW n \in Envs, BeginStop(a, n) PROVE Listened
  BY <1>6, Owns, WorkIsNoticed, StillListens, JudgingListens DEF BeginStop,
      Exists, Touch, At
<1>7. ASSUME NEW n \in Envs, BeginStart(a, n) PROVE Listened
  BY <1>7, Owns, WorkIsNoticed, StillListens, JudgingListens DEF BeginStart,
      Exists, Touch, At
<1>8. ASSUME NEW n \in Envs, NEW to \in Envs, BeginUpdate(a, n, to) PROVE Listened
  BY <1>8, Owns, WorkIsNoticed, StillListens, JudgingListens DEF BeginUpdate,
      Exists, Free, Touch, At
<1>9. CASE RunBox(a)
  BY <1>9, Owns, WorkIsNoticed, StillListens, JudgingListens DEF RunBox, At
<1>10. CASE RecordCreated(a)
  BY <1>10, Owns, WorkIsNoticed, StillListens, JudgingListens DEF RecordCreated,
      At
<1>11. CASE RunAgain(a)
  BY <1>11, Owns, WorkIsNoticed, StillListens, JudgingListens DEF RunAgain,
      At, Exists
<1>12. CASE StartBox(a)
  BY <1>12, Owns, WorkIsNoticed, StillListens, JudgingListens DEF StartBox,
      Exists, SetStatus, Ordered
<1>13. CASE MarkStarted(a)
  BY <1>13, Owns, WorkIsNoticed, StillListens, JudgingListens DEF MarkStarted,
      At, Ordered
<1>14. ASSUME NEW n \in Envs, AutoStop(n) PROVE Listened
  BY <1>14, Owns, WorkIsNoticed, StillListens, JudgingListens DEF AutoStop,
      Exists, places, At
<1>15. ASSUME NEW n \in Envs, AutoDelete(n) PROVE Listened
  BY <1>15, Owns, WorkIsNoticed, StillListens, JudgingListens DEF AutoDelete,
      places, At, Exists
<1>. QED
  BY <1>1, <1>2, <1>3, <1>4, <1>5, <1>6, <1>7, <1>8, <1>9, <1>10, <1>11,
     <1>12, <1>13, <1>14, <1>15
    DEF Does, BeginWork, Work

(* A use the sweep has not seen is on record, or is of a name that has no container. *)
LEMMA WorkIsMinded ==
    ASSUME PlacesTyped, ThreadsTyped, SweepTyped, Ordered, Locked, NEW a \in Actors, Stage(a),
           Does(a)
    PROVE  Minded(a)
<1> USE EnvConstants DEF Actors, PlacesTyped, Boxes, NoBox, Minded, Exists
<1>1. CASE
     \/ \E n \in Envs : BeginCreate(a, n) \/ BeginWake(a, n)
     \/ CleanOld(a) \/ MakeWorkspace(a) \/ MakeDatabase(a) \/ Configure(a)
          \/ CreateRaises(a)
  <2>1. UNCHANGED <<box, act, sweep>>
    BY <1>1 DEF BeginCreate, places, BeginWake, CleanOld, MakeWorkspace,
        MakeDatabase, Configure, CreateRaises
  <2>. QED BY <2>1, Owns, WorkIsNoticed
<1>2. CASE
     \/ DropDatabase(a) \/ DropWorkspace(a) \/ MoveWorkspace(a)
          \/ RenameDatabase(a)
  <2>1. UNCHANGED <<box, act, sweep>>
    BY <1>2 DEF DropDatabase, DropWorkspace, MoveWorkspace, RenameDatabase,
        PutBack
  <2>. QED BY <2>1, Owns, WorkIsNoticed
<1>3. ASSUME NEW n \in Envs, BeginDelete(a, n) PROVE Minded(a)
  BY <1>3, Owns, WorkIsNoticed DEF BeginDelete, Touch, At
<1>4. ASSUME NEW n \in Envs, BeginRecreate(a, n) PROVE Minded(a)
  BY <1>4, Owns, WorkIsNoticed DEF BeginRecreate, Touch, At
<1>5. ASSUME NEW n \in Envs, BeginStop(a, n) PROVE Minded(a)
  BY <1>5, Owns, WorkIsNoticed DEF BeginStop, Touch, At
<1>6. ASSUME NEW n \in Envs, BeginStart(a, n) PROVE Minded(a)
  BY <1>6, Owns, WorkIsNoticed DEF BeginStart, Touch, At
<1>7. ASSUME NEW n \in Envs, NEW to \in Envs, BeginUpdate(a, n, to) PROVE Minded(a)
  BY <1>7, Owns, WorkIsNoticed DEF BeginUpdate, Free, Touch, At
<1>8. CASE RunBox(a)
  BY <1>8, Owns, WorkIsNoticed DEF RunBox, At
<1>9. CASE RecordCreated(a)
  BY <1>9, Owns, WorkIsNoticed DEF RecordCreated, At
<1>10. CASE RollBack(a)
  BY <1>10, Owns, WorkIsNoticed DEF RollBack, At
<1>11. CASE DropBox(a)
  BY <1>11, Owns, WorkIsNoticed DEF DropBox, At
<1>12. CASE Forget(a)
  BY <1>12, Owns, WorkIsNoticed DEF Forget, At, NoRecord
<1>13. CASE RemoveBox(a)
  BY <1>13, Owns, WorkIsNoticed DEF RemoveBox, At
<1>14. CASE RenameRecords(a)
  <2>1. /\ op[a].step = "rename_records" /\ UNCHANGED box
        /\ op[a].env \in Envs /\ op[a].to \in Envs /\ op[a].env # op[a].to
    BY <1>14, Owns DEF RenameRecords, At, Ordered
  <2>2. CASE act' = Moved(act, op[a].env, op[a].to, NoRecord)
    <3>1. \A n \in Envs \ {op[a].to} : act'[n] = act[n] \/ act'[n] = NoRecord
      BY <2>1, <2>2 DEF Moved
    <3>. QED BY <2>1, <3>1 DEF NoRecord
  <2>3. CASE act' = act BY <2>1, <2>3
  <2>. QED BY <1>14, <2>2, <2>3 DEF RenameRecords
<1>15. CASE RunAgain(a)
  BY <1>15, Owns, WorkIsNoticed DEF RunAgain, At
<1>16. CASE StopBox(a)
  BY <1>16, Owns, WorkIsNoticed DEF StopBox, At, SetStatus, Stage, Stopping
<1>17. CASE MarkStopped(a)
  BY <1>17, Owns, WorkIsNoticed DEF MarkStopped, At, MarkedStopped
<1>18. CASE StartBox(a)
  BY <1>18, Owns, WorkIsNoticed DEF StartBox, SetStatus, Ordered
<1>19. CASE MarkStarted(a)
  BY <1>19, Owns, WorkIsNoticed DEF MarkStarted, At, MarkedStarted, Ordered
<1>20. ASSUME NEW n \in Envs, AutoStop(n) PROVE Minded(a)
  BY <1>20, Owns, WorkIsNoticed DEF AutoStop, places, At
<1>21. ASSUME NEW n \in Envs, AutoDelete(n) PROVE Minded(a)
  BY <1>21, Owns, WorkIsNoticed DEF AutoDelete, places, At
<1>. QED
  BY <1>1, <1>2, <1>3, <1>4, <1>5, <1>6, <1>7, <1>8, <1>9, <1>10, <1>11,
     <1>12, <1>13, <1>14, <1>15, <1>16, <1>17, <1>18, <1>19, <1>20, <1>21
    DEF Does, BeginWork, Work

(* The reaper comes to stop or delete something only by a judgement.          *)
LEMMA ReaperSteps ==
    ASSUME ThreadsTyped, NEW a \in Actors, a = Reaper, Does(a)
    PROVE  \/ op'[a].step = "none"
           \/ op[a].step # "none" /\ op'[a].step \notin {"none", "stop", "drop_box"}
           \/ \E n \in Envs : AutoStop(n) \/ AutoDelete(n)
<1> USE EnvConstants
<1>1. CASE CleanOld(a)
  BY <1>1, Went, Ended DEF CleanOld, At
<1>2. CASE MakeWorkspace(a) BY <1>2, Cloned
<1>3. CASE MakeDatabase(a)
  BY <1>3, Went, Ended DEF MakeDatabase, At
<1>4. CASE RunBox(a)
  BY <1>4, Went, Ended DEF RunBox, At
<1>5. CASE Configure(a)
  BY <1>5, Went, Ended DEF Configure, At, places
<1>6. CASE RecordCreated(a)
  BY <1>6, Went, Ended DEF RecordCreated, At
<1>7. CASE CreateRaises(a)
  BY <1>7, Went, Ended DEF CreateRaises, At
<1>8. CASE RollBack(a)
  BY <1>8, Went, Ended DEF RollBack, At
<1>9. CASE DropBox(a)
  BY <1>9, Went, Ended DEF DropBox, At, Exists
<1>10. CASE DropDatabase(a)
  BY <1>10, Went, Ended DEF DropDatabase, At
<1>11. CASE DropWorkspace(a)
  BY <1>11, Went, Ended DEF DropWorkspace, At
<1>12. CASE Forget(a)
  BY <1>12, Went, Ended DEF Forget, At
<1>13. CASE RemoveBox(a)
  BY <1>13, Went, Ended DEF RemoveBox, At, Exists
<1>14. CASE MoveWorkspace(a)
  BY <1>14, Went, Ended DEF MoveWorkspace, At, Moved
<1>15. CASE RenameDatabase(a)
  BY <1>15, Went, Ended DEF RenameDatabase, At, Moved, PutBack
<1>16. CASE RenameRecords(a) BY <1>16, Renamed, Ended
<1>17. CASE RunAgain(a)
  BY <1>17, Went, Ended DEF RunAgain, At, Exists
<1>18. CASE StopBox(a)
  BY <1>18, Went, Ended DEF StopBox, At, SetStatus
<1>19. CASE MarkStopped(a)
  BY <1>19, Went, Ended DEF MarkStopped, At
<1>20. CASE StartBox(a)
  BY <1>20, Went, Ended DEF StartBox, Exists, SetStatus
<1>21. CASE MarkStarted(a)
  BY <1>21, Went, Ended DEF MarkStarted, At
<1>22. ASSUME NEW n \in Envs, AutoStop(n) PROVE \E m \in Envs : AutoStop(m) \/ AutoDelete(m)
  BY <1>22
<1>23. ASSUME NEW n \in Envs, AutoDelete(n) PROVE \E m \in Envs : AutoStop(m) \/ AutoDelete(m)
  BY <1>23
<1>. QED
  BY <1>1, <1>2, <1>3, <1>4, <1>5, <1>6, <1>7, <1>8, <1>9, <1>10, <1>11,
     <1>12, <1>13, <1>14, <1>15, <1>16, <1>17, <1>18, <1>19, <1>20, <1>21,
     <1>22, <1>23
    DEF Does, Work

(* What the sweep relies on stays true as threads work.                       *)
LEMMA SweptKept ==
    ASSUME PlacesTyped, ThreadsTyped, SweepTyped, Ordered, Locked, Boxed, Swept,
           NEW a \in Actors, Stage(a),
           Does(a), Yields(a), Listened, Minded(a)
    PROVE  Swept'
<1> USE EnvConstants DEF Actors
<1>0. /\ sweep.todo \subseteq Envs /\ sweep'.todo \subseteq sweep.todo
      /\ op[Reaper].step \in {"stop", "drop_box"}
           => op[Reaper].env \in Envs /\ owner[op[Reaper].env] = Reaper
  BY Owns DEF SweepTyped, Listened
<1>1. \A n \in Envs : sweep.phase # "asleep" /\ Idle(n) /\ (Exists(n)' \/ owner[n] # a) => Idle(n)'
  <2> SUFFICES ASSUME NEW n \in Envs, sweep.phase # "asleep", Idle(n), Exists(n)' \/ owner[n] # a
               PROVE  Idle(n)'
    OBVIOUS
  <2>1. CASE Noticed(n) BY <2>1 DEF Idle, Noticed
  <2>2. CASE op[a].step = "rename_records" /\ n = op[a].to
    <3>1. ~Exists(n) /\ owner[n] = a BY <2>2, Owns DEF Stage, Target
    <3>2. CASE Noticed(n) BY <3>2 DEF Idle, Noticed
    <3>. QED BY <3>1, <3>2 DEF Minded, Exists
  <2>3. CASE act'[n].last = "recent" => act[n].last = "recent" BY <2>3 DEF Idle, Listened
  <2>. QED BY <2>1, <2>2, <2>3 DEF Minded
<1>2. \A n \in Envs : sweep.phase # "asleep" /\ Resting(n) => Resting(n)'
  <2> SUFFICES ASSUME NEW n \in Envs, sweep.phase # "asleep", Resting(n) PROVE Resting(n)'
    OBVIOUS
  <2>1. CASE Noticed(n) BY <2>1 DEF Resting, Noticed
  <2>2. CASE ~Noticed(n)
    <3>1. box'[n].status = "running" => box[n].status = "running" BY <2>2 DEF Minded
    <3>2. box'[n].status \in {"running", "stopped", "none"}
      <4>1. BoxSteps(a) BY ContainerSteps
      <4>2. box[n].status \in {"running", "stopped", "none"} BY DEF PlacesTyped, Boxes, Statuses
      <4>. QED BY <4>1, <4>2 DEF BoxSteps, Handles, Makes, NoBox
    <3>. QED BY <3>1, <3>2 DEF Resting, Listened
  <2>. QED BY <2>1, <2>2
<1>3. \A n \in Envs : sweep.phase # "asleep" /\ Exists(n)' => Exists(n) \/ Idle(n)'
  BY DEF Minded, Exists, Noticed, Idle
<1>4. sweep'.phase # "asleep" =>
        \A n \in sweep'.todo : sweep'.seen[n] = "stopped" => Resting(n)'
  BY <1>0, <1>2 DEF Swept, Listened
<1>5. sweep'.phase = "judging" =>
        \A n \in sweep'.todo : Exists(n)' /\ sweep'.recs[n].last = "old" => Idle(n)'
  BY <1>0, <1>1, <1>3 DEF Swept, Listened
<1>6. CASE op'[Reaper] = op[Reaper] /\ a # Reaper
  <2> DEFINE n == op[Reaper].env
  <2>1. CASE op[Reaper].step = "stop"
    <3>1. Idle(n) /\ n \in Envs /\ owner[n] # a /\ sweep.phase = "judging"
      BY <1>0, <1>6, <2>1 DEF Swept
    <3>2. n \in sweep'.late \/ act'[n].last # "recent" BY <1>1, <3>1 DEF Idle
    <3>. QED BY <1>4, <1>5, <1>6, <2>1, <3>1, <3>2 DEF Swept, Listened, Idle
  <2>2. CASE op[Reaper].step = "drop_box"
    <3>1. Resting(n) /\ n \in Envs /\ sweep.phase = "judging" BY <1>0, <1>6, <2>2 DEF Swept
    <3>2. n \in sweep'.late \/ box'[n].status \in {"stopped", "none"} BY <1>2, <3>1 DEF Resting
    <3>. QED BY <1>4, <1>5, <1>6, <2>2, <3>1, <3>2 DEF Swept, Listened, Resting
  <2>3. CASE op[Reaper].step \notin {"stop", "drop_box"}
    BY <1>4, <1>5, <1>6, <2>3 DEF Swept, Listened
  <2>. QED BY <2>1, <2>2, <2>3
<1>7. CASE a = Reaper /\ op'[a].step = "none" BY <1>4, <1>5, <1>7 DEF Swept
<1>8. CASE a = Reaper /\ op[a].step # "none" /\ op'[a].step \notin {"none", "stop", "drop_box"}
  BY <1>4, <1>5, <1>8 DEF Swept, Listened
<1>9. ASSUME NEW n \in Envs, a = Reaper, AutoStop(n) PROVE Swept'
  <2>1. /\ sweep.phase = "judging" /\ n \in sweep.todo /\ Exists(n) /\ sweep.recs[n].last = "old"
        /\ UNCHANGED places
    BY <1>9 DEF AutoStop, ToJudge, Expired
  <2>2. op'[Reaper].step = "stop" /\ op'[Reaper].env = n BY <1>9, Begun DEF Begins
  <2>3. sweep'.phase = "judging" /\ Idle(n) BY <2>1 DEF Swept, Listened
  <2>4. n \in sweep'.late \/ act'[n].last # "recent" BY <2>1, <2>3 DEF Idle, Listened, places
  <2>. QED BY <1>4, <1>5, <2>2, <2>3, <2>4 DEF Swept, Idle
<1>10. ASSUME NEW n \in Envs, a = Reaper, AutoDelete(n) PROVE Swept'
  <2>1. sweep.phase = "judging" /\ n \in sweep.todo /\ sweep.seen[n] = "stopped" /\ UNCHANGED places
    BY <1>10 DEF AutoDelete, ToJudge
  <2>2. op'[Reaper].step = "drop_box" /\ op'[Reaper].env = n BY <1>10, Begun DEF Begins
  <2>3. sweep'.phase = "judging" /\ Resting(n) BY <2>1 DEF Swept, Listened
  <2>4. n \in sweep'.late \/ box'[n].status \in {"stopped", "none"}
    BY <2>1, <2>3 DEF Resting, Listened, places
  <2>. QED BY <1>4, <1>5, <2>2, <2>3, <2>4 DEF Swept, Resting
<1>. QED BY <1>6, <1>7, <1>8, <1>9, <1>10, ReaperSteps DEF Yields

(* And in the steps of the sweep itself.                                      *)
LEMMA SweepingKept ==
    ASSUME PlacesTyped, ThreadsTyped, SweepTyped, Ordered, Swept, EnvNext
    PROVE  (\E a \in Actors : Does(a)) \/ Swept'
<1> USE EnvConstants DEF Actors, Swept, Idle, Resting, Exists, PlacesTyped,
        SweepTyped
<1>1. CASE SweepList
  BY <1>1, JudgingListens DEF SweepList, At, places, EnvWorks
<1>2. CASE SweepRead
  BY <1>2, JudgingListens DEF SweepRead, Prune, EnvWorks
<1>3. CASE SweepEnds
  BY <1>3, JudgingListens DEF SweepEnds, At, places, EnvWorks, Asleep
<1>4. ASSUME NEW n \in Envs, Observe(n) PROVE Swept'
  <2>1. /\ sweep.phase = "judging" /\ op[Reaper].step = "none" /\ UNCHANGED <<box, op>> /\ Judged(n)
        /\ \A m \in Envs \ {n} : act'[m] = act[m]
    BY <1>4 DEF Observe, ToJudge, At, places, MarkedStarted, MarkedStopped
  <2>2. Listened /\ n \notin sweep'.todo BY <2>1, JudgingListens
  <2>. QED BY <2>1, <2>2 DEF Listened
<1>5. ASSUME NEW n \in Envs, Skip(n) PROVE Swept'
  <2>1. /\ sweep.phase = "judging" /\ op[Reaper].step = "none" /\ UNCHANGED <<box, op>> /\ Judged(n)
        /\ \A m \in Envs \ {n} : act'[m] = act[m]
    BY <1>5 DEF Skip, ToJudge, At, places, MarkedStarted, MarkedStopped
  <2>2. Listened /\ n \notin sweep'.todo BY <2>1, JudgingListens
  <2>. QED BY <2>1, <2>2 DEF Listened
<1>6. ASSUME NEW n \in Envs, Protect(n) PROVE (\E a \in Actors : Does(a)) \/ Swept'
  BY <1>6, JudgingListens DEF Protect, EnvBegins
<1>7. ASSUME NEW n \in Envs, Grow(n) PROVE Swept'
  <2>1. UNCHANGED <<box, op, sweep>> BY <1>7 DEF Grow
  <2>2. \A m \in Envs : act'[m].last = "recent" => act[m].last = "recent" BY <1>7 DEF Grow
  <2>3. \A m \in Envs : Idle(m) => m \in sweep.late \/ act'[m].last # "recent" BY <2>2
  <2>4. op[Reaper].step = "stop" => Idle(op[Reaper].env)'
    BY <2>1, <2>2 DEF Ordered
  <2>. QED BY <2>1, <2>3, <2>4
<1>8. CASE EnvDie
  BY <1>8, JudgingListens DEF EnvDie, HalfDone, places, IdleOp, Asleep
<1>. QED
  BY <1>1, <1>2, <1>3, <1>4, <1>5, <1>6, <1>7, <1>8
    DEF EnvNext, Sweeping, Does

(* Containers.                                                                *)
LEMMA BoxStaysTyped ==
    ASSUME box \in [Envs -> Boxes], ThreadsTyped, Ordered, Locked, EnvNext
    PROVE  box' \in [Envs -> Boxes]
<1> USE EnvConstants
<1>1. CASE
     \/ \E w \in Workers, n \in Envs : BeginCreate(w, n)
          \/ BeginDelete(w, n) \/ BeginRecreate(w, n) \/ BeginStop(w, n)
          \/ BeginStart(w, n) \/ BeginWake(w, n)
     \/ \E w \in Workers, n \in Envs, to \in Envs : BeginUpdate(w, n, to)
  <2>1. UNCHANGED box
    BY <1>1 DEF BeginCreate, places, EnvBegins, BeginDelete, Touch, Worked,
        BeginRecreate, BeginStop, BeginStart, BeginWake, BeginUpdate
  <2>. QED BY <2>1, Owns
<1>2. CASE
     \/ \E a \in Actors : CleanOld(a) \/ MakeWorkspace(a) \/ MakeDatabase(a)
          \/ Configure(a) \/ RecordCreated(a) \/ CreateRaises(a)
          \/ DropDatabase(a)
  <2>1. UNCHANGED box
    BY <1>2 DEF CleanOld, EnvWorks, EnvFails, MakeWorkspace, MakeDatabase,
        Configure, places, RecordCreated, Worked, CreateRaises, Revoke,
        DropDatabase
  <2>. QED BY <2>1, Owns
<1>3. CASE
     \/ \E a \in Actors : DropWorkspace(a) \/ Forget(a) \/ MoveWorkspace(a)
          \/ RenameDatabase(a) \/ RenameRecords(a) \/ MarkStopped(a)
          \/ MarkStarted(a)
  <2>1. UNCHANGED box
    BY <1>3 DEF DropWorkspace, EnvWorks, EnvFails, Strand, Forget,
        MoveWorkspace, RenameDatabase, PutBack, RenameRecords, MarkStopped,
        MarkStarted, Worked
  <2>. QED BY <2>1, Owns
<1>4. CASE
     \/ SweepList \/ SweepRead \/ SweepEnds
     \/ \E n \in Envs : Observe(n) \/ AutoStop(n) \/ AutoDelete(n)
          \/ Skip(n)
  <2>1. UNCHANGED box
    BY <1>4 DEF SweepList, places, EnvWorks, SweepRead, SweepEnds, Observe,
        Judged, AutoStop, AutoDelete, Skip
  <2>. QED BY <2>1, Owns
<1>5. CASE
     \/ \E n \in Envs : Protect(n) \/ Grow(n)
     \/ EnvDie
  <2>1. UNCHANGED box
    BY <1>5 DEF Protect, EnvBegins, Grow, EnvWorks, EnvDie, places
  <2>. QED BY <2>1, Owns
<1>6. ASSUME NEW a \in Actors, RunBox(a) PROVE box' \in [Envs -> Boxes]
  BY <1>6, Owns, MakesBoxTyped DEF RunBox, At
<1>7. ASSUME NEW a \in Actors, RollBack(a) PROVE box' \in [Envs -> Boxes]
  <2>1. NoBox \in Boxes BY EnvConstants DEF NoBox, Boxes, Births, Statuses
  <2>. QED BY <1>7, <2>1, SetsBoxTyped DEF RollBack
<1>8. ASSUME NEW a \in Actors, DropBox(a) PROVE box' \in [Envs -> Boxes]
  <2>1. op[a].env \in Envs BY <1>8, Owns DEF DropBox, At
  <2>2. NoBox \in Boxes /\ box[op[a].env].status \in Statuses /\ "stopped" \in Statuses
    BY <2>1, EnvConstants DEF NoBox, Boxes, Births, Statuses
  <2>. QED BY <1>8, <2>2, SetsBoxTyped, SetsStatusTyped DEF DropBox
<1>9. ASSUME NEW a \in Actors, RemoveBox(a) PROVE box' \in [Envs -> Boxes]
  <2>1. op[a].env \in Envs BY <1>9, Owns DEF RemoveBox, At
  <2>2. NoBox \in Boxes /\ box[op[a].env].status \in Statuses /\ "stopped" \in Statuses
    BY <2>1, EnvConstants DEF NoBox, Boxes, Births, Statuses
  <2>. QED BY <1>9, <2>2, SetsBoxTyped, SetsStatusTyped DEF RemoveBox
<1>10. ASSUME NEW a \in Actors, RunAgain(a) PROVE box' \in [Envs -> Boxes]
  BY <1>10, Owns, MakesBoxTyped DEF RunAgain, At
<1>11. ASSUME NEW a \in Actors, StopBox(a) PROVE box' \in [Envs -> Boxes]
  BY <1>11, SetsStatusTyped DEF StopBox, SetStatus, Statuses
<1>12. ASSUME NEW a \in Actors, StartBox(a) PROVE box' \in [Envs -> Boxes]
  BY <1>12, SetsStatusTyped DEF StartBox, SetStatus, Statuses
<1>. QED
  BY <1>1, <1>2, <1>3, <1>4, <1>5, <1>6, <1>7, <1>8, <1>9, <1>10, <1>11, <1>12
    DEF EnvNext, BeginWork, Work, Sweeping

(* Databases and workspaces.                                                  *)
LEMMA DataStaysTyped ==
    ASSUME db \in [Envs -> Births], ws \in [Envs -> Births], born \in Births, ThreadsTyped,
           Ordered, Locked, EnvNext
    PROVE  (db' \in [Envs -> Births] /\ ws' \in [Envs -> Births])
<1> USE EnvConstants DEF Actors
<1>0. 0 \in Births BY DEF Births
<1>z. \A a \in Actors : op[a].id \in Births BY DEF ThreadsTyped
<1>1. CASE
     \/ \E w \in Workers, n \in Envs : BeginCreate(w, n)
          \/ BeginDelete(w, n) \/ BeginRecreate(w, n) \/ BeginStop(w, n)
          \/ BeginStart(w, n) \/ BeginWake(w, n)
     \/ \E w \in Workers, n \in Envs, to \in Envs : BeginUpdate(w, n, to)
  <2>1. UNCHANGED <<db, ws>>
    BY <1>1 DEF BeginCreate, places, BeginDelete, BeginRecreate, BeginStop,
        BeginStart, BeginWake, BeginUpdate
  <2>. QED BY <2>1, <1>0, Owns
<1>2. CASE
     \/ \E a \in Actors : RunBox(a) \/ Configure(a) \/ RecordCreated(a)
          \/ CreateRaises(a) \/ DropBox(a) \/ Forget(a) \/ RemoveBox(a)
  <2>1. UNCHANGED <<db, ws>>
    BY <1>2 DEF RunBox, Configure, places, RecordCreated, CreateRaises,
        DropBox, Forget, RemoveBox
  <2>. QED BY <2>1, <1>0, Owns
<1>3. CASE
     \/ \E a \in Actors : RenameRecords(a) \/ RunAgain(a) \/ StopBox(a)
          \/ MarkStopped(a) \/ StartBox(a) \/ MarkStarted(a)
     \/ SweepList
  <2>1. UNCHANGED <<db, ws>>
    BY <1>3 DEF RenameRecords, RunAgain, StopBox, SetStatus, MarkStopped,
        StartBox, MarkStarted, SweepList, places
  <2>. QED BY <2>1, <1>0, Owns
<1>4. CASE
     \/ SweepRead \/ SweepEnds
     \/ \E n \in Envs : Observe(n) \/ AutoStop(n) \/ AutoDelete(n)
          \/ Skip(n) \/ Protect(n)
  <2>1. UNCHANGED <<db, ws>>
    BY <1>4 DEF SweepRead, SweepEnds, places, Observe, AutoStop, AutoDelete,
        Skip, Protect
  <2>. QED BY <2>1, <1>0, Owns
<1>5. CASE
     \/ \E n \in Envs : Grow(n)
     \/ EnvDie
  <2>1. UNCHANGED <<db, ws>>
    BY <1>5 DEF Grow, EnvDie, places
  <2>. QED BY <2>1, <1>0, Owns
<1>6. ASSUME NEW a \in Actors, CleanOld(a)
      PROVE  (db' \in [Envs -> Births] /\ ws' \in [Envs -> Births])
  BY <1>6, <1>0, Owns DEF CleanOld, At
<1>7. ASSUME NEW a \in Actors, MakeWorkspace(a)
      PROVE  (db' \in [Envs -> Births] /\ ws' \in [Envs -> Births])
  <2>1. born + 1 \in Births BY <1>7 DEF MakeWorkspace, Births
  <2>. QED BY <1>7, <2>1 DEF MakeWorkspace
<1>8. ASSUME NEW a \in Actors, MakeDatabase(a)
      PROVE  (db' \in [Envs -> Births] /\ ws' \in [Envs -> Births])
  BY <1>8, <1>0, Owns, <1>z DEF MakeDatabase, At
<1>9. ASSUME NEW a \in Actors, RollBack(a)
      PROVE  (db' \in [Envs -> Births] /\ ws' \in [Envs -> Births])
  BY <1>9, <1>0, Owns DEF RollBack, At
<1>10. ASSUME NEW a \in Actors, DropDatabase(a)
       PROVE  (db' \in [Envs -> Births] /\ ws' \in [Envs -> Births])
  BY <1>10, <1>0, Owns DEF DropDatabase, At
<1>11. ASSUME NEW a \in Actors, DropWorkspace(a)
       PROVE  (db' \in [Envs -> Births] /\ ws' \in [Envs -> Births])
  BY <1>11, <1>0, Owns DEF DropWorkspace, At
<1>12. ASSUME NEW a \in Actors, MoveWorkspace(a)
       PROVE  (db' \in [Envs -> Births] /\ ws' \in [Envs -> Births])
  BY <1>12, <1>0, Owns DEF MoveWorkspace, At, Moved
<1>13. ASSUME NEW a \in Actors, RenameDatabase(a)
       PROVE  (db' \in [Envs -> Births] /\ ws' \in [Envs -> Births])
  BY <1>13, <1>0, Owns DEF RenameDatabase, At, Moved, PutBack
<1>. QED
  BY <1>1, <1>2, <1>3, <1>4, <1>5, <1>6, <1>7, <1>8, <1>9, <1>10, <1>11,
     <1>12, <1>13
    DEF EnvNext, BeginWork, Work, Sweeping

(* Protection and access.                                                     *)
LEMMA AccessStaysTyped ==
    ASSUME prot \subseteq Envs, access \in [Envs -> Births], ThreadsTyped, Ordered, Locked, EnvNext
    PROVE  (prot' \subseteq Envs /\ access' \in [Envs -> Births])
<1> USE EnvConstants DEF Actors
<1>0. 0 \in Births BY DEF Births
<1>z. \A a \in Actors : op[a].id \in Births BY DEF ThreadsTyped
<1>1. CASE
     \/ \E w \in Workers, n \in Envs : BeginCreate(w, n)
          \/ BeginDelete(w, n) \/ BeginRecreate(w, n) \/ BeginStop(w, n)
          \/ BeginStart(w, n) \/ BeginWake(w, n)
     \/ \E w \in Workers, n \in Envs, to \in Envs : BeginUpdate(w, n, to)
  <2>1. UNCHANGED <<prot, access>>
    BY <1>1 DEF BeginCreate, places, BeginDelete, BeginRecreate, BeginStop,
        BeginStart, BeginWake, BeginUpdate
  <2>. QED BY <2>1, <1>0, Owns
<1>2. CASE
     \/ \E a \in Actors : MakeWorkspace(a) \/ MakeDatabase(a) \/ RunBox(a)
          \/ Configure(a) \/ DropBox(a) \/ DropDatabase(a) \/ RemoveBox(a)
  <2>1. UNCHANGED <<prot, access>>
    BY <1>2 DEF MakeWorkspace, MakeDatabase, RunBox, Configure, places,
        DropBox, DropDatabase, RemoveBox
  <2>. QED BY <2>1, <1>0, Owns
<1>3. CASE
     \/ \E a \in Actors : RunAgain(a) \/ StopBox(a) \/ MarkStopped(a)
          \/ StartBox(a) \/ MarkStarted(a)
     \/ SweepList \/ SweepRead
  <2>1. UNCHANGED <<prot, access>>
    BY <1>3 DEF RunAgain, StopBox, SetStatus, MarkStopped, StartBox,
        MarkStarted, SweepList, places, SweepRead
  <2>. QED BY <2>1, <1>0, Owns
<1>4. CASE
     \/ SweepEnds \/ EnvDie
     \/ \E n \in Envs : Observe(n) \/ AutoStop(n) \/ AutoDelete(n)
          \/ Skip(n) \/ Grow(n)
  <2>1. UNCHANGED <<prot, access>>
    BY <1>4 DEF SweepEnds, places, Observe, AutoStop, AutoDelete, Skip, Grow,
        EnvDie
  <2>. QED BY <2>1, <1>0, Owns
<1>5. ASSUME NEW a \in Actors, CleanOld(a)
      PROVE  (prot' \subseteq Envs /\ access' \in [Envs -> Births])
  BY <1>5, <1>0, Owns DEF CleanOld, At
<1>6. ASSUME NEW a \in Actors, RecordCreated(a)
      PROVE  (prot' \subseteq Envs /\ access' \in [Envs -> Births])
  BY <1>6, <1>0, Owns, <1>z DEF RecordCreated, At, Token
<1>7. ASSUME NEW a \in Actors, CreateRaises(a)
      PROVE  (prot' \subseteq Envs /\ access' \in [Envs -> Births])
  BY <1>7, <1>0, Owns DEF CreateRaises, At, Revoke
<1>8. ASSUME NEW a \in Actors, RollBack(a)
      PROVE  (prot' \subseteq Envs /\ access' \in [Envs -> Births])
  BY <1>8, <1>0, Owns DEF RollBack, At, Revoke
<1>9. ASSUME NEW a \in Actors, DropWorkspace(a)
      PROVE  (prot' \subseteq Envs /\ access' \in [Envs -> Births])
  BY <1>9, <1>0, Owns DEF DropWorkspace, At
<1>10. ASSUME NEW a \in Actors, Forget(a)
       PROVE  (prot' \subseteq Envs /\ access' \in [Envs -> Births])
  BY <1>10, <1>0, Owns DEF Forget, At
<1>11. ASSUME NEW a \in Actors, MoveWorkspace(a)
       PROVE  (prot' \subseteq Envs /\ access' \in [Envs -> Births])
  BY <1>11, <1>0, Owns DEF MoveWorkspace, At, Moved
<1>12. ASSUME NEW a \in Actors, RenameDatabase(a)
       PROVE  (prot' \subseteq Envs /\ access' \in [Envs -> Births])
  BY <1>12, <1>0, Owns DEF RenameDatabase, At, Moved, PutBack
<1>13. ASSUME NEW a \in Actors, RenameRecords(a)
       PROVE  (prot' \subseteq Envs /\ access' \in [Envs -> Births])
  BY <1>13, <1>0, Owns DEF RenameRecords, At, Moved
<1>14. ASSUME NEW n \in Envs, Protect(n)
       PROVE  (prot' \subseteq Envs /\ access' \in [Envs -> Births])
  BY <1>14, <1>0, Owns DEF Protect, Exists
<1>. QED
  BY <1>1, <1>2, <1>3, <1>4, <1>5, <1>6, <1>7, <1>8, <1>9, <1>10, <1>11,
     <1>12, <1>13, <1>14
    DEF EnvNext, BeginWork, Work, Sweeping

(* The activity record.                                                       *)
LEMMA ActStaysTyped ==
    ASSUME act \in [Envs -> [last : Ages, stopped : Ages]], ThreadsTyped, Ordered, Locked, EnvNext
    PROVE  act' \in [Envs -> [last : Ages, stopped : Ages]]
<1> USE EnvConstants DEF Ages, NoRecord, Actors
<1>1. CASE
     \/ \E w \in Workers, n \in Envs : BeginCreate(w, n) \/ BeginWake(w, n)
     \/ \E a \in Actors : CleanOld(a) \/ MakeWorkspace(a) \/ MakeDatabase(a)
          \/ RunBox(a) \/ Configure(a)
  <2>1. UNCHANGED act
    BY <1>1 DEF BeginCreate, places, BeginWake, CleanOld, MakeWorkspace,
        MakeDatabase, RunBox, Configure
  <2>. QED BY <2>1, Owns
<1>2. CASE
     \/ \E a \in Actors : CreateRaises(a) \/ RollBack(a) \/ DropBox(a)
          \/ DropDatabase(a) \/ DropWorkspace(a) \/ RemoveBox(a)
          \/ MoveWorkspace(a)
  <2>1. UNCHANGED act
    BY <1>2 DEF CreateRaises, RollBack, DropBox, DropDatabase, DropWorkspace,
        RemoveBox, MoveWorkspace
  <2>. QED BY <2>1, Owns
<1>3. CASE
     \/ \E a \in Actors : RenameDatabase(a) \/ RunAgain(a) \/ StopBox(a)
          \/ StartBox(a)
     \/ SweepList \/ SweepEnds
     \/ \E n \in Envs : AutoStop(n)
  <2>1. UNCHANGED act
    BY <1>3 DEF RenameDatabase, PutBack, RunAgain, StopBox, SetStatus,
        StartBox, SweepList, places, SweepEnds, AutoStop
  <2>. QED BY <2>1, Owns
<1>4. CASE
     \/ \E n \in Envs : AutoDelete(n) \/ Skip(n) \/ Protect(n)
     \/ EnvDie
  <2>1. UNCHANGED act
    BY <1>4 DEF AutoDelete, places, Skip, Protect, EnvDie
  <2>. QED BY <2>1, Owns
<1>5. ASSUME NEW w \in Workers, NEW n \in Envs, BeginDelete(w, n)
      PROVE  act' \in [Envs -> [last : Ages, stopped : Ages]]
  BY <1>5, Owns DEF BeginDelete, Touch, Exists, At
<1>6. ASSUME NEW w \in Workers, NEW n \in Envs, BeginRecreate(w, n)
      PROVE  act' \in [Envs -> [last : Ages, stopped : Ages]]
  BY <1>6, Owns DEF BeginRecreate, Exists, Touch, At
<1>7. ASSUME NEW w \in Workers, NEW n \in Envs, BeginStop(w, n)
      PROVE  act' \in [Envs -> [last : Ages, stopped : Ages]]
  BY <1>7, Owns DEF BeginStop, Exists, Touch, At
<1>8. ASSUME NEW w \in Workers, NEW n \in Envs, BeginStart(w, n)
      PROVE  act' \in [Envs -> [last : Ages, stopped : Ages]]
  BY <1>8, Owns DEF BeginStart, Exists, Touch, At
<1>9. ASSUME NEW w \in Workers, NEW n \in Envs, NEW to \in Envs, BeginUpdate(w, n, to)
      PROVE  act' \in [Envs -> [last : Ages, stopped : Ages]]
  BY <1>9, Owns DEF BeginUpdate, Exists, Free, Touch, At
<1>10. ASSUME NEW a \in Actors, RecordCreated(a)
       PROVE  act' \in [Envs -> [last : Ages, stopped : Ages]]
  BY <1>10, Owns DEF RecordCreated, At
<1>11. ASSUME NEW a \in Actors, Forget(a) PROVE act' \in [Envs -> [last : Ages, stopped : Ages]]
  BY <1>11, Owns DEF Forget, At
<1>12. ASSUME NEW a \in Actors, RenameRecords(a)
       PROVE  act' \in [Envs -> [last : Ages, stopped : Ages]]
  BY <1>12, Owns DEF RenameRecords, At, Moved
<1>13. ASSUME NEW a \in Actors, MarkStopped(a)
       PROVE  act' \in [Envs -> [last : Ages, stopped : Ages]]
  BY <1>13, Owns DEF MarkStopped, At, MarkedStopped
<1>14. ASSUME NEW a \in Actors, MarkStarted(a)
       PROVE  act' \in [Envs -> [last : Ages, stopped : Ages]]
  BY <1>14, Owns DEF MarkStarted, At, MarkedStarted
<1>15. CASE SweepRead
  BY <1>15, Owns DEF SweepRead, Prune
<1>16. ASSUME NEW n \in Envs, Observe(n) PROVE act' \in [Envs -> [last : Ages, stopped : Ages]]
  BY <1>16, Owns DEF Observe, MarkedStarted, MarkedStopped, At
<1>17. ASSUME NEW n \in Envs, Grow(n) PROVE act' \in [Envs -> [last : Ages, stopped : Ages]]
  BY <1>17, Owns DEF Grow
<1>. QED
  BY <1>1, <1>2, <1>3, <1>4, <1>5, <1>6, <1>7, <1>8, <1>9, <1>10, <1>11,
     <1>12, <1>13, <1>14, <1>15, <1>16, <1>17
    DEF EnvNext, BeginWork, Work, Sweeping

(* Threads and locks.                                                         *)
LEMMA ThreadsStayTyped ==
    ASSUME PlacesTyped, ThreadsTyped, CountsTyped, EnvNext
    PROVE  ThreadsTyped'
<1> USE EnvConstants DEF Actors
<1>0. /\ Kinds = {"none", "create", "delete", "recreate", "update", "stop", "start", "wake"}
      /\ EnvSteps = {"none", "clean", "workspace", "database", "run", "configure", "record", "rollback",
                     "drop_box", "drop_database", "drop_workspace", "forget",
                     "remove_box", "move", "rename_db", "rename_records", "run_again",
                     "stop", "mark_stopped", "start", "mark_started", "wake"}
      /\ 0 \in Births
  BY DEF Kinds, EnvSteps, Births
<1>i. \A n \in Envs : box[n].id \in Births BY DEF PlacesTyped, Boxes
<1>1. CASE
     \/ SweepList \/ SweepRead \/ SweepEnds
     \/ \E n \in Envs : Observe(n) \/ Skip(n) \/ Protect(n) \/ Grow(n)
  <2>1. UNCHANGED <<owner, op>>
    BY <1>1 DEF SweepList, places, EnvWorks, SweepRead, SweepEnds, Observe,
        Judged, Skip, Protect, EnvBegins, Grow
  <2>. QED BY <2>1 DEF ThreadsTyped
<1>2. ASSUME NEW w \in Workers, NEW n \in Envs, BeginCreate(w, n) PROVE ThreadsTyped'
  BY <1>2, <1>0, BeginKeepsTypes DEF BeginCreate
<1>3. ASSUME NEW w \in Workers, NEW n \in Envs, BeginDelete(w, n) PROVE ThreadsTyped'
  BY <1>3, <1>0, BeginKeepsTypes, <1>i DEF BeginDelete
<1>4. ASSUME NEW w \in Workers, NEW n \in Envs, BeginRecreate(w, n) PROVE ThreadsTyped'
  BY <1>4, <1>0, BeginKeepsTypes, <1>i DEF BeginRecreate
<1>5. ASSUME NEW w \in Workers, NEW n \in Envs, BeginStop(w, n) PROVE ThreadsTyped'
  BY <1>5, <1>0, BeginKeepsTypes, <1>i DEF BeginStop
<1>6. ASSUME NEW w \in Workers, NEW n \in Envs, BeginStart(w, n) PROVE ThreadsTyped'
  BY <1>6, <1>0, BeginKeepsTypes, <1>i DEF BeginStart
<1>7. ASSUME NEW w \in Workers, NEW n \in Envs, BeginWake(w, n) PROVE ThreadsTyped'
  BY <1>7, <1>0, <1>i DEF BeginWake, ThreadsTyped
<1>8. ASSUME NEW w \in Workers, NEW n \in Envs, NEW to \in Envs, BeginUpdate(w, n, to)
      PROVE  ThreadsTyped'
  BY <1>8, <1>0, BeginKeepsTypes, <1>i DEF BeginUpdate
<1>9. ASSUME NEW a \in Actors, CleanOld(a) PROVE ThreadsTyped'
  BY <1>9, <1>0, GoKeepsTypes, DoneKeepsTypes DEF CleanOld
<1>10. ASSUME NEW a \in Actors, MakeWorkspace(a) PROVE ThreadsTyped'
  <2>1. born + 1 \in Births BY <1>10, EnvConstants DEF MakeWorkspace, CountsTyped, Births
  <2>. QED BY <1>10, <1>0, <2>1 DEF MakeWorkspace, ThreadsTyped
<1>11. ASSUME NEW a \in Actors, MakeDatabase(a) PROVE ThreadsTyped'
  BY <1>11, <1>0, GoKeepsTypes, DoneKeepsTypes DEF MakeDatabase
<1>12. ASSUME NEW a \in Actors, RunBox(a) PROVE ThreadsTyped'
  BY <1>12, <1>0, GoKeepsTypes, DoneKeepsTypes DEF RunBox
<1>13. ASSUME NEW a \in Actors, Configure(a) PROVE ThreadsTyped'
  BY <1>13, <1>0, GoKeepsTypes, DoneKeepsTypes DEF Configure
<1>14. ASSUME NEW a \in Actors, RecordCreated(a) PROVE ThreadsTyped'
  BY <1>14, <1>0, GoKeepsTypes, DoneKeepsTypes DEF RecordCreated
<1>15. ASSUME NEW a \in Actors, CreateRaises(a) PROVE ThreadsTyped'
  BY <1>15, <1>0, GoKeepsTypes, DoneKeepsTypes DEF CreateRaises
<1>16. ASSUME NEW a \in Actors, RollBack(a) PROVE ThreadsTyped'
  BY <1>16, <1>0, GoKeepsTypes, DoneKeepsTypes DEF RollBack
<1>17. ASSUME NEW a \in Actors, DropBox(a) PROVE ThreadsTyped'
  BY <1>17, <1>0, GoKeepsTypes, DoneKeepsTypes DEF DropBox
<1>18. ASSUME NEW a \in Actors, DropDatabase(a) PROVE ThreadsTyped'
  BY <1>18, <1>0, GoKeepsTypes, DoneKeepsTypes DEF DropDatabase
<1>19. ASSUME NEW a \in Actors, DropWorkspace(a) PROVE ThreadsTyped'
  BY <1>19, <1>0, GoKeepsTypes, DoneKeepsTypes DEF DropWorkspace
<1>20. ASSUME NEW a \in Actors, Forget(a) PROVE ThreadsTyped'
  BY <1>20, <1>0, GoKeepsTypes, DoneKeepsTypes DEF Forget
<1>21. ASSUME NEW a \in Actors, RemoveBox(a) PROVE ThreadsTyped'
  BY <1>21, <1>0, GoKeepsTypes, DoneKeepsTypes DEF RemoveBox
<1>22. ASSUME NEW a \in Actors, MoveWorkspace(a) PROVE ThreadsTyped'
  BY <1>22, <1>0, GoKeepsTypes, DoneKeepsTypes DEF MoveWorkspace
<1>23. ASSUME NEW a \in Actors, RenameDatabase(a) PROVE ThreadsTyped'
  BY <1>23, <1>0, GoKeepsTypes, DoneKeepsTypes DEF RenameDatabase
<1>24. ASSUME NEW a \in Actors, RenameRecords(a) PROVE ThreadsTyped'
  <2>1. CASE Done(a) BY <2>1, DoneKeepsTypes
  <2>2. CASE op' = [op EXCEPT ![a].step = "run_again", ![a].env = op[a].to] /\ UNCHANGED owner
    BY <1>0, <2>2 DEF ThreadsTyped
  <2>. QED BY <1>24, <2>1, <2>2 DEF RenameRecords
<1>25. ASSUME NEW a \in Actors, RunAgain(a) PROVE ThreadsTyped'
  BY <1>25, <1>0, GoKeepsTypes, DoneKeepsTypes DEF RunAgain
<1>26. ASSUME NEW a \in Actors, StopBox(a) PROVE ThreadsTyped'
  BY <1>26, <1>0, GoKeepsTypes, DoneKeepsTypes DEF StopBox
<1>27. ASSUME NEW a \in Actors, MarkStopped(a) PROVE ThreadsTyped'
  BY <1>27, <1>0, GoKeepsTypes, DoneKeepsTypes DEF MarkStopped
<1>28. ASSUME NEW a \in Actors, StartBox(a) PROVE ThreadsTyped'
  BY <1>28, <1>0, GoKeepsTypes, DoneKeepsTypes DEF StartBox
<1>29. ASSUME NEW a \in Actors, MarkStarted(a) PROVE ThreadsTyped'
  BY <1>29, <1>0, GoKeepsTypes, DoneKeepsTypes DEF MarkStarted
<1>30. ASSUME NEW n \in Envs, AutoStop(n) PROVE ThreadsTyped'
  BY <1>30, <1>0, BeginKeepsTypes, <1>i DEF AutoStop
<1>31. ASSUME NEW n \in Envs, AutoDelete(n) PROVE ThreadsTyped'
  BY <1>31, <1>0, BeginKeepsTypes, <1>i DEF AutoDelete
<1>32. CASE EnvDie
  BY <1>32, <1>0, EnvConstants DEF EnvDie, IdleOp, ThreadsTyped, Births
<1>. QED
  BY <1>1, <1>2, <1>3, <1>4, <1>5, <1>6, <1>7, <1>8, <1>9, <1>10, <1>11,
     <1>12, <1>13, <1>14, <1>15, <1>16, <1>17, <1>18, <1>19, <1>20, <1>21,
     <1>22, <1>23, <1>24, <1>25, <1>26, <1>27, <1>28, <1>29, <1>30, <1>31,
     <1>32
    DEF EnvNext, BeginWork, Work, Sweeping

(* The sweep.                                                                 *)
LEMMA SweepStaysTyped ==
    ASSUME prot \subseteq Envs, box \in [Envs -> Boxes],
           act \in [Envs -> [last : Ages, stopped : Ages]], SweepTyped, Ordered, Locked,
           act' \in [Envs -> [last : Ages, stopped : Ages]], EnvNext
    PROVE  SweepTyped'
<1> USE EnvConstants DEF Actors, SweepTyped
<1>1. CASE
     \/ \E w \in Workers, n \in Envs : BeginCreate(w, n) \/ BeginWake(w, n)
     \/ \E a \in Actors : CleanOld(a) \/ MakeWorkspace(a) \/ MakeDatabase(a)
          \/ Configure(a) \/ CreateRaises(a)
  <2>1. UNCHANGED sweep
    BY <1>1 DEF BeginCreate, places, BeginWake, CleanOld, MakeWorkspace,
        MakeDatabase, Configure, CreateRaises
  <2>. QED BY <2>1, Owns, WorkKeepsTypes, JudgingKeepsTypes
<1>2. CASE
     \/ \E a \in Actors : RollBack(a) \/ DropBox(a) \/ DropDatabase(a)
          \/ DropWorkspace(a) \/ Forget(a) \/ RemoveBox(a)
          \/ MoveWorkspace(a)
  <2>1. UNCHANGED sweep
    BY <1>2 DEF RollBack, DropBox, DropDatabase, DropWorkspace, Forget,
        RemoveBox, MoveWorkspace
  <2>. QED BY <2>1, Owns, WorkKeepsTypes, JudgingKeepsTypes
<1>3. CASE
     \/ \E a \in Actors : RenameDatabase(a) \/ RenameRecords(a)
          \/ StopBox(a) \/ MarkStopped(a)
     \/ \E n \in Envs : Protect(n) \/ Grow(n)
  <2>1. UNCHANGED sweep
    BY <1>3 DEF RenameDatabase, PutBack, RenameRecords, StopBox, SetStatus,
        MarkStopped, Protect, Grow
  <2>. QED BY <2>1, Owns, WorkKeepsTypes, JudgingKeepsTypes
<1>4. ASSUME NEW w \in Workers, NEW n \in Envs, BeginDelete(w, n) PROVE SweepTyped'
  BY <1>4, Owns, WorkKeepsTypes, JudgingKeepsTypes DEF BeginDelete, Touch,
      Exists, At
<1>5. ASSUME NEW w \in Workers, NEW n \in Envs, BeginRecreate(w, n) PROVE SweepTyped'
  BY <1>5, Owns, WorkKeepsTypes, JudgingKeepsTypes DEF BeginRecreate, Exists,
      Touch, At
<1>6. ASSUME NEW w \in Workers, NEW n \in Envs, BeginStop(w, n) PROVE SweepTyped'
  BY <1>6, Owns, WorkKeepsTypes, JudgingKeepsTypes DEF BeginStop, Exists,
      Touch, At
<1>7. ASSUME NEW w \in Workers, NEW n \in Envs, BeginStart(w, n) PROVE SweepTyped'
  BY <1>7, Owns, WorkKeepsTypes, JudgingKeepsTypes DEF BeginStart, Exists,
      Touch, At
<1>8. ASSUME NEW w \in Workers, NEW n \in Envs, NEW to \in Envs, BeginUpdate(w, n, to)
      PROVE  SweepTyped'
  BY <1>8, Owns, WorkKeepsTypes, JudgingKeepsTypes DEF BeginUpdate, Exists,
      Free, Touch, At
<1>9. ASSUME NEW a \in Actors, RunBox(a) PROVE SweepTyped'
  BY <1>9, Owns, WorkKeepsTypes, JudgingKeepsTypes DEF RunBox, At
<1>10. ASSUME NEW a \in Actors, RecordCreated(a) PROVE SweepTyped'
  BY <1>10, Owns, WorkKeepsTypes, JudgingKeepsTypes DEF RecordCreated, At
<1>11. ASSUME NEW a \in Actors, RunAgain(a) PROVE SweepTyped'
  BY <1>11, Owns, WorkKeepsTypes, JudgingKeepsTypes DEF RunAgain, At, Exists
<1>12. ASSUME NEW a \in Actors, StartBox(a) PROVE SweepTyped'
  BY <1>12, Owns, WorkKeepsTypes, JudgingKeepsTypes DEF StartBox, Exists,
      SetStatus, Ordered
<1>13. ASSUME NEW a \in Actors, MarkStarted(a) PROVE SweepTyped'
  BY <1>13, Owns, WorkKeepsTypes, JudgingKeepsTypes DEF MarkStarted, At,
      Ordered
<1>14. CASE SweepList
  BY <1>14, Owns, WorkKeepsTypes, JudgingKeepsTypes DEF SweepList, At, Exists,
      places, Asleep, Statuses, Ages, NoRecord, Boxes
<1>15. CASE SweepRead
  BY <1>15, Owns, WorkKeepsTypes, JudgingKeepsTypes DEF SweepRead
<1>16. CASE SweepEnds
  BY <1>16, Owns, WorkKeepsTypes, JudgingKeepsTypes DEF SweepEnds, At, places,
      Asleep, Statuses, Ages, NoRecord, Boxes
<1>17. ASSUME NEW n \in Envs, Observe(n) PROVE SweepTyped'
  BY <1>17, Owns, WorkKeepsTypes, JudgingKeepsTypes DEF Observe, At
<1>18. ASSUME NEW n \in Envs, AutoStop(n) PROVE SweepTyped'
  BY <1>18, Owns, WorkKeepsTypes, JudgingKeepsTypes DEF AutoStop, Exists,
      places, At
<1>19. ASSUME NEW n \in Envs, AutoDelete(n) PROVE SweepTyped'
  BY <1>19, Owns, WorkKeepsTypes, JudgingKeepsTypes DEF AutoDelete, places,
      At, Exists
<1>20. ASSUME NEW n \in Envs, Skip(n) PROVE SweepTyped'
  BY <1>20, Owns, WorkKeepsTypes, JudgingKeepsTypes DEF Skip, Refused, places,
      At, Exists
<1>21. CASE EnvDie
  BY <1>21, Owns, WorkKeepsTypes, JudgingKeepsTypes DEF EnvDie, HalfDone,
      places, Asleep, Statuses, Ages, NoRecord, Boxes
<1>. QED
  BY <1>1, <1>2, <1>3, <1>4, <1>5, <1>6, <1>7, <1>8, <1>9, <1>10, <1>11,
     <1>12, <1>13, <1>14, <1>15, <1>16, <1>17, <1>18, <1>19, <1>20, <1>21
    DEF EnvNext, BeginWork, Work, Sweeping

(* Numbers, failures and bounds.                                              *)
LEMMA CountsStayTyped ==
    ASSUME CountsTyped, ThreadsTyped, Ordered, Locked, EnvNext
    PROVE  CountsTyped'
<1> USE EnvConstants DEF Actors, CountsTyped
<1>0. {MaxBorn, EnvFailures, EnvOps} \subseteq Nat OBVIOUS
<1>1. CASE
     \/ \E a \in Actors : MakeDatabase(a) \/ StopBox(a) \/ MarkStopped(a)
          \/ StartBox(a) \/ MarkStarted(a)
     \/ SweepList \/ SweepRead
  <2>1. UNCHANGED <<born, root, stranded, died, envFailures, envOps>>
    BY <1>1 DEF MakeDatabase, EnvWorks, StopBox, SetStatus, MarkStopped,
        StartBox, MarkStarted, SweepList, places, SweepRead
  <2>. QED BY <2>1, Owns, <1>0
<1>2. CASE
     \/ SweepEnds
     \/ \E n \in Envs : Observe(n) \/ AutoStop(n) \/ AutoDelete(n)
          \/ Skip(n) \/ Grow(n)
  <2>1. UNCHANGED <<born, root, stranded, died, envFailures, envOps>>
    BY <1>2 DEF SweepEnds, places, EnvWorks, Observe, AutoStop, AutoDelete,
        Skip, Grow
  <2>. QED BY <2>1, Owns, <1>0
<1>3. ASSUME NEW w \in Workers, NEW n \in Envs, BeginCreate(w, n) PROVE CountsTyped'
  BY <1>3, Owns, <1>0 DEF BeginCreate, Exists, places, EnvBegins, At
<1>4. ASSUME NEW w \in Workers, NEW n \in Envs, BeginDelete(w, n) PROVE CountsTyped'
  BY <1>4, Owns, <1>0 DEF BeginDelete, EnvBegins, Exists, At
<1>5. ASSUME NEW w \in Workers, NEW n \in Envs, BeginRecreate(w, n) PROVE CountsTyped'
  BY <1>5, Owns, <1>0 DEF BeginRecreate, Exists, EnvBegins, At
<1>6. ASSUME NEW w \in Workers, NEW n \in Envs, BeginStop(w, n) PROVE CountsTyped'
  BY <1>6, Owns, <1>0 DEF BeginStop, Exists, EnvBegins, At
<1>7. ASSUME NEW w \in Workers, NEW n \in Envs, BeginStart(w, n) PROVE CountsTyped'
  BY <1>7, Owns, <1>0 DEF BeginStart, Exists, EnvBegins, At
<1>8. ASSUME NEW w \in Workers, NEW n \in Envs, BeginWake(w, n) PROVE CountsTyped'
  BY <1>8, Owns, <1>0 DEF BeginWake, At, places, EnvBegins
<1>9. ASSUME NEW w \in Workers, NEW n \in Envs, NEW to \in Envs, BeginUpdate(w, n, to)
      PROVE  CountsTyped'
  BY <1>9, Owns, <1>0 DEF BeginUpdate, Exists, Free, EnvBegins, At
<1>10. ASSUME NEW a \in Actors, CleanOld(a) PROVE CountsTyped'
  BY <1>10, Owns, <1>0 DEF CleanOld, At, EnvWorks, EnvFails
<1>11. ASSUME NEW a \in Actors, MakeWorkspace(a) PROVE CountsTyped'
  <2>1. born + 1 \in Births /\ born + 1 \in 1..MaxBorn BY <1>11 DEF MakeWorkspace, Births
  <2>2. op[a].kind = "recreate" => op[a].id \in 1..MaxBorn BY <1>11 DEF Ordered, ThreadsTyped,
                                                              Births
  <2>. QED BY <1>11, <2>1, <2>2 DEF MakeWorkspace, EnvWorks
<1>12. ASSUME NEW a \in Actors, RunBox(a) PROVE CountsTyped'
  BY <1>12, Owns, <1>0 DEF RunBox, At, EnvWorks, EnvFails
<1>13. ASSUME NEW a \in Actors, Configure(a) PROVE CountsTyped'
  BY <1>13, Owns, <1>0 DEF Configure, At, EnvWorks, EnvFails, places
<1>14. ASSUME NEW a \in Actors, RecordCreated(a) PROVE CountsTyped'
  BY <1>14, Owns, <1>0 DEF RecordCreated, At, EnvWorks, EnvFails
<1>15. ASSUME NEW a \in Actors, CreateRaises(a) PROVE CountsTyped'
  BY <1>15, Owns, <1>0 DEF CreateRaises, EnvFails, At, EnvWorks
<1>16. ASSUME NEW a \in Actors, RollBack(a) PROVE CountsTyped'
  BY <1>16, Owns, <1>0 DEF RollBack, At, EnvWorks, EnvFails
<1>17. ASSUME NEW a \in Actors, DropBox(a) PROVE CountsTyped'
  BY <1>17, Owns, <1>0 DEF DropBox, At, EnvWorks, Exists, EnvFails
<1>18. ASSUME NEW a \in Actors, DropDatabase(a) PROVE CountsTyped'
  BY <1>18, Owns, <1>0 DEF DropDatabase, At, EnvWorks, EnvFails
<1>19. ASSUME NEW a \in Actors, DropWorkspace(a) PROVE CountsTyped'
  BY <1>19, Owns, <1>0 DEF DropWorkspace, At, EnvWorks, EnvFails, Strand
<1>20. ASSUME NEW a \in Actors, Forget(a) PROVE CountsTyped'
  BY <1>20, Owns, <1>0 DEF Forget, At, EnvWorks, EnvFails, Strand
<1>21. ASSUME NEW a \in Actors, RemoveBox(a) PROVE CountsTyped'
  BY <1>21, Owns, <1>0 DEF RemoveBox, At, EnvWorks, Exists, EnvFails
<1>22. ASSUME NEW a \in Actors, MoveWorkspace(a) PROVE CountsTyped'
  BY <1>22, Owns, <1>0 DEF MoveWorkspace, At, Moved, EnvWorks, EnvFails,
      Strand
<1>23. ASSUME NEW a \in Actors, RenameDatabase(a) PROVE CountsTyped'
  BY <1>23, Owns, <1>0 DEF RenameDatabase, At, Moved, EnvWorks, PutBack,
      Strand, EnvFails
<1>24. ASSUME NEW a \in Actors, RenameRecords(a) PROVE CountsTyped'
  BY <1>24, Owns, <1>0 DEF RenameRecords, At, Moved, EnvWorks, EnvFails
<1>25. ASSUME NEW a \in Actors, RunAgain(a) PROVE CountsTyped'
  BY <1>25, Owns, <1>0 DEF RunAgain, At, Exists, EnvWorks, EnvFails, Strand
<1>26. ASSUME NEW n \in Envs, Protect(n) PROVE CountsTyped'
  BY <1>26, Owns, <1>0 DEF Protect, Exists, EnvBegins
<1>27. CASE EnvDie
  BY <1>27, Owns, <1>0 DEF EnvDie, HalfDone, places
<1>. QED
  BY <1>1, <1>2, <1>3, <1>4, <1>5, <1>6, <1>7, <1>8, <1>9, <1>10, <1>11,
     <1>12, <1>13, <1>14, <1>15, <1>16, <1>17, <1>18, <1>19, <1>20, <1>21,
     <1>22, <1>23, <1>24, <1>25, <1>26, <1>27
    DEF EnvNext, BeginWork, Work, Sweeping

(* A thread that works is alive.                                              *)
LEMMA Lives ==
    ASSUME NEW a \in Actors, Does(a)
    PROVE  died' = died
<1> USE EnvConstants
<1>1. CASE
     \/ \E n \in Envs : BeginCreate(a, n) \/ BeginDelete(a, n)
          \/ BeginRecreate(a, n) \/ BeginStop(a, n) \/ BeginStart(a, n)
          \/ BeginWake(a, n)
     \/ \E n \in Envs, to \in Envs : BeginUpdate(a, n, to)
  <2>1. UNCHANGED died
    BY <1>1 DEF BeginCreate, Begin, places, EnvBegins, BeginDelete, Touch,
        Worked, BeginRecreate, BeginStop, BeginStart, BeginWake, BeginUpdate
  <2>. QED BY <2>1
<1>2. CASE
     \/ CleanOld(a) \/ MakeWorkspace(a) \/ MakeDatabase(a) \/ RunBox(a)
          \/ Configure(a) \/ RecordCreated(a) \/ CreateRaises(a)
  <2>1. UNCHANGED died
    BY <1>2 DEF CleanOld, EnvWorks, EnvFails, Go, MakeWorkspace, MakeDatabase,
        RunBox, Worked, Configure, places, RecordCreated, Done, CreateRaises,
        Revoke
  <2>. QED BY <2>1
<1>3. CASE
     \/ RollBack(a) \/ DropBox(a) \/ DropDatabase(a) \/ DropWorkspace(a)
          \/ Forget(a) \/ RemoveBox(a) \/ MoveWorkspace(a)
  <2>1. UNCHANGED died
    BY <1>3 DEF RollBack, EnvWorks, EnvFails, Revoke, Done, DropBox, Go,
        DropDatabase, DropWorkspace, Strand, Forget, RemoveBox, MoveWorkspace
  <2>. QED BY <2>1
<1>4. CASE
     \/ RenameDatabase(a) \/ RenameRecords(a) \/ RunAgain(a) \/ StopBox(a)
          \/ MarkStopped(a) \/ StartBox(a) \/ MarkStarted(a)
  <2>1. UNCHANGED died
    BY <1>4 DEF RenameDatabase, Go, EnvWorks, Done, PutBack, Strand, EnvFails,
        RenameRecords, RunAgain, Worked, StopBox, SetStatus, MarkStopped,
        StartBox, MarkStarted
  <2>. QED BY <2>1
<1>5. CASE
     \/ \E n \in Envs : AutoStop(n) \/ AutoDelete(n)
  <2>1. UNCHANGED died
    BY <1>5 DEF AutoStop, Judged, Begin, places, EnvWorks, AutoDelete
  <2>. QED BY <2>1
<1>. QED
  BY <1>1, <1>2, <1>3, <1>4, <1>5
    DEF Does, BeginWork, Work

-----------------------------------------------------------------------------
(* The theorems.                                                             *)

(* The invariant holds in the beginning.                                      *)
LEMMA InvBegins == EnvInit => EnvInv
<1> SUFFICES ASSUME EnvInit PROVE EnvInv OBVIOUS
<1> USE EnvConstants DEF EnvInit
<1>0. 0 \in Births BY DEF Births
<1>1. PlacesTyped BY <1>0 DEF PlacesTyped, Boxes, NoBox, Statuses, NoRecord, Ages
<1>2. ThreadsTyped BY <1>0 DEF ThreadsTyped, Actors, IdleOp, Kinds, EnvSteps
<1>3. SweepTyped BY DEF SweepTyped, Asleep, Statuses, Ages, NoRecord
<1>4. CountsTyped
  <2>0. EnvFailures \in Nat /\ EnvOps \in Nat OBVIOUS
  <2>1. 0 \in 0..EnvFailures /\ 0 \in 0..EnvOps BY <2>0
  <2>. QED BY <1>0, <2>1 DEF CountsTyped
<1>5. \A a \in Actors : op[a] = IdleOp OBVIOUS
<1>6. Ordered /\ Locked /\ Staged
  BY <1>5 DEF Ordered, Numbered, Locked, Busy, Staged, Stage, Unmade, Made, Stopping, Target,
     Carried,
              IdleOp
<1>7. Boxed /\ ServesOwnData BY DEF Boxed, ServesOwnData, Exists, NoBox
<1>8. Fresh /\ Single /\ Paired BY DEF Fresh, Single, Paired
<1>9. Swept BY <1>5 DEF Swept, Asleep, IdleOp, Actors
<1>. QED BY <1>1, <1>2, <1>3, <1>4, <1>6, <1>7, <1>8, <1>9, TypesInParts DEF EnvInv

(* Every step keeps it.                                                       *)
LEMMA InvKept == EnvInv /\ [EnvNext]_envVars => EnvInv'
<1> SUFFICES ASSUME EnvInv, [EnvNext]_envVars PROVE EnvInv' OBVIOUS
<1>0. /\ PlacesTyped /\ ThreadsTyped /\ SweepTyped /\ CountsTyped
      /\ Ordered /\ Locked /\ Staged /\ Boxed /\ ServesOwnData /\ Fresh /\ Single /\ Paired /\ Swept
  BY TypesInParts DEF EnvInv
<1>1. CASE UNCHANGED envVars
  BY <1>1 DEF envVars, places, EnvInv, EnvTypeOK, Ordered, Locked, Busy, Staged, Stage, Unmade,
     Made,
              Stopping, Target, Carried, Of, Boxed, ServesOwnData, Exists, Fresh, Single, Paired,
           Moving,
              Swept, Idle, Resting
<1>2. CASE EnvNext
  <2>1. PlacesTyped'
    <3>1. box' \in [Envs -> Boxes] BY <1>0, <1>2, BoxStaysTyped DEF PlacesTyped
    <3>2. db' \in [Envs -> Births] /\ ws' \in [Envs -> Births]
      BY <1>0, <1>2, DataStaysTyped DEF PlacesTyped, CountsTyped
    <3>3. prot' \subseteq Envs /\ access' \in [Envs -> Births]
      BY <1>0, <1>2, AccessStaysTyped DEF PlacesTyped
    <3>4. act' \in [Envs -> [last : Ages, stopped : Ages]]
      BY <1>0, <1>2, ActStaysTyped DEF PlacesTyped
    <3>. QED BY <3>1, <3>2, <3>3, <3>4 DEF PlacesTyped
  <2>2. ThreadsTyped' BY <1>0, <1>2, ThreadsStayTyped
  <2>3. SweepTyped' BY <1>0, <1>2, <2>1, SweepStaysTyped DEF PlacesTyped
  <2>4. CountsTyped' BY <1>0, <1>2, CountsStayTyped
  <2>5. EnvTypeOK' BY <2>1, <2>2, <2>3, <2>4 DEF EnvTypeOK, PlacesTyped, ThreadsTyped,
                      SweepTyped, CountsTyped
  <2>6. Ordered' /\ Locked' /\ Staged' BY <1>0, <1>2, ThreadsKept, LocksKept, StagedKept
  <2>7. Boxed' /\ ServesOwnData' /\ Fresh' /\ Single' /\ Paired' /\ Swept'
    <3>1. CASE \E a \in Actors : Does(a)
      <4>1. PICK a \in Actors : Does(a) BY <3>1
      <4>2. Stage(a) /\ Made(a) BY <1>0 DEF Staged, Stage
      <4>3. Yields(a) BY <1>0, <4>1, Yielding
      <4>4. Drops \/ MakesData(a) \/ ShiftsData(a) BY <1>0, <4>1, <4>2, DataSteps
      <4>5. BoxSteps(a) BY <1>0, <4>1, <4>2, ContainerSteps
      <4>6. Boxed' /\ ServesOwnData' BY <1>0, <4>2, <4>4, <4>5, ServingKept
      <4>7. Fresh' /\ Single' BY <1>0, <4>2, <4>4, FreshKept
      <4>8. Paired' BY <1>0, <4>1, <4>2, <4>3, <4>4, Lives, PairedKept
      <4>9. Listened /\ Minded(a) BY <1>0, <4>1, <4>2, SweepListens, WorkIsMinded
      <4>10. Swept' BY <1>0, <4>1, <4>2, <4>3, <4>9, SweptKept
      <4>. QED BY <4>6, <4>7, <4>8, <4>10
    <3>2. CASE ~\E a \in Actors : Does(a)
      <4>1. Swept' BY <1>0, <1>2, <3>2, SweepingKept
      <4>2. CASE UNCHANGED <<box, db, ws, owner, op, born, died>>
        BY <1>0, <4>1, <4>2 DEF Boxed, ServesOwnData, Exists, Fresh, Single, Paired, Moving
      <4>3. CASE EnvDie
        BY <1>0, <4>1, <4>3 DEF EnvDie, places, Boxed, ServesOwnData, Exists, Fresh, Single, Paired
      <4>. QED BY <1>2, <3>2, <4>2, <4>3, Steps
    <3>. QED BY <3>1, <3>2
  <2>. QED BY <2>5, <2>6, <2>7 DEF EnvInv
<1>. QED BY <1>1, <1>2

(* So it always holds.                                                        *)
LEMMA InvHolds == EnvSpec => []EnvInv
BY InvBegins, InvKept, PTL DEF EnvSpec

(* The variables have their types; in particular a recreation continues a    *)
(* creation that there was.                                                  *)
THEOREM EnvironmentTypes == EnvSpec => []EnvTypeOK
<1>1. EnvInv => EnvTypeOK BY DEF EnvInv
<1>. QED BY <1>1, InvHolds, PTL

(* A container serves no database and no workspace that was made for another *)
(* environment, whatever failed before.                                      *)
THEOREM OwnDataServed == EnvSpec => []ServesOwnData
<1>1. EnvInv => ServesOwnData BY DEF EnvInv
<1>. QED BY <1>1, InvHolds, PTL

(* Outside an operation a workspace and its database lie under one name,     *)
(* unless the server died in the middle of one.                              *)
THEOREM PairsStayTogether == EnvSpec => []PairUnderOneName
<1>1. ASSUME EnvInv PROVE PairUnderOneName
  <2> SUFFICES ASSUME ~died, NEW n \in Envs, NEW m \in Envs, n # m, Settled(n), Settled(m)
               PROVE  ws[n] = 0 \/ db[m] # ws[n]
    BY DEF PairUnderOneName
  <2>1. ~Moving(n, m)
    BY <1>1, EnvConstants, Owns DEF EnvInv, Moving, Settled, Actors
  <2>. QED BY <1>1, <2>1 DEF EnvInv, Paired
<1>. QED BY <1>1, InvHolds, PTL

(* The reaper stops no environment that was in use since its sweep read the  *)
(* records, and deletes none that runs, but for work that came in during the *)
(* sweep.                                                                    *)
THEOREM ReaperSparesUsed == EnvSpec => ReaperActsOnIdle
<1>1. ASSUME EnvInv, EnvInv', EnvNext, NEW n \in Envs, op[Reaper].env = n, box'[n] # box[n]
      PROVE  /\ op[Reaper].step = "stop" => n \in sweep.late \/ act[n].last # "recent"
             /\ op[Reaper].step = "drop_box" => n \in sweep.late \/ box[n].status = "stopped"
  <2>1. op[Reaper].step = "stop" => n \in sweep.late \/ act[n].last # "recent"
    BY <1>1 DEF EnvInv, Swept, Idle
  <2>2. ASSUME op[Reaper].step = "drop_box", n \notin sweep.late PROVE box[n].status = "stopped"
    <3>1. box[n].status \in {"stopped", "none"} BY <1>1, <2>2 DEF EnvInv, Swept, Resting
    <3>2. CASE ~Exists(n)
      <4>0. /\ PlacesTyped /\ ThreadsTyped /\ Ordered /\ Locked /\ Staged /\ Boxed
        BY <1>1, TypesInParts DEF EnvInv
      <4>1. box[n] = NoBox /\ owner[n] = Reaper BY <1>1, <2>2, <3>2, <4>0, Owns DEF Boxed, Actors
      <4>2. PICK a \in Actors : Does(a)
        BY <1>1, Steps DEF EnvDie, places
      <4>3. CASE a = Reaper
        <5>1. BoxSteps(a) BY <4>0, <4>2, ContainerSteps DEF Staged
        <5>. QED BY <1>1, <2>2, <3>2, <4>1, <4>3, <5>1 DEF BoxSteps, Handles, Makes
      <4>4. CASE a # Reaper
        <5>1. Yields(a) BY <4>0, <4>2, Yielding
        <5>2. ~(box'[n].status # "none") BY <3>2, <4>1, <4>4, <5>1 DEF Yields, Exists
        <5>. QED BY <1>1, <4>1, <5>2 DEF EnvInv, Boxed, Exists
      <4>. QED BY <4>3, <4>4
    <3>. QED BY <3>1, <3>2 DEF Exists
  <2>. QED BY <2>1, <2>2
<1>2. EnvInv /\ EnvInv' /\ [EnvNext]_envVars
        => [\A n \in Envs :
              /\ op[Reaper].env = n /\ At(Reaper, "stop") /\ box'[n] # box[n]
                   => n \in sweep.late \/ act[n].last # "recent"
              /\ op[Reaper].env = n /\ At(Reaper, "drop_box") /\ box'[n] # box[n]
                   => n \in sweep.late \/ box[n].status = "stopped"]_envVars
  BY <1>1 DEF At
<1>. QED BY <1>2, InvHolds, PTL DEF EnvSpec, ReaperActsOnIdle

-----------------------------------------------------------------------------
(* Addresses.                                                                *)

(* The types, in parts.                                                      *)
CallRecords ==
    [kind : {"none", "create", "delete", "recreate", "update"},
     env : Tenants \cup {NoEnv}, to : Tenants \cup {NoEnv}, step : A!Steps,
     want : A!Labels \cup {NoHost}, seen : SUBSET Tenants,
     used : SUBSET (A!Labels \cup 1..Ports), host : A!Labels \cup {NoHost},
     slot : BOOLEAN, port : 0..Ports, fresh : BOOLEAN, clear : BOOLEAN]
CallsTyped == call \in [Workers -> CallRecords] /\ lease \in [Tenants -> SUBSET Workers]
RegistriesTyped ==
    /\ mode \in {"port", "name", "slots"} /\ bare \subseteq Tenants
    /\ ports \in [Tenants -> 0..Ports] /\ hosts \in [Tenants -> A!Labels \cup {NoHost, Reserved}]
    /\ tenant \in [Tenants -> A!Boxes]
LimitsTyped == addrFailures \in 0..AddrFailures /\ addrOps \in 0..AddrOps /\ changes \in 0..Changes

(* Who works on a name holds its lock, and nobody else.                      *)
HoldsNames == \A c \in Workers : ~A!At(c, "none") => lease[A!Me(c)] = {c} /\ lease[call[c].to] = {c}

(* What the step of a caller says of its operation.                          *)
Builds(c) == call[c].kind \in {"create", "recreate"}
Updates(c) == call[c].kind = "update"
StepFits(c) ==
    /\ call[c].kind = "none" <=> A!At(c, "none")
    /\ ~A!At(c, "none") => A!Me(c) \in Tenants /\ call[c].to \in Tenants
    /\ call[c].step \in {"assign", "prepare", "reserve", "configure", "rollback", "release"}
        => Builds(c)
    /\ call[c].step \in {"look", "port", "run"} => call[c].kind # "delete"
    /\ call[c].step \in {"move", "settle", "clear"} => Updates(c)
    /\ A!At(c, "forget") => call[c].kind \in {"delete", "recreate"}
    /\ A!At(c, "claim") => call[c].kind \in {"update", "recreate"}
    /\ A!At(c, "see") => call[c].kind # "delete"
    /\ A!At(c, "move") => call[c].to # A!Me(c)
StepsFit == \A c \in Workers : StepFits(c)

(* The container of a caller's name, between its removal and its run.        *)
OutOfTheWay(c) ==
    /\ Builds(c) /\ call[c].step \in {"reserve", "assign", "prepare", "look", "port", "run"}
         => ~tenant[A!Me(c)].here
    /\ A!At(c, "see") /\ call[c].kind = "create" => ~tenant[A!Me(c)].here
    /\ A!At(c, "see") /\ call[c].kind = "update" => tenant[A!Me(c)].here
    /\ Updates(c) /\ call[c].step \in {"move", "settle", "look", "port", "run"}
        /\ tenant[A!Me(c)].here
         => A!Me(c) \in bare
    /\ Updates(c) /\ call[c].to # A!Me(c) => ~tenant[call[c].to].here
    /\ A!At(c, "take_down") /\ ~Updates(c) => hosts[A!Me(c)] = NoHost
        /\ (tenant[A!Me(c)].here => A!Me(c) \in bare)
    /\ A!At(c, "claim") => tenant[A!Me(c)].here
    /\ Builds(c) /\ (A!At(c, "claim") \/ (A!At(c, "see") /\ tenant[A!Me(c)].here))
        => call[c].want = NoHost
    /\ A!At(c, "clear") => tenant[A!Me(c)].host = NoHost

(* What an operation is about to give its container is registered for it.    *)
Gives(c) ==
    \/ Builds(c) /\ call[c].step \in {"prepare", "look", "port", "run"}
    \/ Updates(c) /\ call[c].step \in {"take_down", "move", "settle", "look", "port", "run"}
GivesOwn(c) ==
    /\ Gives(c) /\ A!Me(c) \notin bare
         => (call[c].port # 0 => ports[A!Me(c)] = call[c].port)
            /\ (call[c].host # NoHost => hosts[A!Me(c)] = call[c].host)
    /\ Updates(c) /\ A!Me(c) \notin bare => hosts[A!Me(c)] # NoHost
    /\ Builds(c) /\ call[c].step \in {"assign", "prepare", "look", "port", "run"}
        => hosts[A!Me(c)] # NoHost

(* What a caller has in hand, as far as the routing settles it.              *)
InHand(c) ==
    /\ Builds(c) /\ call[c].step \in {"see", "claim", "forget", "take_down", "reserve", "assign",
          "prepare", "look"}
         => call[c].port = 0
    /\ call[c].step \in {"look", "port"} => ~A!Routed /\ call[c].port = 0
    /\ ~A!At(c, "none") /\ A!Routed => call[c].port = 0
    /\ Builds(c) /\ call[c].step \in {"see", "forget", "take_down", "reserve", "assign"}
        => call[c].host \in {NoHost, call[c].want}
    /\ A!At(c, "reserve") /\ ~A!Routed => call[c].want = NoHost
    /\ A!At(c, "assign") => A!Routed
    /\ A!At(c, "prepare") /\ ~A!Routed => call[c].host = NoHost
    /\ Updates(c) /\ ~A!Routed => call[c].want = NoHost
    /\ Updates(c) /\ call[c].clear => call[c].host = NoHost

CallStage(c) == OutOfTheWay(c) /\ GivesOwn(c) /\ InHand(c)
CallStages == \A c \in Workers : CallStage(c)

(* The registries name each port and each hostname once.                     *)
OnePortEach == \A n, m \in Tenants : ports[n] = ports[m] /\ ports[n] # 0 => n = m
OneHostEach == \A n, m \in Tenants : hosts[n] = hosts[m] /\ hosts[n] \in A!Labels => n = m

(* What the containers have is registered, but while a requested hostname    *)
(* waits for its container.                                                  *)
Waits(n) == \E c \in Workers : A!Me(c) = n /\ A!At(c, "take_down") /\ Updates(c) /\ A!Routed
PortsRegistered ==
    \A n \in Tenants \ bare : tenant[n].here /\ tenant[n].port # 0 => ports[n] = tenant[n].port
HostsRegistered ==
    \A n \in Tenants \ bare : tenant[n].here /\ tenant[n].host # NoHost
        => hosts[n] = tenant[n].host \/ Waits(n)
SlotsTaken == \A n \in Tenants \ bare : tenant[n].here => hosts[n] # NoHost

(* Nobody shows the hostname an operation has made sure of.                  *)
Sure(c) == call[c].step \in {"look", "port", "run"} /\ call[c].host # NoHost /\ A!Me(c) \notin bare
HostsSure ==
    \A c \in Workers : Sure(c) =>
      \A m \in Tenants \ bare : m # A!Me(c) /\ tenant[m].here => tenant[m].host # call[c].host

(* The steps of a caller.                                                    *)
Acts(c) ==
    \/ \E n \in Tenants :
         \/ A!BeginDelete(c, n) \/ A!BeginRecreate(c, n)
         \/ \E want \in A!Labels \cup {NoHost} :
              A!BeginCreate(c, n, want) \/ \E to \in Tenants : A!BeginUpdate(c, n, to, want)
    \/ A!See(c) \/ A!Reserve(c) \/ A!Assign(c) \/ A!Prepare(c) \/ A!Look(c) \/ A!AllocatePort(c)
    \/ A!RunNew(c) \/ A!Configure(c) \/ A!RollBack(c) \/ A!ReleaseSlot(c)
    \/ A!Forget(c) \/ A!TakeDown(c)
    \/ A!Claim(c) \/ A!RemoveOld(c) \/ A!Move(c) \/ A!Settle(c) \/ A!RunAgain(c)
        \/ A!ClearHostname(c)

(* What a step of a caller leaves alone.                                     *)
LeftAlone(n) ==
    /\ ports'[n] = ports[n] /\ hosts'[n] = hosts[n] /\ tenant'[n] = tenant[n]
    /\ n \in bare' <=> n \in bare
Mine(c) == {A!Me(c), call[c].to}

(* What a step of a caller leaves as it was in its own record.               *)
CallKinds == {"create", "delete", "recreate", "update"}
KeepsName(c) == call'[c].kind = call[c].kind /\ call'[c].env = call[c].env
    /\ call'[c].to = call[c].to
KeepsWork(c) ==
    /\ call'[c].want = call[c].want /\ call'[c].host = call[c].host /\ call'[c].port = call[c].port
    /\ call'[c].clear = call[c].clear

(* How a step treats the locks: it goes on, it ends, or it begins.           *)
KeepsLocks(c) ==
    \/ /\ ~A!At(c, "none") /\ lease' = lease /\ call'[c].env \in Mine(c) /\ call'[c].to = call[c].to
    \/ call'[c] = A!Idle /\ \A n \in Tenants : lease'[n] = lease[n] \ {c}
    \/ /\ A!At(c, "none") /\ call'[c].env \in Tenants /\ call'[c].to \in Tenants
       /\ \A m \in {call'[c].env, call'[c].to} : lease[m] = {} /\ lease'[m] = {c}
       /\ \A m \in Tenants \ {call'[c].env, call'[c].to} : lease'[m] = lease[m]
CallStep(c) == CallsTyped' /\ KeepsLocks(c) /\ \A d \in Workers \ {c} : call'[d] = call[d]

(* What a claim registers, and what it takes along.                          *)
ClaimOf(c, h, clear) ==
    /\ clear => h = NoHost
    /\ \/ h # NoHost /\ hosts' = [hosts EXCEPT ![A!Me(c)] = h]
       \/ hosts' = hosts /\ h \in {NoHost, tenant[A!Me(c)].host}


(* What a step of a caller does to the containers and to the registries.     *)
Shown(n) == n \notin bare /\ tenant[n].here
SameAddress(n) ==
    tenant'[n].here = tenant[n].here /\ tenant'[n].port = tenant[n].port
        /\ tenant'[n].host = tenant[n].host
RunsBox(c, n) ==
    /\ n = A!Me(c) /\ A!At(c, "run") /\ tenant'[n].port = call[c].port
        /\ tenant'[n].host = call[c].host
    /\ bare' = bare /\ hosts' = hosts /\ ports' = ports
BoxStep(c, n) ==
    \/ ~Shown(n)'
    \/ n \notin bare /\ SameAddress(n)
    \/ RunsBox(c, n)
HostKept(n) ==
    \/ hosts'[n] = hosts[n]
    \/ hosts'[n] # NoHost /\ (tenant'[n].host = NoHost \/ Waits(n)')

(* The names that hold a slot, and how a step changes them.                  *)
Held == {n \in Tenants \ bare : hosts[n] # NoHost}
HeldStep(c) ==
    \/ Held' \subseteq Held
    \/ \E n \in Held, m \in Tenants : Held' \subseteq (Held \ {n}) \cup {m}
    \/ Cardinality(A!Occupied(c)) < Slots /\ Held' \subseteq A!Occupied(c) \cup {A!Me(c)}
        /\ A!Me(c) \in Tenants

(* How a caller becomes sure of a hostname.                                  *)
SureStep(c) ==
    Sure(c)' =>
      /\ UNCHANGED <<hosts, tenant, bare>> /\ call'[c].host = call[c].host
          /\ call'[c].env = call[c].env
      /\ ~A!At(c, "none")
          /\ (Sure(c) \/ call[c].host \notin A!UsedHosts(A!Me(c)) \/ (~A!Routed /\ Gives(c)))
-----------------------------------------------------------------------------
(* The set operators of the instance are those of the library.               *)
LEMMA Counting ==
    ASSUME NEW S
    PROVE  A!Cardinality(S) = Cardinality(S) /\ (A!IsFiniteSet(S) <=> IsFiniteSet(S))
<1>1. A!Cardinality(S) = Cardinality(S) BY DEF A!Cardinality, Cardinality
<1>2. A!IsFiniteSet(S) <=> IsFiniteSet(S) BY DEF A!IsFiniteSet, IsFiniteSet
<1>. QED BY <1>1, <1>2

(* What going on to the next step does to a caller's record.                 *)
LEMMA GoTyped ==
    ASSUME CallsTyped, NEW c \in Workers, NEW step \in A!Steps, A!Go(c, step)
    PROVE  /\ CallsTyped' /\ call'[c].step = step /\ KeepsName(c) /\ KeepsWork(c) /\ lease' = lease
           /\ \A d \in Workers \ {c} : call'[d] = call[d]
BY DEF CallsTyped, A!Go, CallRecords, KeepsName, KeepsWork

(* What an operation's end does to it.                                       *)
LEMMA DoneTyped ==
    ASSUME CallsTyped, NEW c \in Workers, A!Done(c)
    PROVE  /\ CallsTyped' /\ call'[c] = A!Idle
           /\ \A n \in Tenants : lease'[n] = lease[n] \ {c}
           /\ \A d \in Workers \ {c} : call'[d] = call[d]
<1>1. A!Idle \in CallRecords BY TenantsConstants DEF A!Idle, CallRecords, A!Steps, A!AddrConstants
<1>. QED BY <1>1 DEF CallsTyped, A!Done

(* What its beginning does.                                                  *)
LEMMA BeginTyped ==
    ASSUME CallsTyped, NEW c \in Workers, NEW kind \in CallKinds, NEW n \in Tenants,
           NEW to \in Tenants,
           NEW step \in A!Steps, NEW want \in A!Labels \cup {NoHost},
           A!Begin(c, kind, n, to, step, want)
    PROVE  /\ CallsTyped' /\ A!At(c, "none")
           /\ call'[c].kind = kind /\ call'[c].env = n /\ call'[c].to = to /\ call'[c].step = step
           /\ call'[c].want = want /\ call'[c].host = NoHost /\ call'[c].port = 0 /\ ~call'[c].clear
           /\ \A m \in {n, to} : lease[m] = {} /\ lease'[m] = {c}
           /\ \A m \in Tenants \ {n, to} : lease'[m] = lease[m]
           /\ \A d \in Workers \ {c} : call'[d] = call[d]
<1>0. A!Idle \in CallRecords BY TenantsConstants DEF A!Idle, CallRecords, A!Steps, A!AddrConstants
<1>1. [A!Idle EXCEPT !.kind = kind, !.env = n, !.to = to, !.step = step, !.want = want]
        \in CallRecords
  BY <1>0 DEF CallRecords, CallKinds
<1>2. A!Idle.host = NoHost /\ A!Idle.port = 0 /\ A!Idle.clear = FALSE BY DEF A!Idle
<1>. QED BY <1>0, <1>1, <1>2 DEF CallsTyped, A!Begin, CallRecords

(* What taking the hostname does.                                            *)
LEMMA AssignedTyped ==
    ASSUME CallsTyped, NEW c \in Workers, NEW h \in A!Labels \cup {NoHost}, NEW step \in A!Steps,
           NEW slot \in BOOLEAN, A!Assigned(c, h, step, slot)
    PROVE  /\ CallsTyped' /\ call'[c].step = step /\ call'[c].host = h /\ KeepsName(c)
           /\ call'[c].want = call[c].want /\ call'[c].port = call[c].port
               /\ call'[c].clear = call[c].clear
           /\ lease' = lease /\ \A d \in Workers \ {c} : call'[d] = call[d]
<1>1. call[c] \in CallRecords BY DEF CallsTyped
<1>2. [call[c] EXCEPT !.step = step, !.host = h, !.slot = slot] \in CallRecords
  BY <1>1 DEF CallRecords
<1>3. call' = [call EXCEPT ![c] = [call[c] EXCEPT !.step = step, !.host = h, !.slot = slot]]
  BY <1>1 DEF CallRecords, A!Assigned, CallsTyped
<1>4. call'[c] = [call[c] EXCEPT !.step = step, !.host = h, !.slot = slot]
  BY <1>1, <1>2, <1>3 DEF CallsTyped
<1>. QED BY <1>1, <1>2, <1>3, <1>4 DEF CallsTyped, CallRecords, KeepsName, KeepsWork, A!Assigned

(* What a claim takes along.                                                 *)
LEMMA ClaimedTyped ==
    ASSUME CallsTyped, NEW c \in Workers, NEW h \in A!Labels \cup {NoHost},
           NEW slot \in BOOLEAN, NEW clear \in BOOLEAN, A!Claimed(c, h, slot, clear),
           tenant[A!Me(c)].port \in 0..Ports
    PROVE  /\ CallsTyped' /\ lease' = lease /\ \A d \in Workers \ {c} : call'[d] = call[d]
           /\ KeepsName(c) /\ call'[c].host = h /\ call'[c].clear = clear
           /\ call'[c].port = IF A!Routed \/ call[c].kind = "recreate" THEN 0
               ELSE tenant[A!Me(c)].port
           /\ call'[c].want = IF call[c].kind = "recreate" THEN h ELSE call[c].want
           /\ call'[c].step = IF call[c].kind = "recreate" THEN "forget" ELSE "take_down"
<1>1. call[c] \in CallRecords BY DEF CallsTyped
<1>. DEFINE p == IF A!Routed \/ call[c].kind = "recreate" THEN 0 ELSE tenant[A!Me(c)].port
            w == IF call[c].kind = "recreate" THEN h ELSE call[c].want
            s == IF call[c].kind = "recreate" THEN "forget" ELSE "take_down"
            r == [call[c] EXCEPT !.host = h, !.slot = slot, !.clear = clear, !.port = p, !.want = w,
                               !.step = s]
<1>2. p \in 0..Ports /\ w \in A!Labels \cup {NoHost} /\ s \in A!Steps
  BY <1>1, TenantsConstants DEF CallRecords, A!Steps, A!AddrConstants
<1>3. call' = [call EXCEPT ![c] = r]
  <2>. HIDE DEF p, s
  <2>1. call' = [call EXCEPT ![c].host = h, ![c].slot = slot, ![c].clear = clear, ![c].port = p,
                         ![c].want = w, ![c].step = s]
    BY <1>1 DEF p, s, A!Claimed, CallsTyped, CallRecords
  <2>. QED BY <2>1, <1>1 DEF CallRecords, CallsTyped
<1>4. r \in CallRecords /\ r.host = h /\ r.clear = clear /\ r.slot = slot /\ r.port = p
        /\ r.want = w
      /\ r.step = s /\ r.kind = call[c].kind /\ r.env = call[c].env /\ r.to = call[c].to
  <2>. HIDE DEF p, w, s
  <2>1. r \in CallRecords BY <1>1, <1>2 DEF CallRecords
  <2>2. r.host = h /\ r.clear = clear /\ r.slot = slot /\ r.port = p /\ r.want = w /\ r.step = s
    BY <1>1 DEF CallRecords
  <2>3. r.kind = call[c].kind /\ r.env = call[c].env /\ r.to = call[c].to BY <1>1 DEF CallRecords
  <2>. QED BY <2>1, <2>2, <2>3
<1>. HIDE DEF r
<1>6. lease' = lease BY DEF A!Claimed
<1>5. CallsTyped' /\ call'[c] = r /\ \A d \in Workers \ {c} : call'[d] = call[d]
  BY <1>3, <1>4, <1>6 DEF CallsTyped
<1>. QED BY <1>4, <1>5, <1>6 DEF KeepsName

(* What is seen of the containers is kept in the record.                     *)
LEMMA SeenTyped ==
    ASSUME CallsTyped, NEW c \in Workers, NEW s \in SUBSET Tenants,
           NEW u \in SUBSET (A!Labels \cup 1..Ports),
           NEW step \in A!Steps, lease' = lease,
           call' = [call EXCEPT ![c].seen = s, ![c].used = u, ![c].step = step]
    PROVE  /\ CallsTyped' /\ call'[c].step = step /\ KeepsName(c) /\ KeepsWork(c)
           /\ \A d \in Workers \ {c} : call'[d] = call[d]
<1>1. call[c] \in CallRecords BY DEF CallsTyped
<1>2. [call[c] EXCEPT !.seen = s, !.used = u, !.step = step] \in CallRecords BY <1>1 DEF CallRecords
<1>3. call' = [call EXCEPT ![c] = [call[c] EXCEPT !.seen = s, !.used = u, !.step = step]]
  BY <1>1 DEF CallRecords, CallsTyped
<1>4. call'[c] = [call[c] EXCEPT !.seen = s, !.used = u, !.step = step]
  BY <1>1, <1>2, <1>3 DEF CallsTyped
<1>. QED BY <1>1, <1>2, <1>3, <1>4 DEF CallsTyped, CallRecords, KeepsName, KeepsWork

(* So are the ports in use.                                                  *)
LEMMA LookedTyped ==
    ASSUME CallsTyped, NEW c \in Workers, NEW u \in SUBSET (A!Labels \cup 1..Ports),
           NEW step \in A!Steps, lease' = lease,
           call' = [call EXCEPT ![c].used = u, ![c].step = step]
    PROVE  /\ CallsTyped' /\ call'[c].step = step /\ KeepsName(c) /\ KeepsWork(c)
           /\ \A d \in Workers \ {c} : call'[d] = call[d]
<1>1. call[c] \in CallRecords BY DEF CallsTyped
<1>2. [call[c] EXCEPT !.used = u, !.step = step] \in CallRecords BY <1>1 DEF CallRecords
<1>3. call' = [call EXCEPT ![c] = [call[c] EXCEPT !.used = u, !.step = step]]
  BY <1>1 DEF CallRecords, CallsTyped
<1>4. call'[c] = [call[c] EXCEPT !.used = u, !.step = step] BY <1>1, <1>2, <1>3 DEF CallsTyped
<1>. QED BY <1>1, <1>2, <1>3, <1>4 DEF CallsTyped, CallRecords, KeepsName, KeepsWork

(* A port that was found is kept.                                            *)
LEMMA PortTyped ==
    ASSUME CallsTyped, NEW c \in Workers, NEW p \in 0..Ports, NEW step \in A!Steps, lease' = lease,
           call' = [call EXCEPT ![c].step = step, ![c].port = p, ![c].fresh = TRUE]
    PROVE  /\ CallsTyped' /\ call'[c].step = step /\ call'[c].port = p /\ KeepsName(c)
           /\ call'[c].want = call[c].want /\ call'[c].host = call[c].host
               /\ call'[c].clear = call[c].clear
           /\ \A d \in Workers \ {c} : call'[d] = call[d]
<1>1. call[c] \in CallRecords BY DEF CallsTyped
<1>2. [call[c] EXCEPT !.step = step, !.port = p, !.fresh = TRUE] \in CallRecords
  BY <1>1 DEF CallRecords
<1>3. call' = [call EXCEPT ![c] = [call[c] EXCEPT !.step = step, !.port = p, !.fresh = TRUE]]
  BY <1>1 DEF CallRecords, CallsTyped
<1>4. call'[c] = [call[c] EXCEPT !.step = step, !.port = p, !.fresh = TRUE]
  BY <1>1, <1>2, <1>3 DEF CallsTyped
<1>. QED BY <1>1, <1>2, <1>3, <1>4 DEF CallsTyped, CallRecords, KeepsName, KeepsWork

(* A rename goes on under the new name.                                      *)
LEMMA MovedTyped ==
    ASSUME CallsTyped, NEW c \in Workers, NEW m \in Tenants, NEW step \in A!Steps, lease' = lease,
           call' = [call EXCEPT ![c].env = m, ![c].step = step]
    PROVE  /\ CallsTyped' /\ call'[c].step = step /\ call'[c].env = m /\ call'[c].to = call[c].to
               /\ call'[c].kind = call[c].kind
           /\ KeepsWork(c)
           /\ \A d \in Workers \ {c} : call'[d] = call[d]
<1>1. call[c] \in CallRecords BY DEF CallsTyped
<1>2. [call[c] EXCEPT !.env = m, !.step = step] \in CallRecords BY <1>1 DEF CallRecords
<1>3. call' = [call EXCEPT ![c] = [call[c] EXCEPT !.env = m, !.step = step]]
  BY <1>1 DEF CallRecords, CallsTyped
<1>4. call'[c] = [call[c] EXCEPT !.env = m, !.step = step] BY <1>1, <1>2, <1>3 DEF CallsTyped
<1>. QED BY <1>1, <1>2, <1>3, <1>4 DEF CallsTyped, CallRecords, KeepsName, KeepsWork

(* What the containers show has its types.                                   *)
LEMMA UsedTyped ==
    ASSUME RegistriesTyped, NEW n \in Tenants
    PROVE  /\ A!Active(n) \in SUBSET Tenants /\ A!UsedHosts(n) \in SUBSET (A!Labels \cup 1..Ports)
           /\ A!UsedPorts(n) \in SUBSET (A!Labels \cup 1..Ports)
<1>1. \A m \in Tenants : tenant[m].port \in 0..Ports /\ tenant[m].host \in A!Labels \cup {NoHost}
  BY DEF RegistriesTyped, A!Boxes
<1>2. \A p \in 0..Ports : p = 0 \/ p \in 1..Ports BY TenantsConstants DEF A!AddrConstants
<1>. QED BY <1>1, <1>2 DEF A!Active, A!UsedHosts, A!UsedPorts

(* A hostname that may be given is free: nobody else has registered it.      *)
LEMMA GrantsFree ==
    ASSUME CallsTyped, RegistriesTyped, NEW c \in Workers, A!Me(c) \in Tenants,
           NEW slots \in {0, Slots}, NEW h \in A!Grants(c, call[c].want, slots)
    PROVE  /\ h \in A!Labels /\ h # NoHost /\ h \notin call[c].used
           /\ \A m \in Tenants \ {A!Me(c)} : hosts[m] # h
<1>1. call[c].want \in A!Labels \cup {NoHost} BY DEF CallsTyped, CallRecords
<1>2. hosts[A!Me(c)] \in A!Labels \cup {NoHost, Reserved} BY DEF RegistriesTyped
<1>3. h \in A!Labels /\ h # NoHost /\ h \notin A!HostsTaken(c)
  BY <1>1, <1>2, TenantsConstants DEF A!Grants, A!Labels, A!AddrConstants
<1>. QED BY <1>3 DEF A!HostsTaken

(* The locks stay where they are when an operation goes on.                  *)
LEMMA GoSteps ==
    ASSUME CallsTyped, NEW c \in Workers, ~A!At(c, "none"), NEW step \in A!Steps, A!Go(c, step)
    PROVE  CallStep(c)
BY GoTyped DEF CallStep, KeepsLocks, Mine, A!Me, KeepsName

(* They are given back at its end.                                           *)
LEMMA DoneSteps ==
    ASSUME CallsTyped, NEW c \in Workers, A!Done(c)
    PROVE  CallStep(c)
BY DoneTyped DEF CallStep, KeepsLocks

(* They are taken when it begins.                                            *)
LEMMA BeginSteps ==
    ASSUME CallsTyped, NEW c \in Workers, NEW kind \in CallKinds, NEW n \in Tenants,
           NEW to \in Tenants,
           NEW step \in A!Steps, NEW want \in A!Labels \cup {NoHost},
           A!Begin(c, kind, n, to, step, want)
    PROVE  CallStep(c)
BY BeginTyped DEF CallStep, KeepsLocks

(* A container that stops or starts stays a container.                       *)
LEMMA UpTyped ==
    ASSUME RegistriesTyped, NEW n \in Tenants, NEW u \in BOOLEAN
    PROVE  /\ [tenant EXCEPT ![n].up = u] \in [Tenants -> A!Boxes] /\ tenant[n].up \in BOOLEAN
           /\ [tenant EXCEPT ![n].up = u] = [tenant EXCEPT ![n] = [tenant[n] EXCEPT !.up = u]]
<1>1. tenant \in [Tenants -> A!Boxes] /\ tenant[n] \in A!Boxes BY DEF RegistriesTyped
<1>2. [tenant[n] EXCEPT !.up = u] \in A!Boxes /\ tenant[n].up \in BOOLEAN BY <1>1 DEF A!Boxes
<1>3. [tenant EXCEPT ![n].up = u] = [tenant EXCEPT ![n] = [tenant[n] EXCEPT !.up = u]]
  BY <1>1 DEF A!Boxes
<1>. QED BY <1>1, <1>2, <1>3

(* An operation that has ended promises nothing.                             *)
LEMMA IdleFits ==
    ASSUME CallsTyped, NEW c \in Workers, A!Done(c)
    PROVE  StepFits(c)' /\ CallStage(c)'
<1>1. call'[c] = A!Idle BY DoneTyped
<1>2. A!Idle.kind = "none" /\ A!Idle.step = "none" /\ A!Idle.port = 0 /\ A!Idle.clear = FALSE
      /\ A!Idle.host = NoHost
  BY DEF A!Idle
<1>3. A!Idle.want = NoHost BY DEF A!Idle
<1>4. StepFits(c)' BY <1>1, <1>2 DEF StepFits, A!At, Builds, Updates
<1>5. OutOfTheWay(c)' BY <1>1, <1>2 DEF OutOfTheWay, A!At, Builds, Updates
<1>6. GivesOwn(c)' BY <1>1, <1>2 DEF GivesOwn, Gives, Builds, Updates
<1>7. InHand(c)' BY <1>1, <1>2, <1>3 DEF InHand, A!At, Builds, Updates
<1>. QED BY <1>4, <1>5, <1>6, <1>7 DEF CallStage

(* What an update claims waits for its container to go.                      *)
LEMMA ClaimWaits ==
    ASSUME CallsTyped, RegistriesTyped, NEW c \in Workers, A!Me(c) \in Tenants, NEW h \in A!Labels,
           NEW slot \in BOOLEAN, A!Claimed(c, h, slot, FALSE), call[c].kind = "update"
    PROVE  call'[c].kind = "update" /\ call'[c].env = call[c].env /\ call'[c].step = "take_down"
<1>1. h \in A!Labels \cup {NoHost} /\ FALSE \in BOOLEAN OBVIOUS
<1>2. tenant[A!Me(c)].port \in 0..Ports BY DEF RegistriesTyped, A!Boxes
<1>3. KeepsName(c) /\ call'[c].step = IF call[c].kind = "recreate" THEN "forget" ELSE "take_down"
  BY <1>1, <1>2, ClaimedTyped
<1>. QED BY <1>3 DEF KeepsName

(* Every step of a caller is one of these, and changes its own record only.  *)
LEMMA CallsStayTyped ==
    ASSUME NEW c \in Workers, CallsTyped, RegistriesTyped, StepsFit, Acts(c)
    PROVE  CallStep(c)
<1> USE TenantsConstants
<1>k. CallKinds = {"create", "delete", "recreate", "update"} BY DEF CallKinds
<1>0. A!Steps = {"none", "see", "reserve", "assign", "prepare", "look", "port", "run", "configure",
               "rollback", "release", "claim", "forget", "take_down", "move", "settle", "clear"}
  BY DEF A!Steps
<1>1. ASSUME NEW n \in Tenants, A!BeginDelete(c, n) PROVE CallStep(c)
  BY <1>1, <1>0, <1>k, BeginSteps DEF A!BeginDelete, A!At
<1>2. ASSUME NEW n \in Tenants, A!BeginRecreate(c, n) PROVE CallStep(c)
  BY <1>2, <1>0, <1>k, BeginSteps DEF A!BeginRecreate, A!At
<1>3. ASSUME NEW n \in Tenants, NEW want \in A!Labels \cup {NoHost}, A!BeginCreate(c, n, want)
      PROVE  CallStep(c)
  BY <1>3, <1>0, <1>k, BeginSteps DEF A!BeginCreate, A!At
<1>4. ASSUME NEW n \in Tenants, NEW want \in A!Labels \cup {NoHost}, NEW to \in Tenants,
             A!BeginUpdate(c, n, to, want)
      PROVE  CallStep(c)
  BY <1>4, <1>0, <1>k, BeginSteps DEF A!BeginUpdate, A!At
<1>5. ASSUME A!See(c) PROVE CallStep(c)
  <2>0. A!Me(c) \in Tenants BY <1>5 DEF StepsFit, StepFits, A!See, A!At
  <2>1. CASE A!Done(c) BY <2>1, DoneSteps
  <2>2. ASSUME NEW s \in {"claim", "reserve"}, lease' = lease,
               call' = [call EXCEPT ![c].seen = A!Active(A!Me(c)),
                     ![c].used = A!UsedHosts(A!Me(c)), ![c].step = s]
        PROVE  CallStep(c)
    BY <1>5, <1>0, <2>0, <2>2, UsedTyped, SeenTyped DEF CallStep, KeepsLocks, Mine, A!Me, A!At,
       A!See, KeepsName
  <2>. QED BY <1>5, <2>1, <2>2 DEF A!See
<1>6. ASSUME A!Reserve(c) PROVE CallStep(c)
  BY <1>6, <1>0, GoSteps, DoneSteps DEF A!Reserve, A!At
<1>7. ASSUME A!Assign(c) PROVE CallStep(c)
  <2>0. A!Me(c) \in Tenants BY <1>7 DEF StepsFit, StepFits, A!Assign, A!At
  <2>1. CASE A!Done(c) BY <2>1, DoneSteps
  <2>2. ASSUME NEW h \in A!Grants(c, call[c].want, Slots),
               A!Assigned(c, h, "prepare", IF call[c].want = NoHost THEN TRUE ELSE call[c].slot)
        PROVE  CallStep(c)
    <3>1. h \in A!Labels BY <2>0, GrantsFree
    <3>2. (IF call[c].want = NoHost THEN TRUE ELSE call[c].slot) \in BOOLEAN
      BY DEF CallsTyped, CallRecords
    <3>3. ASSUME NEW k \in BOOLEAN, A!Assigned(c, h, "prepare", k) PROVE CallStep(c)
      BY <1>0, <1>7, <3>1, <3>3, AssignedTyped DEF CallStep, KeepsLocks, Mine, A!Me, A!At,
         A!Assign, KeepsName
    <3>. QED BY <2>2, <3>2, <3>3
  <2>. QED BY <1>7, <2>1, <2>2 DEF A!Assign
<1>8. ASSUME A!Prepare(c) PROVE CallStep(c)
  BY <1>8, <1>0, GoSteps, DoneSteps DEF A!Prepare, A!At
<1>9. ASSUME A!Look(c) PROVE CallStep(c)
  <2>0. A!Me(c) \in Tenants BY <1>9 DEF StepsFit, StepFits, A!Look, A!At
  <2>. QED BY <1>0, <1>9, <2>0, UsedTyped, LookedTyped DEF A!Look, CallStep, KeepsLocks, Mine,
              A!Me, A!At, KeepsName
<1>10. ASSUME A!AllocatePort(c) PROVE CallStep(c)
  <2>0. A!Me(c) \in Tenants BY <1>10 DEF StepsFit, StepFits, A!AllocatePort, A!At
  <2>1. CASE A!Done(c) BY <2>1, DoneSteps
  <2>4. ports[A!Me(c)] \in 0..Ports /\ 1..Ports \subseteq 0..Ports BY <2>0 DEF RegistriesTyped
  <2>2. CASE A!Go(c, "release") BY <1>10, <1>0, <2>2, GoSteps DEF A!At, A!AllocatePort
  <2>3. ASSUME NEW p \in 0..Ports, lease' = lease,
               call' = [call EXCEPT ![c].step = "run", ![c].port = p, ![c].fresh = TRUE]
        PROVE  CallStep(c)
    BY <1>10, <1>0, <2>3, PortTyped DEF CallStep, KeepsLocks, Mine, A!Me, A!At, A!AllocatePort,
       KeepsName
  <2>. QED BY <1>10, <2>1, <2>2, <2>3, <2>4 DEF A!AllocatePort
<1>11. ASSUME A!RunNew(c) PROVE CallStep(c)
  BY <1>11, <1>0, GoSteps, DoneSteps DEF A!RunNew, A!At
<1>12. ASSUME A!Configure(c) PROVE CallStep(c)
  BY <1>12, <1>0, GoSteps, DoneSteps DEF A!Configure, A!At
<1>13. ASSUME A!RollBack(c) PROVE CallStep(c)
  BY <1>13, <1>0, GoSteps, DoneSteps DEF A!RollBack, A!At
<1>14. ASSUME A!ReleaseSlot(c) PROVE CallStep(c)
  BY <1>14, <1>0, GoSteps, DoneSteps DEF A!ReleaseSlot, A!At
<1>15. ASSUME A!Forget(c) PROVE CallStep(c)
  BY <1>15, <1>0, GoSteps, DoneSteps DEF A!Forget, A!At
<1>16. ASSUME A!TakeDown(c) PROVE CallStep(c)
  BY <1>16, <1>0, GoSteps, DoneSteps DEF A!TakeDown, A!At
<1>17. ASSUME A!Claim(c) PROVE CallStep(c)
  <2>0. A!Me(c) \in Tenants BY <1>17 DEF StepsFit, StepFits, A!Claim, A!At
  <2>1. CASE A!Done(c) BY <2>1, DoneSteps
  <2>2. ASSUME NEW h \in A!Labels \cup {NoHost}, NEW s \in BOOLEAN, NEW k \in BOOLEAN,
               A!Claimed(c, h, s, k)
        PROVE  CallStep(c)
    <3>1. tenant[A!Me(c)].port \in 0..Ports BY <2>0 DEF RegistriesTyped, A!Boxes
    <3>. QED BY <1>17, <2>2, <3>1, ClaimedTyped DEF CallStep, KeepsLocks, Mine, A!Me, A!At,
                A!Claim, KeepsName
  <2>3. tenant[A!Me(c)].host \in A!Labels \cup {NoHost} /\ tenant[A!Me(c)].slot \in BOOLEAN
    BY <2>0 DEF RegistriesTyped, A!Boxes
  <2>4. \A s \in {0, Slots} : A!Grants(c, call[c].want, s) \subseteq A!Labels BY <2>0, GrantsFree
  <2>. QED BY <1>17, <2>1, <2>2, <2>3, <2>4 DEF A!Claim
<1>18. ASSUME A!RemoveOld(c) PROVE CallStep(c)
  BY <1>18, <1>0, GoSteps, DoneSteps DEF A!RemoveOld, A!At
<1>19. ASSUME A!Move(c) PROVE CallStep(c)
  <2>0. A!Me(c) \in Tenants BY <1>19 DEF StepsFit, StepFits, A!Move, A!At
  <2>1. CASE A!Done(c) BY <2>1, DoneSteps
  <2>2. call[c].to \in Tenants BY <1>19 DEF StepsFit, StepFits, A!Move, A!At
  <2>3. CASE lease' = lease /\ call' = [call EXCEPT ![c].env = call[c].to, ![c].step = "settle"]
    BY <1>19, <1>0, <2>2, <2>3, MovedTyped DEF CallStep, KeepsLocks, Mine, A!Me, A!At, A!Move,
       KeepsName
  <2>. QED BY <1>19, <2>1, <2>3 DEF A!Move
<1>20. ASSUME A!Settle(c) PROVE CallStep(c)
  BY <1>20, <1>0, GoSteps, DoneSteps DEF A!Settle, A!At
<1>21. ASSUME A!RunAgain(c) PROVE CallStep(c)
  BY <1>21, <1>0, GoSteps, DoneSteps DEF A!RunAgain, A!At
<1>22. ASSUME A!ClearHostname(c) PROVE CallStep(c)
  BY <1>22, <1>0, GoSteps, DoneSteps DEF A!ClearHostname, A!At
<1>. QED
  BY <1>1, <1>2, <1>3, <1>4, <1>5, <1>6, <1>7, <1>8, <1>9, <1>10, <1>11,
     <1>12, <1>13, <1>14, <1>15, <1>16, <1>17, <1>18, <1>19, <1>20, <1>21,
     <1>22
    DEF Acts

(* The registries and the containers keep their types.                       *)
LEMMA RegistriesStayTyped ==
    ASSUME NEW c \in Workers, CallsTyped, RegistriesTyped, StepsFit, Acts(c)
    PROVE  RegistriesTyped'
<1> USE TenantsConstants DEF RegistriesTyped, A!Me
<1>0. ~A!At(c, "none") => A!Me(c) \in Tenants BY DEF StepsFit, StepFits
<1>b. A!NoBox \in A!Boxes /\ 0 \in 0..Ports /\ 1..Ports \subseteq 0..Ports
  BY TenantsConstants DEF A!AddrConstants, A!NoBox, A!Boxes
<1>1. CASE
     \/ \E n \in Tenants : A!BeginDelete(c, n) \/ A!BeginRecreate(c, n)
     \/ \E n \in Tenants, want \in A!Labels \cup {NoHost} :
          A!BeginCreate(c, n, want)
     \/ \E n \in Tenants, to \in Tenants, want \in A!Labels \cup {NoHost} :
          A!BeginUpdate(c, n, to, want)
     \/ A!See(c) \/ A!Prepare(c) \/ A!Look(c)
  <2>1. UNCHANGED <<mode, ports, hosts, tenant, bare>>
    BY <1>1 DEF A!BeginDelete, A!Begins, A!BeginRecreate, A!BeginCreate, A!BeginUpdate,
        A!See, A!Works, A!Prepare, A!Fails, A!Look
  <2>. QED BY <2>1, <1>0, <1>b
<1>2. CASE
     \/ A!Configure(c)
  <2>1. UNCHANGED <<mode, ports, hosts, tenant, bare>>
    BY <1>2 DEF A!Configure, A!Works, A!Fails
  <2>. QED BY <2>1, <1>0, <1>b
<1>3. CASE A!Reserve(c)
  BY <1>3, <1>0, <1>b DEF A!Reserve, A!At, A!Works
<1>4. ASSUME A!Assign(c) PROVE RegistriesTyped'
  <2>1. \A h \in A!Grants(c, call[c].want, Slots) : h \in A!Labels
    BY <1>4, <1>0, GrantsFree DEF A!At, A!Assign
  <2>. QED BY <1>4, <1>4, <1>0, <1>b, <2>1 DEF A!At, A!Move, A!At, A!Assign, A!Assigned,
              RegistriesTyped, A!Works
<1>5. ASSUME A!AllocatePort(c) PROVE RegistriesTyped'
  <2>1. ports[A!Me(c)] \in 0..Ports BY <1>5, <1>0 DEF A!At, A!AllocatePort, RegistriesTyped
  <2>. QED BY <1>5, <1>5, <1>0, <1>b, <2>1 DEF A!At, A!Move, A!At, A!AllocatePort, RegistriesTyped,
              A!Works
<1>6. ASSUME A!RunNew(c) PROVE RegistriesTyped'
  <2>1. [here |-> TRUE, up |-> TRUE, port |-> call[c].port, host |-> call[c].host,
            slot |-> call[c].slot] \in A!Boxes
    BY DEF CallsTyped, CallRecords, A!Boxes
  <2>2. A!Ran(c) \in [Tenants -> A!Boxes] BY <2>1 DEF A!Ran, RegistriesTyped
  <2>. QED BY <1>6, <1>b, <2>2 DEF A!RunNew, RegistriesTyped, A!Works, A!Fails
<1>7. CASE A!RollBack(c)
  BY <1>7, <1>0, <1>b DEF A!RollBack, A!At, A!Routed, A!Works, A!Fails
<1>8. CASE A!ReleaseSlot(c)
  BY <1>8, <1>0, <1>b DEF A!ReleaseSlot, A!At, A!Works
<1>9. CASE A!Forget(c)
  BY <1>9, <1>0, <1>b DEF A!Forget, A!At, A!Routed, A!Works
<1>10. ASSUME A!TakeDown(c) PROVE RegistriesTyped'
  <2>1. \A u \in {FALSE, tenant[A!Me(c)].up} : [tenant EXCEPT ![A!Me(c)].up = u]
          \in [Tenants -> A!Boxes]
    BY <1>10, <1>0, UpTyped DEF A!At, A!TakeDown
  <2>2. [tenant EXCEPT ![A!Me(c)] = A!NoBox] \in [Tenants -> A!Boxes] BY <1>b DEF RegistriesTyped
  <2>3. mode' = mode /\ UNCHANGED <<ports, hosts>> BY <1>10 DEF A!TakeDown, A!Works, A!Fails
  <2>4. bare' \subseteq Tenants BY <1>0, <1>10 DEF A!At, A!TakeDown, RegistriesTyped
  <2>5. tenant' \in [Tenants -> A!Boxes] BY <1>10, <2>1, <2>2 DEF A!TakeDown
  <2>. QED BY <2>3, <2>4, <2>5 DEF RegistriesTyped
<1>11. ASSUME A!Claim(c) PROVE RegistriesTyped'
  <2>1. \A s \in {0, Slots} : \A h \in A!Grants(c, call[c].want, s) : h \in A!Labels
    BY <1>11, <1>0, GrantsFree DEF A!At, A!Claim
  <2>. QED BY <1>11, <1>11, <1>0, <1>b, <2>1 DEF A!At, A!Move, A!At, A!Claim, A!Claimed,
              RegistriesTyped, A!Works
<1>12. ASSUME A!RemoveOld(c) PROVE RegistriesTyped'
  <2>1. \A u \in {FALSE, tenant[A!Me(c)].up} : [tenant EXCEPT ![A!Me(c)].up = u]
          \in [Tenants -> A!Boxes]
    BY <1>12, <1>0, UpTyped DEF A!At, A!RemoveOld
  <2>2. [tenant EXCEPT ![A!Me(c)] = A!NoBox] \in [Tenants -> A!Boxes] BY <1>b DEF RegistriesTyped
  <2>3. mode' = mode /\ UNCHANGED <<ports, hosts>> BY <1>12 DEF A!RemoveOld, A!Works, A!Fails
  <2>4. bare' \subseteq Tenants BY <1>0, <1>12 DEF A!At, A!RemoveOld, RegistriesTyped
  <2>5. tenant' \in [Tenants -> A!Boxes] BY <1>12, <2>1, <2>2 DEF A!RemoveOld
  <2>. QED BY <2>3, <2>4, <2>5 DEF RegistriesTyped
<1>13. ASSUME A!Move(c) PROVE RegistriesTyped'
  <2>1. call[c].to \in Tenants BY <1>13 DEF A!Move, A!At, StepsFit, StepFits
  <2>2. A!Moved(ports, A!Me(c), call[c].to, 0) \in [Tenants -> 0..Ports]
    BY <1>13, <1>0, <1>b, <2>1 DEF A!At, A!Move, RegistriesTyped, A!Moved
  <2>3. A!Moved(hosts, A!Me(c), call[c].to, NoHost)
          \in [Tenants -> A!Labels \cup {NoHost, Reserved}]
    BY <1>13, <1>0, <1>b, <2>1 DEF A!At, A!Move, RegistriesTyped, A!Moved
  <2>4. mode' = mode /\ UNCHANGED tenant BY <1>13 DEF A!Move, A!Works, A!Fails
  <2>5. bare' \subseteq Tenants BY <2>1, <1>13 DEF A!Move, RegistriesTyped
  <2>6. ports' \in [Tenants -> 0..Ports] /\ hosts' \in [Tenants -> A!Labels \cup {NoHost, Reserved}]
    BY <1>13, <2>2, <2>3 DEF A!Move, RegistriesTyped
  <2>. QED BY <2>4, <2>5, <2>6 DEF RegistriesTyped
<1>14. CASE A!Settle(c)
  BY <1>14, <1>0, <1>b DEF A!Settle, A!At, A!Routed, A!Works
<1>15. ASSUME A!RunAgain(c) PROVE RegistriesTyped'
  <2>1. [here |-> TRUE, up |-> TRUE, port |-> call[c].port, host |-> call[c].host,
            slot |-> call[c].slot] \in A!Boxes
    BY DEF CallsTyped, CallRecords, A!Boxes
  <2>2. A!Ran(c) \in [Tenants -> A!Boxes] BY <2>1 DEF A!Ran, RegistriesTyped
  <2>. QED BY <1>15, <1>b, <2>2 DEF A!RunAgain, RegistriesTyped, A!Works, A!Fails
<1>16. CASE A!ClearHostname(c)
  BY <1>16, <1>0, <1>b DEF A!ClearHostname, A!At, A!Works, A!Fails
<1>. QED
  BY <1>1, <1>2, <1>3, <1>4, <1>5, <1>6, <1>7, <1>8, <1>9, <1>10, <1>11,
     <1>12, <1>13, <1>14, <1>15, <1>16
    DEF Acts

(* A step changes nothing under a name that is not the caller's.             *)
LEMMA LocalSteps ==
    ASSUME NEW c \in Workers, CallsTyped, RegistriesTyped, StepsFit, Acts(c)
    PROVE  \A n \in Tenants : n \notin Mine(c) \/ A!At(c, "none") => LeftAlone(n)
<1> USE TenantsConstants DEF LeftAlone, Mine, RegistriesTyped
<1>1. CASE
     \/ \E n \in Tenants : A!BeginDelete(c, n) \/ A!BeginRecreate(c, n)
     \/ \E n \in Tenants, want \in A!Labels \cup {NoHost} :
          A!BeginCreate(c, n, want)
     \/ \E n \in Tenants, to \in Tenants, want \in A!Labels \cup {NoHost} :
          A!BeginUpdate(c, n, to, want)
     \/ A!See(c) \/ A!Prepare(c) \/ A!Look(c)
  <2>1. UNCHANGED <<ports, hosts, tenant, bare>>
    BY <1>1 DEF A!BeginDelete, A!BeginRecreate, A!BeginCreate, A!BeginUpdate, A!See,
        A!Prepare, A!Look
  <2>. QED BY <2>1
<1>2. CASE
     \/ A!Configure(c)
  <2>1. UNCHANGED <<ports, hosts, tenant, bare>>
    BY <1>2 DEF A!Configure
  <2>. QED BY <2>1
<1>3. CASE A!Reserve(c)
  BY <1>3 DEF A!Reserve, A!At, A!Me
<1>4. CASE A!Assign(c)
  BY <1>4 DEF A!Assign, A!At, A!Assigned, A!Me
<1>5. CASE A!AllocatePort(c)
  BY <1>5 DEF A!AllocatePort, A!At, A!Me
<1>6. CASE A!RunNew(c)
  BY <1>6 DEF A!RunNew, A!At, A!Runs, A!Ran, A!Me
<1>7. CASE A!RollBack(c)
  BY <1>7 DEF A!RollBack, A!At, A!Routed, A!Me
<1>8. CASE A!ReleaseSlot(c)
  BY <1>8 DEF A!ReleaseSlot, A!At, A!Me
<1>9. CASE A!Forget(c)
  BY <1>9 DEF A!Forget, A!At, A!Routed, A!Me
<1>10. CASE A!TakeDown(c)
  BY <1>10 DEF A!TakeDown, A!At, A!Me
<1>11. CASE A!Claim(c)
  BY <1>11 DEF A!Claim, A!At, A!Me, A!Claimed, A!Routed
<1>12. CASE A!RemoveOld(c)
  BY <1>12 DEF A!RemoveOld, A!At, A!Me
<1>13. CASE A!Move(c)
  BY <1>13 DEF A!Move, A!At, A!Me, A!Moved
<1>14. CASE A!Settle(c)
  BY <1>14 DEF A!Settle, A!At, A!Me, A!Routed
<1>15. CASE A!RunAgain(c)
  BY <1>15 DEF A!RunAgain, A!At, A!Runs, A!Ran, A!Me
<1>16. CASE A!ClearHostname(c)
  BY <1>16 DEF A!ClearHostname, A!At, A!Me
<1>. QED
  BY <1>1, <1>2, <1>3, <1>4, <1>5, <1>6, <1>7, <1>8, <1>9, <1>10, <1>11,
     <1>12, <1>13, <1>14, <1>15, <1>16
    DEF Acts

(* The routing never changes during an operation.                            *)
LEMMA RoutingStays ==
    ASSUME NEW c \in Workers, Acts(c)
    PROVE  mode' = mode
<1> USE TenantsConstants
<1>1. CASE
     \/ \E n \in Tenants : A!BeginDelete(c, n) \/ A!BeginRecreate(c, n)
     \/ \E n \in Tenants, want \in A!Labels \cup {NoHost} :
          A!BeginCreate(c, n, want)
     \/ \E n \in Tenants, to \in Tenants, want \in A!Labels \cup {NoHost} :
          A!BeginUpdate(c, n, to, want)
     \/ A!See(c) \/ A!Reserve(c) \/ A!Assign(c)
  <2>1. UNCHANGED mode
    BY <1>1 DEF A!BeginDelete, A!Begins, A!BeginRecreate, A!BeginCreate, A!BeginUpdate,
        A!See, A!Works, A!Reserve, A!Assign, A!Assigned
  <2>. QED BY <2>1
<1>2. CASE
     \/ A!Prepare(c) \/ A!Look(c) \/ A!AllocatePort(c) \/ A!RunNew(c)
          \/ A!Configure(c) \/ A!RollBack(c) \/ A!ReleaseSlot(c)
  <2>1. UNCHANGED mode
    BY <1>2 DEF A!Prepare, A!Works, A!Fails, A!Look, A!AllocatePort, A!RunNew, A!Configure,
        A!RollBack, A!ReleaseSlot
  <2>. QED BY <2>1
<1>3. CASE
     \/ A!Forget(c) \/ A!TakeDown(c) \/ A!Claim(c) \/ A!RemoveOld(c) \/ A!Move(c)
          \/ A!Settle(c) \/ A!RunAgain(c)
  <2>1. UNCHANGED mode
    BY <1>3 DEF A!Forget, A!Works, A!TakeDown, A!Fails, A!Claim, A!Claimed, A!RemoveOld,
        A!Move, A!Settle, A!RunAgain
  <2>. QED BY <2>1
<1>4. CASE
     \/ A!ClearHostname(c)
  <2>1. UNCHANGED mode
    BY <1>4 DEF A!ClearHostname, A!Works, A!Fails
  <2>. QED BY <2>1
<1>. QED
  BY <1>1, <1>2, <1>3, <1>4
    DEF Acts

(* Every step of a caller establishes what its next step relies on.          *)
LEMMA StagesFit ==
    ASSUME NEW c \in Workers, CallsTyped, RegistriesTyped, HoldsNames, StepsFit, CallStages,
           PortsRegistered, HostsRegistered, SlotsTaken, Acts(c)
    PROVE  StepFits(c)' /\ CallStage(c)'
<1> USE TenantsConstants
<1>k. CallKinds = {"create", "delete", "recreate", "update"} BY DEF CallKinds
<1>0. A!Steps = {"none", "see", "reserve", "assign", "prepare", "look", "port", "run", "configure",
               "rollback", "release", "claim", "forget", "take_down", "move", "settle", "clear"}
  BY DEF A!Steps
<1>b. NoHost # Reserved /\ 1..Ports \subseteq 0..Ports BY TenantsConstants DEF A!AddrConstants
<1>c. ~A!At(c, "none") => A!Me(c) \in Tenants BY DEF StepsFit, StepFits
<1>1. ASSUME NEW n \in Tenants, A!BeginDelete(c, n) PROVE StepFits(c)' /\ CallStage(c)'
  <2>0. /\ StepFits(c) /\ OutOfTheWay(c) /\ GivesOwn(c) /\ InHand(c) /\ mode' = mode
        /\ call[c].kind \in {"none", "create", "delete", "recreate", "update"}
    BY RoutingStays DEF StepsFit, CallStages, CallStage, CallsTyped, CallRecords
  <2>1. CASE A!Begin(c, "delete", n, n, "forget", NoHost)
    <3>1. /\ call'[c].kind = "delete" /\ call'[c].env = n /\ call'[c].to = n
              /\ call'[c].step = "forget"
          /\ call'[c].want = NoHost /\ call'[c].host = NoHost /\ call'[c].port = 0
              /\ ~call'[c].clear
      BY <1>k, <1>0, <2>1, BeginTyped
    <3>2. UNCHANGED <<ports, hosts, tenant, bare>> /\ n \in Tenants
      BY <1>1 DEF A!BeginDelete, SlotsTaken
    <3>. USE DEF A!At, Builds, Updates, A!Me, KeepsName, KeepsWork, StepFits
    <3>3. StepFits(c)' BY <3>1, <3>2, <2>0, <2>1 DEF OutOfTheWay
    <3>4. OutOfTheWay(c)' BY <3>1, <3>2, <2>0, <2>1 DEF OutOfTheWay
    <3>5. GivesOwn(c)' BY <3>1, <3>2, <2>0, <2>1 DEF GivesOwn, Gives, InHand
    <3>6. InHand(c)' BY <3>1, <3>2, <2>0, <2>1 DEF InHand, A!Routed
    <3>. QED BY <3>3, <3>4, <3>5, <3>6 DEF CallStage
  <2>. QED BY <1>1, <2>1 DEF A!BeginDelete
<1>2. ASSUME NEW n \in Tenants, A!BeginRecreate(c, n) PROVE StepFits(c)' /\ CallStage(c)'
  <2>0. /\ StepFits(c) /\ OutOfTheWay(c) /\ GivesOwn(c) /\ InHand(c) /\ mode' = mode
        /\ call[c].kind \in {"none", "create", "delete", "recreate", "update"}
    BY RoutingStays DEF StepsFit, CallStages, CallStage, CallsTyped, CallRecords
  <2>1. CASE A!Begin(c, "recreate", n, n, "see", NoHost)
    <3>1. /\ call'[c].kind = "recreate" /\ call'[c].env = n /\ call'[c].to = n
              /\ call'[c].step = "see"
          /\ call'[c].want = NoHost /\ call'[c].host = NoHost /\ call'[c].port = 0
              /\ ~call'[c].clear
      BY <1>k, <1>0, <2>1, BeginTyped
    <3>2. UNCHANGED <<ports, hosts, tenant, bare>> /\ n \in Tenants /\ tenant[n].here
      BY <1>2 DEF A!BeginRecreate, SlotsTaken
    <3>. USE DEF A!At, Builds, Updates, A!Me, KeepsName, KeepsWork, StepFits
    <3>3. StepFits(c)' BY <3>1, <3>2, <2>0, <2>1 DEF OutOfTheWay
    <3>4. OutOfTheWay(c)' BY <3>1, <3>2, <2>0, <2>1 DEF OutOfTheWay
    <3>5. GivesOwn(c)' BY <3>1, <3>2, <2>0, <2>1 DEF GivesOwn, Gives, InHand
    <3>6. InHand(c)' BY <3>1, <3>2, <2>0, <2>1 DEF InHand, A!Routed
    <3>. QED BY <3>3, <3>4, <3>5, <3>6 DEF CallStage
  <2>. QED BY <1>2, <2>1 DEF A!BeginRecreate
<1>3. ASSUME NEW n \in Tenants, NEW want \in A!Labels \cup {NoHost}, A!BeginCreate(c, n, want)
      PROVE  StepFits(c)' /\ CallStage(c)'
  <2>0. /\ StepFits(c) /\ OutOfTheWay(c) /\ GivesOwn(c) /\ InHand(c) /\ mode' = mode
        /\ call[c].kind \in {"none", "create", "delete", "recreate", "update"}
    BY RoutingStays DEF StepsFit, CallStages, CallStage, CallsTyped, CallRecords
  <2>1. CASE A!Begin(c, "create", n, n, "see", want)
    <3>1. /\ call'[c].kind = "create" /\ call'[c].env = n /\ call'[c].to = n
              /\ call'[c].step = "see"
          /\ call'[c].want = want /\ call'[c].host = NoHost /\ call'[c].port = 0 /\ ~call'[c].clear
      BY <1>k, <1>0, <2>1, BeginTyped
    <3>2. UNCHANGED <<ports, hosts, tenant, bare>> /\ n \in Tenants /\ ~tenant[n].here
            /\ (want # NoHost => A!Routed)
      BY <1>3 DEF A!BeginCreate, SlotsTaken
    <3>. USE DEF A!At, Builds, Updates, A!Me, KeepsName, KeepsWork, StepFits
    <3>3. StepFits(c)' BY <3>1, <3>2, <2>0, <2>1 DEF OutOfTheWay
    <3>4. OutOfTheWay(c)' BY <3>1, <3>2, <2>0, <2>1 DEF OutOfTheWay
    <3>5. GivesOwn(c)' BY <3>1, <3>2, <2>0, <2>1 DEF GivesOwn, Gives, InHand
    <3>6. InHand(c)' BY <3>1, <3>2, <2>0, <2>1 DEF InHand, A!Routed
    <3>. QED BY <3>3, <3>4, <3>5, <3>6 DEF CallStage
  <2>. QED BY <1>3, <2>1 DEF A!BeginCreate
<1>4. ASSUME NEW n \in Tenants, NEW want \in A!Labels \cup {NoHost}, NEW to \in Tenants,
             A!BeginUpdate(c, n, to, want)
      PROVE  StepFits(c)' /\ CallStage(c)'
  <2>0. /\ StepFits(c) /\ OutOfTheWay(c) /\ GivesOwn(c) /\ InHand(c) /\ mode' = mode
        /\ call[c].kind \in {"none", "create", "delete", "recreate", "update"}
    BY RoutingStays DEF StepsFit, CallStages, CallStage, CallsTyped, CallRecords
  <2>1. CASE A!Begin(c, "update", n, to, "see", want)
    <3>1. /\ call'[c].kind = "update" /\ call'[c].env = n /\ call'[c].to = to
              /\ call'[c].step = "see"
          /\ call'[c].want = want /\ call'[c].host = NoHost /\ call'[c].port = 0 /\ ~call'[c].clear
      BY <1>k, <1>0, <2>1, BeginTyped
    <3>2. UNCHANGED <<ports, hosts, tenant, bare>> /\ n \in Tenants /\ tenant[n].here
            /\ (to # n => ~tenant[to].here) /\ (want # NoHost => A!Routed)
          /\ (n \notin bare => hosts[n] # NoHost)
      BY <1>4 DEF A!BeginUpdate, SlotsTaken
    <3>. USE DEF A!At, Builds, Updates, A!Me, KeepsName, KeepsWork, StepFits
    <3>3. StepFits(c)' BY <3>1, <3>2, <2>0, <2>1 DEF OutOfTheWay
    <3>4. OutOfTheWay(c)' BY <3>1, <3>2, <2>0, <2>1 DEF OutOfTheWay
    <3>5. GivesOwn(c)' BY <3>1, <3>2, <2>0, <2>1 DEF GivesOwn, Gives, InHand
    <3>6. InHand(c)' BY <3>1, <3>2, <2>0, <2>1 DEF InHand, A!Routed
    <3>. QED BY <3>3, <3>4, <3>5, <3>6 DEF CallStage
  <2>. QED BY <1>4, <2>1 DEF A!BeginUpdate
<1>5. ASSUME A!See(c) PROVE StepFits(c)' /\ CallStage(c)'
  <2>0. /\ StepFits(c) /\ OutOfTheWay(c) /\ GivesOwn(c) /\ InHand(c) /\ mode' = mode
        /\ call[c].kind \in {"none", "create", "delete", "recreate", "update"}
    BY RoutingStays DEF StepsFit, CallStages, CallStage, CallsTyped, CallRecords
  <2>1. CASE A!Done(c) BY <2>1, IdleFits
  <2>2. CASE /\ call[c].kind # "create" /\ tenant[A!Me(c)].here
               /\ lease' = lease
                   /\ call' = [call EXCEPT ![c].seen = A!Active(A!Me(c)),
                         ![c].used = A!UsedHosts(A!Me(c)), ![c].step = "claim"]
    <3>0. A!Me(c) \in Tenants BY <1>5, <2>0 DEF A!See, StepFits, A!At
    <3>1. call'[c].step = "claim" /\ KeepsName(c) /\ KeepsWork(c)
      BY <1>0, <2>2, <3>0, UsedTyped, SeenTyped
    <3>2. UNCHANGED <<ports, hosts, tenant, bare>> /\ A!At(c, "see")
      BY <2>2, <1>5, <2>0, <1>b DEF A!See, A!At, StepFits, RegistriesTyped, A!Me
    <3>. USE DEF A!At, Builds, Updates, A!Me, KeepsName, KeepsWork, StepFits
    <3>3. StepFits(c)' BY <3>1, <3>2, <2>0, <2>2 DEF OutOfTheWay
    <3>4. OutOfTheWay(c)' BY <3>1, <3>2, <2>0, <2>2 DEF OutOfTheWay
    <3>5. GivesOwn(c)' BY <3>1, <3>2, <2>0, <2>2 DEF GivesOwn, Gives, InHand
    <3>6. InHand(c)' BY <3>1, <3>2, <2>0, <2>2 DEF InHand, A!Routed
    <3>. QED BY <3>3, <3>4, <3>5, <3>6 DEF CallStage
  <2>3. CASE /\ ~(call[c].kind # "create" /\ tenant[A!Me(c)].here)
                 /\ (A!Routed \/ call[c].want = NoHost)
               /\ lease' = lease
                   /\ call' = [call EXCEPT ![c].seen = A!Active(A!Me(c)),
                         ![c].used = A!UsedHosts(A!Me(c)), ![c].step = "reserve"]
    <3>0. A!Me(c) \in Tenants BY <1>5, <2>0 DEF A!See, StepFits, A!At
    <3>1. call'[c].step = "reserve" /\ KeepsName(c) /\ KeepsWork(c)
      BY <1>0, <2>3, <3>0, UsedTyped, SeenTyped
    <3>2. UNCHANGED <<ports, hosts, tenant, bare>> /\ A!At(c, "see")
      BY <2>3, <1>5, <2>0, <1>b DEF A!See, A!At, StepFits, RegistriesTyped, A!Me
    <3>. USE DEF A!At, Builds, Updates, A!Me, KeepsName, KeepsWork, StepFits
    <3>3. StepFits(c)' BY <3>1, <3>2, <2>0, <2>3 DEF OutOfTheWay
    <3>4. OutOfTheWay(c)' BY <3>1, <3>2, <2>0, <2>3 DEF OutOfTheWay
    <3>5. GivesOwn(c)' BY <3>1, <3>2, <2>0, <2>3 DEF GivesOwn, Gives, InHand
    <3>6. InHand(c)' BY <3>1, <3>2, <2>0, <2>3 DEF InHand, A!Routed
    <3>. QED BY <3>3, <3>4, <3>5, <3>6 DEF CallStage
  <2>. QED BY <1>5, <2>1, <2>2, <2>3 DEF A!See
<1>6. ASSUME A!Reserve(c) PROVE StepFits(c)' /\ CallStage(c)'
  <2>0. /\ StepFits(c) /\ OutOfTheWay(c) /\ GivesOwn(c) /\ InHand(c) /\ mode' = mode
        /\ call[c].kind \in {"none", "create", "delete", "recreate", "update"}
    BY RoutingStays DEF StepsFit, CallStages, CallStage, CallsTyped, CallRecords
  <2>1. CASE A!Done(c) BY <2>1, IdleFits
  <2>2. CASE A!Go(c, "assign")
               /\ hosts' = (IF hosts[A!Me(c)] # NoHost THEN hosts
                   ELSE [hosts EXCEPT ![A!Me(c)] = Reserved]) /\ (call[c].want # NoHost
                       \/ mode = "slots")
    <3>1. call'[c].step = "assign" /\ KeepsName(c) /\ KeepsWork(c) BY <1>0, <2>2, GoTyped
    <3>2. UNCHANGED <<ports, tenant, bare>> /\ hosts'[A!Me(c)] # NoHost /\ A!At(c, "reserve")
      BY <2>2, <1>6, <2>0, <1>b DEF A!Reserve, A!At, StepFits, RegistriesTyped, A!Me
    <3>. USE DEF A!At, Builds, Updates, A!Me, KeepsName, KeepsWork, StepFits
    <3>3. StepFits(c)' BY <3>1, <3>2, <2>0, <2>2 DEF OutOfTheWay
    <3>4. OutOfTheWay(c)' BY <3>1, <3>2, <2>0, <2>2 DEF OutOfTheWay
    <3>5. GivesOwn(c)' BY <3>1, <3>2, <2>0, <2>2 DEF GivesOwn, Gives, InHand
    <3>6. InHand(c)' BY <3>1, <3>2, <2>0, <2>2 DEF InHand, A!Routed
    <3>. QED BY <3>3, <3>4, <3>5, <3>6 DEF CallStage
  <2>3. CASE A!Go(c, "prepare")
               /\ hosts' = (IF hosts[A!Me(c)] # NoHost THEN hosts
                   ELSE [hosts EXCEPT ![A!Me(c)] = Reserved]) /\ ~(call[c].want # NoHost
                       \/ mode = "slots")
    <3>1. call'[c].step = "prepare" /\ KeepsName(c) /\ KeepsWork(c) BY <1>0, <2>3, GoTyped
    <3>2. UNCHANGED <<ports, tenant, bare>> /\ hosts'[A!Me(c)] # NoHost /\ A!At(c, "reserve")
      BY <2>3, <1>6, <2>0, <1>b DEF A!Reserve, A!At, StepFits, RegistriesTyped, A!Me
    <3>. USE DEF A!At, Builds, Updates, A!Me, KeepsName, KeepsWork, StepFits
    <3>3. StepFits(c)' BY <3>1, <3>2, <2>0, <2>3 DEF OutOfTheWay
    <3>4. OutOfTheWay(c)' BY <3>1, <3>2, <2>0, <2>3 DEF OutOfTheWay
    <3>5. GivesOwn(c)' BY <3>1, <3>2, <2>0, <2>3 DEF GivesOwn, Gives, InHand
    <3>6. InHand(c)' BY <3>1, <3>2, <2>0, <2>3 DEF InHand, A!Routed
    <3>. QED BY <3>3, <3>4, <3>5, <3>6 DEF CallStage
  <2>. QED BY <1>6, <2>1, <2>2, <2>3 DEF A!Reserve
<1>7. ASSUME A!Assign(c) PROVE StepFits(c)' /\ CallStage(c)'
  <2>k. (IF call[c].want = NoHost THEN TRUE ELSE call[c].slot) \in BOOLEAN
    BY DEF CallsTyped, CallRecords
  <2>0. /\ StepFits(c) /\ OutOfTheWay(c) /\ GivesOwn(c) /\ InHand(c) /\ mode' = mode
        /\ call[c].kind \in {"none", "create", "delete", "recreate", "update"}
    BY RoutingStays DEF StepsFit, CallStages, CallStage, CallsTyped, CallRecords
  <2>1. CASE A!Done(c) BY <2>1, IdleFits
  <2>2. CASE \E h \in A!Grants(c, call[c].want, Slots), k \in BOOLEAN :
               hosts' = [hosts EXCEPT ![A!Me(c)] = h] /\ A!Assigned(c, h, "prepare", k)
    <3>0. A!Me(c) \in Tenants BY <1>7, <2>0 DEF A!Assign, StepFits, A!At
    <3>h. PICK h \in A!Grants(c, call[c].want, Slots), k \in BOOLEAN :
               hosts' = [hosts EXCEPT ![A!Me(c)] = h] /\ A!Assigned(c, h, "prepare", k)
      BY <2>2
    <3>g. h \in A!Labels /\ h # NoHost BY <3>0, GrantsFree
    <3>1. /\ call'[c].step = "prepare" /\ call'[c].host = h /\ KeepsName(c)
          /\ call'[c].want = call[c].want /\ call'[c].port = call[c].port
              /\ call'[c].clear = call[c].clear
      BY <1>0, <3>h, <3>g, AssignedTyped
    <3>2. UNCHANGED <<ports, tenant, bare>> /\ hosts'[A!Me(c)] = h /\ h # NoHost
            /\ A!At(c, "assign")
      BY <3>0, <3>h, <3>g, <1>7 DEF A!Assign, RegistriesTyped
    <3>. USE DEF A!At, Builds, Updates, A!Me, KeepsName, KeepsWork, StepFits
    <3>3. StepFits(c)' BY <3>1, <3>2, <2>0, <2>2 DEF OutOfTheWay
    <3>4. OutOfTheWay(c)' BY <3>1, <3>2, <2>0, <2>2 DEF OutOfTheWay
    <3>5. GivesOwn(c)' BY <3>1, <3>2, <2>0, <2>2 DEF GivesOwn, Gives, InHand
    <3>6. InHand(c)' BY <3>1, <3>2, <2>0, <2>2 DEF InHand, A!Routed
    <3>. QED BY <3>3, <3>4, <3>5, <3>6 DEF CallStage
  <2>j. ASSUME NEW h \in A!Grants(c, call[c].want, Slots),
               A!Assigned(c, h, "prepare", IF call[c].want = NoHost THEN TRUE ELSE call[c].slot)
        PROVE  \E k \in BOOLEAN : hosts' = [hosts EXCEPT ![A!Me(c)] = h]
                 /\ A!Assigned(c, h, "prepare", k)
    <3>1. hosts' = [hosts EXCEPT ![A!Me(c)] = h] BY <2>j DEF A!Assigned
    <3>. QED BY <3>1, <2>j, <2>k
  <2>. QED BY <1>7, <2>j, <2>1, <2>2 DEF A!Assign
<1>8. ASSUME A!Prepare(c) PROVE StepFits(c)' /\ CallStage(c)'
  <2>0. /\ StepFits(c) /\ OutOfTheWay(c) /\ GivesOwn(c) /\ InHand(c) /\ mode' = mode
        /\ call[c].kind \in {"none", "create", "delete", "recreate", "update"}
    BY RoutingStays DEF StepsFit, CallStages, CallStage, CallsTyped, CallRecords
  <2>1. CASE A!Go(c, "run") /\ A!Routed
    <3>1. call'[c].step = "run" /\ KeepsName(c) /\ KeepsWork(c) BY <1>0, <2>1, GoTyped
    <3>2. UNCHANGED <<ports, hosts, tenant, bare>> /\ A!At(c, "prepare")
      BY <2>1, <1>8, <2>0, <1>b DEF A!Prepare, A!At, StepFits, RegistriesTyped, A!Me
    <3>. USE DEF A!At, Builds, Updates, A!Me, KeepsName, KeepsWork, StepFits
    <3>3. StepFits(c)' BY <3>1, <3>2, <2>0, <2>1 DEF OutOfTheWay
    <3>4. OutOfTheWay(c)' BY <3>1, <3>2, <2>0, <2>1 DEF OutOfTheWay
    <3>5. GivesOwn(c)' BY <3>1, <3>2, <2>0, <2>1 DEF GivesOwn, Gives, InHand
    <3>6. InHand(c)' BY <3>1, <3>2, <2>0, <2>1 DEF InHand, A!Routed
    <3>. QED BY <3>3, <3>4, <3>5, <3>6 DEF CallStage
  <2>2. CASE A!Go(c, "look") /\ ~A!Routed
    <3>1. call'[c].step = "look" /\ KeepsName(c) /\ KeepsWork(c) BY <1>0, <2>2, GoTyped
    <3>2. UNCHANGED <<ports, hosts, tenant, bare>> /\ A!At(c, "prepare")
      BY <2>2, <1>8, <2>0, <1>b DEF A!Prepare, A!At, StepFits, RegistriesTyped, A!Me
    <3>. USE DEF A!At, Builds, Updates, A!Me, KeepsName, KeepsWork, StepFits
    <3>3. StepFits(c)' BY <3>1, <3>2, <2>0, <2>2 DEF OutOfTheWay
    <3>4. OutOfTheWay(c)' BY <3>1, <3>2, <2>0, <2>2 DEF OutOfTheWay
    <3>5. GivesOwn(c)' BY <3>1, <3>2, <2>0, <2>2 DEF GivesOwn, Gives, InHand
    <3>6. InHand(c)' BY <3>1, <3>2, <2>0, <2>2 DEF InHand, A!Routed
    <3>. QED BY <3>3, <3>4, <3>5, <3>6 DEF CallStage
  <2>3. CASE A!Go(c, "release")
    <3>1. call'[c].step = "release" /\ KeepsName(c) /\ KeepsWork(c) BY <1>0, <2>3, GoTyped
    <3>2. UNCHANGED <<ports, hosts, tenant, bare>> /\ A!At(c, "prepare")
      BY <2>3, <1>8, <2>0, <1>b DEF A!Prepare, A!At, StepFits, RegistriesTyped, A!Me
    <3>. USE DEF A!At, Builds, Updates, A!Me, KeepsName, KeepsWork, StepFits
    <3>3. StepFits(c)' BY <3>1, <3>2, <2>0, <2>3 DEF OutOfTheWay
    <3>4. OutOfTheWay(c)' BY <3>1, <3>2, <2>0, <2>3 DEF OutOfTheWay
    <3>5. GivesOwn(c)' BY <3>1, <3>2, <2>0, <2>3 DEF GivesOwn, Gives, InHand
    <3>6. InHand(c)' BY <3>1, <3>2, <2>0, <2>3 DEF InHand, A!Routed
    <3>. QED BY <3>3, <3>4, <3>5, <3>6 DEF CallStage
  <2>. QED BY <1>8, <2>1, <2>2, <2>3 DEF A!Prepare
<1>9. ASSUME A!Look(c) PROVE StepFits(c)' /\ CallStage(c)'
  <2>0. /\ StepFits(c) /\ OutOfTheWay(c) /\ GivesOwn(c) /\ InHand(c) /\ mode' = mode
        /\ call[c].kind \in {"none", "create", "delete", "recreate", "update"}
    BY RoutingStays DEF StepsFit, CallStages, CallStage, CallsTyped, CallRecords
  <2>1. CASE lease' = lease
               /\ call' = [call EXCEPT ![c].used = A!UsedPorts(A!Me(c)), ![c].step = "port"]
    <3>0. A!Me(c) \in Tenants BY <1>9, <2>0 DEF A!Look, StepFits, A!At
    <3>1. call'[c].step = "port" /\ KeepsName(c) /\ KeepsWork(c)
      BY <1>0, <2>1, <3>0, UsedTyped, LookedTyped
    <3>2. UNCHANGED <<ports, hosts, tenant, bare>> /\ A!At(c, "look")
      BY <2>1, <1>9, <2>0, <1>b DEF A!Look, A!At, StepFits, RegistriesTyped, A!Me
    <3>. USE DEF A!At, Builds, Updates, A!Me, KeepsName, KeepsWork, StepFits
    <3>3. StepFits(c)' BY <3>1, <3>2, <2>0, <2>1 DEF OutOfTheWay
    <3>4. OutOfTheWay(c)' BY <3>1, <3>2, <2>0, <2>1 DEF OutOfTheWay
    <3>5. GivesOwn(c)' BY <3>1, <3>2, <2>0, <2>1 DEF GivesOwn, Gives, InHand
    <3>6. InHand(c)' BY <3>1, <3>2, <2>0, <2>1 DEF InHand, A!Routed
    <3>. QED BY <3>3, <3>4, <3>5, <3>6 DEF CallStage
  <2>. QED BY <1>9, <2>1 DEF A!Look
<1>10. ASSUME A!AllocatePort(c) PROVE StepFits(c)' /\ CallStage(c)'
  <2>k. A!At(c, "port") /\ (A!Me(c) \in Tenants => ports[A!Me(c)] \in 0..Ports)
          /\ 1..Ports \subseteq 0..Ports
    BY <1>10, <1>b DEF A!AllocatePort, RegistriesTyped
  <2>0. /\ StepFits(c) /\ OutOfTheWay(c) /\ GivesOwn(c) /\ InHand(c) /\ mode' = mode
        /\ call[c].kind \in {"none", "create", "delete", "recreate", "update"}
    BY RoutingStays DEF StepsFit, CallStages, CallStage, CallsTyped, CallRecords
  <2>1. CASE A!Done(c) BY <2>1, IdleFits
  <2>2. CASE A!Go(c, "release") /\ bare' = bare /\ ports' = ports /\ call[c].kind # "update"
    <3>1. call'[c].step = "release" /\ KeepsName(c) /\ KeepsWork(c) BY <1>0, <2>2, GoTyped
    <3>2. UNCHANGED <<ports, hosts, tenant, bare>> /\ A!At(c, "port")
      BY <2>2, <1>10, <2>0, <1>b DEF A!AllocatePort, A!At, StepFits, RegistriesTyped, A!Me
    <3>. USE DEF A!At, Builds, Updates, A!Me, KeepsName, KeepsWork, StepFits
    <3>3. StepFits(c)' BY <3>1, <3>2, <2>0, <2>2 DEF OutOfTheWay
    <3>4. OutOfTheWay(c)' BY <3>1, <3>2, <2>0, <2>2 DEF OutOfTheWay
    <3>5. GivesOwn(c)' BY <3>1, <3>2, <2>0, <2>2 DEF GivesOwn, Gives, InHand
    <3>6. InHand(c)' BY <3>1, <3>2, <2>0, <2>2 DEF InHand, A!Routed
    <3>. QED BY <3>3, <3>4, <3>5, <3>6 DEF CallStage
  <2>3. CASE \E p \in 0..Ports :
               /\ ports' = [ports EXCEPT ![A!Me(c)] = p] /\ bare' = bare /\ lease' = lease
               /\ call' = [call EXCEPT ![c].step = "run", ![c].port = p, ![c].fresh = TRUE]
    <3>0. A!Me(c) \in Tenants BY <1>10, <2>0 DEF A!AllocatePort, StepFits, A!At
    <3>p. PICK p \in 0..Ports :
               /\ ports' = [ports EXCEPT ![A!Me(c)] = p] /\ bare' = bare /\ lease' = lease
               /\ call' = [call EXCEPT ![c].step = "run", ![c].port = p, ![c].fresh = TRUE]
      BY <2>3
    <3>1. /\ call'[c].step = "run" /\ call'[c].port = p /\ KeepsName(c)
          /\ call'[c].want = call[c].want /\ call'[c].host = call[c].host
              /\ call'[c].clear = call[c].clear
      BY <1>0, <3>p, PortTyped
    <3>2. UNCHANGED <<hosts, tenant, bare>> /\ ports'[A!Me(c)] = p /\ A!At(c, "port")
      BY <3>0, <3>p, <1>10 DEF A!AllocatePort, RegistriesTyped
    <3>. USE DEF A!At, Builds, Updates, A!Me, KeepsName, KeepsWork, StepFits
    <3>3. StepFits(c)' BY <3>1, <3>2, <2>0, <2>3 DEF OutOfTheWay
    <3>4. OutOfTheWay(c)' BY <3>1, <3>2, <2>0, <2>3 DEF OutOfTheWay
    <3>5. GivesOwn(c)' BY <3>1, <3>2, <2>0, <2>3 DEF GivesOwn, Gives, InHand
    <3>6. InHand(c)' BY <3>1, <3>2, <2>0, <2>3 DEF InHand, A!Routed
    <3>. QED BY <3>3, <3>4, <3>5, <3>6 DEF CallStage
  <2>m. A!Me(c) \in Tenants BY <2>0, <2>k DEF StepFits, A!At
  <2>. QED BY <1>10, <2>k, <2>m, <2>1, <2>2, <2>3 DEF A!AllocatePort
<1>11. ASSUME A!RunNew(c) PROVE StepFits(c)' /\ CallStage(c)'
  <2>0. /\ StepFits(c) /\ OutOfTheWay(c) /\ GivesOwn(c) /\ InHand(c) /\ mode' = mode
        /\ call[c].kind \in {"none", "create", "delete", "recreate", "update"}
    BY RoutingStays DEF StepsFit, CallStages, CallStage, CallsTyped, CallRecords
  <2>1. CASE A!Go(c, "configure")
    <3>1. call'[c].step = "configure" /\ KeepsName(c) /\ KeepsWork(c) BY <1>0, <2>1, GoTyped
    <3>2. call[c].kind # "update" /\ UNCHANGED <<ports, hosts, bare>> /\ A!At(c, "run")
      BY <2>1, <1>11, <2>0, <1>b DEF A!RunNew, A!At, StepFits, RegistriesTyped, A!Me
    <3>. USE DEF A!At, Builds, Updates, A!Me, KeepsName, KeepsWork, StepFits
    <3>3. StepFits(c)' BY <3>1, <3>2, <2>0, <2>1 DEF OutOfTheWay
    <3>4. OutOfTheWay(c)' BY <3>1, <3>2, <2>0, <2>1 DEF OutOfTheWay
    <3>5. GivesOwn(c)' BY <3>1, <3>2, <2>0, <2>1 DEF GivesOwn, Gives, InHand
    <3>6. InHand(c)' BY <3>1, <3>2, <2>0, <2>1 DEF InHand, A!Routed
    <3>. QED BY <3>3, <3>4, <3>5, <3>6 DEF CallStage
  <2>2. CASE A!Go(c, "rollback")
    <3>1. call'[c].step = "rollback" /\ KeepsName(c) /\ KeepsWork(c) BY <1>0, <2>2, GoTyped
    <3>2. call[c].kind # "update" /\ UNCHANGED <<ports, hosts, bare>> /\ A!At(c, "run")
      BY <2>2, <1>11, <2>0, <1>b DEF A!RunNew, A!At, StepFits, RegistriesTyped, A!Me
    <3>. USE DEF A!At, Builds, Updates, A!Me, KeepsName, KeepsWork, StepFits
    <3>3. StepFits(c)' BY <3>1, <3>2, <2>0, <2>2 DEF OutOfTheWay
    <3>4. OutOfTheWay(c)' BY <3>1, <3>2, <2>0, <2>2 DEF OutOfTheWay
    <3>5. GivesOwn(c)' BY <3>1, <3>2, <2>0, <2>2 DEF GivesOwn, Gives, InHand
    <3>6. InHand(c)' BY <3>1, <3>2, <2>0, <2>2 DEF InHand, A!Routed
    <3>. QED BY <3>3, <3>4, <3>5, <3>6 DEF CallStage
  <2>. QED BY <1>11, <2>1, <2>2 DEF A!RunNew
<1>12. ASSUME A!Configure(c) PROVE StepFits(c)' /\ CallStage(c)'
  <2>0. /\ StepFits(c) /\ OutOfTheWay(c) /\ GivesOwn(c) /\ InHand(c) /\ mode' = mode
        /\ call[c].kind \in {"none", "create", "delete", "recreate", "update"}
    BY RoutingStays DEF StepsFit, CallStages, CallStage, CallsTyped, CallRecords
  <2>1. CASE A!Done(c) BY <2>1, IdleFits
  <2>2. CASE A!Go(c, "rollback")
    <3>1. call'[c].step = "rollback" /\ KeepsName(c) /\ KeepsWork(c) BY <1>0, <2>2, GoTyped
    <3>2. UNCHANGED <<ports, hosts, tenant, bare>> /\ A!At(c, "configure")
      BY <2>2, <1>12, <2>0, <1>b DEF A!Configure, A!At, StepFits, RegistriesTyped, A!Me
    <3>. USE DEF A!At, Builds, Updates, A!Me, KeepsName, KeepsWork, StepFits
    <3>3. StepFits(c)' BY <3>1, <3>2, <2>0, <2>2 DEF OutOfTheWay
    <3>4. OutOfTheWay(c)' BY <3>1, <3>2, <2>0, <2>2 DEF OutOfTheWay
    <3>5. GivesOwn(c)' BY <3>1, <3>2, <2>0, <2>2 DEF GivesOwn, Gives, InHand
    <3>6. InHand(c)' BY <3>1, <3>2, <2>0, <2>2 DEF InHand, A!Routed
    <3>. QED BY <3>3, <3>4, <3>5, <3>6 DEF CallStage
  <2>. QED BY <1>12, <2>1, <2>2 DEF A!Configure
<1>13. ASSUME A!RollBack(c) PROVE StepFits(c)' /\ CallStage(c)'
  <2>0. /\ StepFits(c) /\ OutOfTheWay(c) /\ GivesOwn(c) /\ InHand(c) /\ mode' = mode
        /\ call[c].kind \in {"none", "create", "delete", "recreate", "update"}
    BY RoutingStays DEF StepsFit, CallStages, CallStage, CallsTyped, CallRecords
  <2>1. CASE A!Go(c, "release")
    <3>1. call'[c].step = "release" /\ KeepsName(c) /\ KeepsWork(c) BY <1>0, <2>1, GoTyped
    <3>2. hosts' = hosts /\ A!At(c, "rollback")
      BY <2>1, <1>13, <2>0, <1>b DEF A!RollBack, A!At, StepFits, RegistriesTyped, A!Me
    <3>. USE DEF A!At, Builds, Updates, A!Me, KeepsName, KeepsWork, StepFits
    <3>3. StepFits(c)' BY <3>1, <3>2, <2>0, <2>1 DEF OutOfTheWay
    <3>4. OutOfTheWay(c)' BY <3>1, <3>2, <2>0, <2>1 DEF OutOfTheWay
    <3>5. GivesOwn(c)' BY <3>1, <3>2, <2>0, <2>1 DEF GivesOwn, Gives, InHand
    <3>6. InHand(c)' BY <3>1, <3>2, <2>0, <2>1 DEF InHand, A!Routed
    <3>. QED BY <3>3, <3>4, <3>5, <3>6 DEF CallStage
  <2>. QED BY <1>13, <2>1 DEF A!RollBack
<1>14. ASSUME A!ReleaseSlot(c) PROVE StepFits(c)' /\ CallStage(c)'
  <2>0. /\ StepFits(c) /\ OutOfTheWay(c) /\ GivesOwn(c) /\ InHand(c) /\ mode' = mode
        /\ call[c].kind \in {"none", "create", "delete", "recreate", "update"}
    BY RoutingStays DEF StepsFit, CallStages, CallStage, CallsTyped, CallRecords
  <2>1. CASE A!Done(c) BY <2>1, IdleFits
  <2>. QED BY <1>14, <2>1 DEF A!ReleaseSlot
<1>15. ASSUME A!Forget(c) PROVE StepFits(c)' /\ CallStage(c)'
  <2>0. /\ StepFits(c) /\ OutOfTheWay(c) /\ GivesOwn(c) /\ InHand(c) /\ mode' = mode
        /\ call[c].kind \in {"none", "create", "delete", "recreate", "update"}
    BY RoutingStays DEF StepsFit, CallStages, CallStage, CallsTyped, CallRecords
  <2>1. CASE A!Go(c, "take_down")
    <3>1. call'[c].step = "take_down" /\ KeepsName(c) /\ KeepsWork(c) BY <1>0, <2>1, GoTyped
    <3>2. hosts'[A!Me(c)] = NoHost /\ tenant' = tenant
            /\ (tenant[A!Me(c)].here => A!Me(c) \in bare') /\ A!At(c, "forget")
      BY <2>1, <1>15, <2>0, <1>b DEF A!Forget, A!At, StepFits, RegistriesTyped, A!Me
    <3>. USE DEF A!At, Builds, Updates, A!Me, KeepsName, KeepsWork, StepFits
    <3>3. StepFits(c)' BY <3>1, <3>2, <2>0, <2>1 DEF OutOfTheWay
    <3>4. OutOfTheWay(c)' BY <3>1, <3>2, <2>0, <2>1 DEF OutOfTheWay
    <3>5. GivesOwn(c)' BY <3>1, <3>2, <2>0, <2>1 DEF GivesOwn, Gives, InHand
    <3>6. InHand(c)' BY <3>1, <3>2, <2>0, <2>1 DEF InHand, A!Routed
    <3>. QED BY <3>3, <3>4, <3>5, <3>6 DEF CallStage
  <2>. QED BY <1>15, <2>1 DEF A!Forget
<1>16. ASSUME A!TakeDown(c) PROVE StepFits(c)' /\ CallStage(c)'
  <2>0. /\ StepFits(c) /\ OutOfTheWay(c) /\ GivesOwn(c) /\ InHand(c) /\ mode' = mode
        /\ call[c].kind \in {"none", "create", "delete", "recreate", "update"}
    BY RoutingStays DEF StepsFit, CallStages, CallStage, CallsTyped, CallRecords
  <2>1. CASE A!Done(c) BY <2>1, IdleFits
  <2>2. CASE A!Go(c, "see") /\ call[c].kind = "recreate"
               /\ tenant' = [tenant EXCEPT ![A!Me(c)] = A!NoBox]
    <3>1. call'[c].step = "see" /\ KeepsName(c) /\ KeepsWork(c) BY <1>0, <2>2, GoTyped
    <3>2. UNCHANGED <<ports, hosts>> /\ ~tenant'[A!Me(c)].here /\ A!At(c, "take_down")
      BY <2>2, <1>16, <2>0, <1>b DEF A!TakeDown, A!At, StepFits, RegistriesTyped, A!Me, A!NoBox
    <3>. USE DEF A!At, Builds, Updates, A!Me, KeepsName, KeepsWork, StepFits
    <3>3. StepFits(c)' BY <3>1, <3>2, <2>0, <2>2 DEF OutOfTheWay
    <3>4. OutOfTheWay(c)' BY <3>1, <3>2, <2>0, <2>2 DEF OutOfTheWay
    <3>5. GivesOwn(c)' BY <3>1, <3>2, <2>0, <2>2 DEF GivesOwn, Gives, InHand
    <3>6. InHand(c)' BY <3>1, <3>2, <2>0, <2>2 DEF InHand, A!Routed
    <3>. QED BY <3>3, <3>4, <3>5, <3>6 DEF CallStage
  <2>. QED BY <1>16, <2>1, <2>2 DEF A!TakeDown
<1>17. ASSUME A!Claim(c) PROVE StepFits(c)' /\ CallStage(c)'
  <2>c. \A s \in {0, Slots} : \A h \in A!Grants(c, call[c].want, s) : h \in A!Labels /\ h # NoHost
    BY <1>17, <1>c, GrantsFree DEF A!Claim, A!At
  <2>d. tenant[A!Me(c)].host \in A!Labels \cup {NoHost} /\ tenant[A!Me(c)].slot \in BOOLEAN
    BY <1>17, <1>c DEF RegistriesTyped, A!Boxes, A!Claim, A!At
  <2>e. hosts \in [Tenants -> A!Labels \cup {NoHost, Reserved}] /\ A!Me(c) \in Tenants
    BY <1>17, <1>c DEF RegistriesTyped, A!Claim, A!At
  <2>0. /\ StepFits(c) /\ OutOfTheWay(c) /\ GivesOwn(c) /\ InHand(c) /\ mode' = mode
        /\ call[c].kind \in {"none", "create", "delete", "recreate", "update"}
    BY RoutingStays DEF StepsFit, CallStages, CallStage, CallsTyped, CallRecords
  <2>1. CASE A!Done(c) BY <2>1, IdleFits
  <2>2. CASE \E h \in A!Labels \cup {NoHost}, s \in BOOLEAN, k \in BOOLEAN : A!Claimed(c, h, s, k)
               /\ ClaimOf(c, h, k)
    <3>0. A!Me(c) \in Tenants /\ A!At(c, "claim") BY <1>17, <2>0 DEF A!Claim, StepFits, A!At
    <3>h. PICK h \in A!Labels \cup {NoHost}, s \in BOOLEAN, k \in BOOLEAN : A!Claimed(c, h, s, k)
                 /\ ClaimOf(c, h, k)
      BY <2>2
    <3>b. tenant[A!Me(c)].port \in 0..Ports BY <3>0 DEF RegistriesTyped, A!Boxes
    <3>1. /\ KeepsName(c) /\ call'[c].host = h /\ call'[c].clear = k
          /\ call'[c].port = IF A!Routed \/ call[c].kind = "recreate" THEN 0
              ELSE tenant[A!Me(c)].port
          /\ call'[c].want = IF call[c].kind = "recreate" THEN h ELSE call[c].want
          /\ call'[c].step = IF call[c].kind = "recreate" THEN "forget" ELSE "take_down"
      BY <3>h, <3>b, ClaimedTyped
    <3>w. ~Waits(A!Me(c))
      <4>1. \A d \in Workers : ~A!At(d, "none") /\ A!Me(d) = A!Me(c) => d = c
        BY <3>0 DEF HoldsNames, A!At
      <4>. QED BY <4>1, <3>0 DEF Waits, A!At
    <3>v. A!Me(c) \notin bare /\ tenant[A!Me(c)].host # NoHost
            => hosts[A!Me(c)] = tenant[A!Me(c)].host
      BY <3>0, <3>w, <2>0 DEF HostsRegistered, OutOfTheWay
    <3>u. A!Me(c) \notin bare /\ tenant[A!Me(c)].port # 0 => ports[A!Me(c)] = tenant[A!Me(c)].port
      BY <3>0, <2>0 DEF PortsRegistered, OutOfTheWay
    <3>2. /\ UNCHANGED <<ports, tenant, bare>> /\ A!At(c, "claim") /\ (k => h = NoHost)
          /\ (A!Me(c) \notin bare /\ h # NoHost => hosts'[A!Me(c)] = h)
          /\ (hosts[A!Me(c)] # NoHost => hosts'[A!Me(c)] # NoHost)
      <4>1. UNCHANGED <<ports, tenant, bare>> BY <1>17 DEF A!Claim
      <4>2. CASE h # NoHost /\ hosts' = [hosts EXCEPT ![A!Me(c)] = h]
        BY <4>1, <4>2, <3>0, <3>h DEF ClaimOf, RegistriesTyped
      <4>3. CASE hosts' = hosts /\ h \in {NoHost, tenant[A!Me(c)].host}
        BY <4>1, <4>3, <3>0, <3>h, <3>v DEF ClaimOf
      <4>. QED BY <4>2, <4>3, <3>h DEF ClaimOf
    <3>x. A!Me(c) \notin bare /\ call'[c].port # 0 => ports[A!Me(c)] = call'[c].port BY <3>1, <3>u
    <3>. USE DEF A!At, Builds, Updates, A!Me, KeepsName, KeepsWork, StepFits
    <3>3. StepFits(c)' BY <3>1, <3>2, <2>0 DEF OutOfTheWay
    <3>4. OutOfTheWay(c)' BY <3>1, <3>2, <2>0 DEF OutOfTheWay
    <3>5. GivesOwn(c)' BY <3>1, <3>2, <3>x, <2>0 DEF GivesOwn, Gives, InHand
    <3>6. InHand(c)' BY <3>1, <3>2, <2>0 DEF InHand, A!Routed
    <3>. QED BY <3>3, <3>4, <3>5, <3>6 DEF CallStage
  <2>. QED BY <1>17, <2>c, <2>d, <2>e, <2>1, <2>2 DEF A!Claim, ClaimOf
<1>18. ASSUME A!RemoveOld(c) PROVE StepFits(c)' /\ CallStage(c)'
  <2>0. /\ StepFits(c) /\ OutOfTheWay(c) /\ GivesOwn(c) /\ InHand(c) /\ mode' = mode
        /\ call[c].kind \in {"none", "create", "delete", "recreate", "update"}
    BY RoutingStays DEF StepsFit, CallStages, CallStage, CallsTyped, CallRecords
  <2>1. CASE A!Go(c, "settle") /\ call[c].to = A!Me(c)
    <3>1. call'[c].step = "settle" /\ KeepsName(c) /\ KeepsWork(c) BY <1>0, <2>1, GoTyped
    <3>2. UNCHANGED <<ports, hosts>> /\ (tenant'[A!Me(c)].here => A!Me(c) \in bare')
            /\ call[c].kind = "update"
          /\ bare \subseteq bare'
              /\ (call[c].to # A!Me(c) => tenant'[call[c].to] = tenant[call[c].to])
                  /\ A!At(c, "take_down")
      BY <2>1, <1>18, <2>0, <1>b DEF A!RemoveOld, A!At, StepFits, RegistriesTyped, A!Me, A!NoBox
    <3>. USE DEF A!At, Builds, Updates, A!Me, KeepsName, KeepsWork, StepFits
    <3>3. StepFits(c)' BY <3>1, <3>2, <2>0, <2>1 DEF OutOfTheWay
    <3>4. OutOfTheWay(c)' BY <3>1, <3>2, <2>0, <2>1 DEF OutOfTheWay
    <3>5. GivesOwn(c)' BY <3>1, <3>2, <2>0, <2>1 DEF GivesOwn, Gives, InHand
    <3>6. InHand(c)' BY <3>1, <3>2, <2>0, <2>1 DEF InHand, A!Routed
    <3>. QED BY <3>3, <3>4, <3>5, <3>6 DEF CallStage
  <2>2. CASE A!Go(c, "move") /\ call[c].to # A!Me(c)
    <3>1. call'[c].step = "move" /\ KeepsName(c) /\ KeepsWork(c) BY <1>0, <2>2, GoTyped
    <3>2. UNCHANGED <<ports, hosts>> /\ (tenant'[A!Me(c)].here => A!Me(c) \in bare')
            /\ call[c].kind = "update"
          /\ bare \subseteq bare'
              /\ (call[c].to # A!Me(c) => tenant'[call[c].to] = tenant[call[c].to])
                  /\ A!At(c, "take_down")
      BY <2>2, <1>18, <2>0, <1>b DEF A!RemoveOld, A!At, StepFits, RegistriesTyped, A!Me, A!NoBox
    <3>. USE DEF A!At, Builds, Updates, A!Me, KeepsName, KeepsWork, StepFits
    <3>3. StepFits(c)' BY <3>1, <3>2, <2>0, <2>2 DEF OutOfTheWay
    <3>4. OutOfTheWay(c)' BY <3>1, <3>2, <2>0, <2>2 DEF OutOfTheWay
    <3>5. GivesOwn(c)' BY <3>1, <3>2, <2>0, <2>2 DEF GivesOwn, Gives, InHand
    <3>6. InHand(c)' BY <3>1, <3>2, <2>0, <2>2 DEF InHand, A!Routed
    <3>. QED BY <3>3, <3>4, <3>5, <3>6 DEF CallStage
  <2>. QED BY <1>18, <2>1, <2>2 DEF A!RemoveOld
<1>19. ASSUME A!Move(c) PROVE StepFits(c)' /\ CallStage(c)'
  <2>0. /\ StepFits(c) /\ OutOfTheWay(c) /\ GivesOwn(c) /\ InHand(c) /\ mode' = mode
        /\ call[c].kind \in {"none", "create", "delete", "recreate", "update"}
    BY RoutingStays DEF StepsFit, CallStages, CallStage, CallsTyped, CallRecords
  <2>1. CASE A!Done(c) BY <2>1, IdleFits
  <2>2. CASE /\ ports' = A!Moved(ports, A!Me(c), call[c].to, 0)
                 /\ hosts' = A!Moved(hosts, A!Me(c), call[c].to, NoHost)
          /\ bare' = (IF A!Me(c) \in bare THEN bare \cup {call[c].to} ELSE bare)
          /\ call' = [call EXCEPT ![c].env = call[c].to, ![c].step = "settle"] /\ lease' = lease
    <3>0. A!At(c, "move") /\ A!Me(c) \in Tenants /\ call[c].to \in Tenants /\ call[c].to # A!Me(c)
            /\ Updates(c)
      BY <1>19, <2>0 DEF A!Move, StepFits, A!At
    <3>1. /\ call'[c].step = "settle" /\ call'[c].env = call[c].to /\ call'[c].to = call[c].to
          /\ call'[c].kind = call[c].kind /\ KeepsWork(c)
      BY <1>0, <2>2, <3>0, MovedTyped
    <3>a. ports'[call[c].to] = (IF ports[A!Me(c)] = 0 THEN ports[call[c].to] ELSE ports[A!Me(c)])
      BY <2>2, <3>0 DEF A!Moved, RegistriesTyped
    <3>c. hosts'[call[c].to] = (IF hosts[A!Me(c)] = NoHost THEN hosts[call[c].to]
            ELSE hosts[A!Me(c)])
      BY <2>2, <3>0 DEF A!Moved, RegistriesTyped
    <3>2. /\ tenant' = tenant /\ (call[c].to \notin bare' => A!Me(c) \notin bare)
              /\ ~tenant[call[c].to].here
      BY <2>2, <1>19, <2>0, <3>0 DEF A!Move, OutOfTheWay
    <3>. USE DEF A!At, Builds, Updates, A!Me, KeepsName, KeepsWork, StepFits
    <3>3. StepFits(c)' BY <3>0, <3>1, <3>2, <2>0, <2>2 DEF OutOfTheWay
    <3>4. OutOfTheWay(c)' BY <3>0, <3>1, <3>2, <2>0, <2>2 DEF OutOfTheWay
    <3>5. GivesOwn(c)' BY <3>0, <3>a, <3>c, <3>1, <3>2, <2>0, <2>2 DEF GivesOwn, Gives, InHand
    <3>6. InHand(c)' BY <3>0, <3>1, <3>2, <2>0, <2>2 DEF InHand, A!Routed
    <3>. QED BY <3>3, <3>4, <3>5, <3>6 DEF CallStage
  <2>. QED BY <1>19, <2>1, <2>2 DEF A!Move
<1>20. ASSUME A!Settle(c) PROVE StepFits(c)' /\ CallStage(c)'
  <2>0. /\ StepFits(c) /\ OutOfTheWay(c) /\ GivesOwn(c) /\ InHand(c) /\ mode' = mode
        /\ call[c].kind \in {"none", "create", "delete", "recreate", "update"}
    BY RoutingStays DEF StepsFit, CallStages, CallStage, CallsTyped, CallRecords
  <2>1. CASE A!Done(c) BY <2>1, IdleFits
  <2>2. CASE A!Go(c, "run") /\ A!Routed
    <3>1. call'[c].step = "run" /\ KeepsName(c) /\ KeepsWork(c) BY <1>0, <2>2, GoTyped
    <3>2. Updates(c) /\ UNCHANGED <<hosts, tenant, bare>> /\ A!At(c, "settle")
      BY <2>2, <1>20, <2>0, <1>b DEF A!Settle, A!At, StepFits, RegistriesTyped, A!Me, Updates
    <3>. USE DEF A!At, Builds, Updates, A!Me, KeepsName, KeepsWork, StepFits
    <3>3. StepFits(c)' BY <3>1, <3>2, <2>0, <2>2 DEF OutOfTheWay
    <3>4. OutOfTheWay(c)' BY <3>1, <3>2, <2>0, <2>2 DEF OutOfTheWay
    <3>5. GivesOwn(c)' BY <3>1, <3>2, <2>0, <2>2 DEF GivesOwn, Gives, InHand
    <3>6. InHand(c)' BY <3>1, <3>2, <2>0, <2>2 DEF InHand, A!Routed
    <3>. QED BY <3>3, <3>4, <3>5, <3>6 DEF CallStage
  <2>3. CASE A!Go(c, "run") /\ ~A!Routed /\ call[c].port # 0
    <3>1. call'[c].step = "run" /\ KeepsName(c) /\ KeepsWork(c) BY <1>0, <2>3, GoTyped
    <3>2. Updates(c) /\ UNCHANGED <<ports, hosts, tenant, bare>> /\ A!At(c, "settle")
      BY <2>3, <1>20, <2>0, <1>b DEF A!Settle, A!At, StepFits, RegistriesTyped, A!Me, Updates,
         InHand
    <3>. USE DEF A!At, Builds, Updates, A!Me, KeepsName, KeepsWork, StepFits
    <3>3. StepFits(c)' BY <3>1, <3>2, <2>0, <2>3 DEF OutOfTheWay
    <3>4. OutOfTheWay(c)' BY <3>1, <3>2, <2>0, <2>3 DEF OutOfTheWay
    <3>5. GivesOwn(c)' BY <3>1, <3>2, <2>0, <2>3 DEF GivesOwn, Gives, InHand
    <3>6. InHand(c)' BY <3>1, <3>2, <2>0, <2>3 DEF InHand, A!Routed
    <3>. QED BY <3>3, <3>4, <3>5, <3>6 DEF CallStage
  <2>4. CASE A!Go(c, "look") /\ ~A!Routed /\ call[c].port = 0
    <3>1. call'[c].step = "look" /\ KeepsName(c) /\ KeepsWork(c) BY <1>0, <2>4, GoTyped
    <3>2. Updates(c) /\ UNCHANGED <<ports, hosts, tenant, bare>> /\ A!At(c, "settle")
      BY <2>4, <1>20, <2>0, <1>b DEF A!Settle, A!At, StepFits, RegistriesTyped, A!Me, Updates,
         InHand
    <3>. USE DEF A!At, Builds, Updates, A!Me, KeepsName, KeepsWork, StepFits
    <3>3. StepFits(c)' BY <3>1, <3>2, <2>0, <2>4 DEF OutOfTheWay
    <3>4. OutOfTheWay(c)' BY <3>1, <3>2, <2>0, <2>4 DEF OutOfTheWay
    <3>5. GivesOwn(c)' BY <3>1, <3>2, <2>0, <2>4 DEF GivesOwn, Gives, InHand
    <3>6. InHand(c)' BY <3>1, <3>2, <2>0, <2>4 DEF InHand, A!Routed
    <3>. QED BY <3>3, <3>4, <3>5, <3>6 DEF CallStage
  <2>. QED BY <1>20, <2>1, <2>2, <2>3, <2>4 DEF A!Settle
<1>21. ASSUME A!RunAgain(c) PROVE StepFits(c)' /\ CallStage(c)'
  <2>0. /\ StepFits(c) /\ OutOfTheWay(c) /\ GivesOwn(c) /\ InHand(c) /\ mode' = mode
        /\ call[c].kind \in {"none", "create", "delete", "recreate", "update"}
    BY RoutingStays DEF StepsFit, CallStages, CallStage, CallsTyped, CallRecords
  <2>1. CASE A!Done(c) BY <2>1, IdleFits
  <2>2. CASE A!Go(c, "clear") /\ call[c].clear /\ tenant' = A!Ran(c)
    <3>1. call'[c].step = "clear" /\ KeepsName(c) /\ KeepsWork(c) BY <1>0, <2>2, GoTyped
    <3>2. tenant'[A!Me(c)].host = call[c].host /\ call[c].kind = "update"
            /\ UNCHANGED <<hosts, bare>>
                /\ (call[c].to # A!Me(c) => tenant'[call[c].to] = tenant[call[c].to])
                    /\ A!At(c, "run")
      <4>1. A!At(c, "run") /\ call[c].kind = "update" /\ UNCHANGED <<hosts, bare>>
        BY <1>21 DEF A!RunAgain
      <4>2. A!Me(c) \in Tenants /\ call[c].to \in Tenants BY <2>0, <4>1 DEF StepFits, A!At
      <4>3. tenant' = A!Ran(c) BY <2>2
      <4>4. tenant'[A!Me(c)].host = call[c].host
              /\ (call[c].to # A!Me(c) => tenant'[call[c].to] = tenant[call[c].to])
        BY <4>2, <4>3 DEF A!Ran, RegistriesTyped
      <4>. QED BY <4>1, <4>4
    <3>. USE DEF A!At, Builds, Updates, A!Me, KeepsName, KeepsWork, StepFits
    <3>3. StepFits(c)' BY <3>1, <3>2, <2>0, <2>2 DEF OutOfTheWay
    <3>4. OutOfTheWay(c)' BY <3>1, <3>2, <2>0, <2>2 DEF OutOfTheWay, InHand
    <3>5. GivesOwn(c)' BY <3>1, <3>2, <2>0, <2>2 DEF GivesOwn, Gives, InHand
    <3>6. InHand(c)' BY <3>1, <3>2, <2>0, <2>2 DEF InHand, A!Routed
    <3>. QED BY <3>3, <3>4, <3>5, <3>6 DEF CallStage
  <2>. QED BY <1>21, <2>1, <2>2 DEF A!RunAgain
<1>22. ASSUME A!ClearHostname(c) PROVE StepFits(c)' /\ CallStage(c)'
  <2>0. /\ StepFits(c) /\ OutOfTheWay(c) /\ GivesOwn(c) /\ InHand(c) /\ mode' = mode
        /\ call[c].kind \in {"none", "create", "delete", "recreate", "update"}
    BY RoutingStays DEF StepsFit, CallStages, CallStage, CallsTyped, CallRecords
  <2>1. CASE A!Done(c) BY <2>1, IdleFits
  <2>. QED BY <1>22, <2>1 DEF A!ClearHostname
<1>. QED
  BY <1>1, <1>2, <1>3, <1>4, <1>5, <1>6, <1>7, <1>8, <1>9, <1>10, <1>11,
     <1>12, <1>13, <1>14, <1>15, <1>16, <1>17, <1>18, <1>19, <1>20, <1>21,
     <1>22
    DEF Acts

(* A step leaves a container's address as it was, or runs it with what is in hand.*)
LEMMA BoxesChange ==
    ASSUME NEW c \in Workers, CallsTyped, RegistriesTyped, StepsFit, NEW m \in Tenants, Acts(c)
    PROVE  BoxStep(c, m)
<1> USE TenantsConstants DEF BoxStep, SameAddress, RunsBox, Shown,
        RegistriesTyped, A!NoBox, A!Me, A!Ran, StepsFit, StepFits, A!At
<1>1. CASE
     \/ \E n \in Tenants : A!BeginDelete(c, n) \/ A!BeginRecreate(c, n)
     \/ \E n \in Tenants, want \in A!Labels \cup {NoHost} :
          A!BeginCreate(c, n, want)
     \/ \E n \in Tenants, to \in Tenants, want \in A!Labels \cup {NoHost} :
          A!BeginUpdate(c, n, to, want)
     \/ A!See(c) \/ A!Reserve(c) \/ A!Assign(c)
  <2>1. UNCHANGED <<tenant, bare>>
    BY <1>1 DEF A!BeginDelete, A!BeginRecreate, A!BeginCreate, A!BeginUpdate, A!See,
        A!Reserve, A!Assign
  <2>. QED BY <2>1
<1>2. CASE
     \/ A!Prepare(c) \/ A!Look(c) \/ A!Configure(c) \/ A!ReleaseSlot(c) \/ A!Claim(c)
          \/ A!Settle(c) \/ A!ClearHostname(c)
  <2>1. UNCHANGED <<tenant, bare>>
    BY <1>2 DEF A!Prepare, A!Look, A!Configure, A!ReleaseSlot, A!Claim, A!Settle,
        A!ClearHostname
  <2>. QED BY <2>1
<1>3. CASE A!AllocatePort(c)
  BY <1>3 DEF A!AllocatePort
<1>4. CASE A!RunNew(c)
  BY <1>4 DEF A!RunNew
<1>5. CASE A!RollBack(c)
  BY <1>5 DEF A!RollBack, A!Routed
<1>6. CASE A!Forget(c)
  BY <1>6 DEF A!Forget, A!Routed
<1>7. CASE A!TakeDown(c)
  <2>1. CASE tenant' = [tenant EXCEPT ![A!Me(c)] = A!NoBox] /\ bare' = bare \ {A!Me(c)} BY <2>1
  <2>2. CASE bare' = bare
               /\ \E runs \in {FALSE, tenant[A!Me(c)].up} : tenant'
                   = [tenant EXCEPT ![A!Me(c)].up = runs]
    BY <2>2
  <2>. QED BY <1>7, <2>1, <2>2 DEF A!TakeDown
<1>8. CASE A!RemoveOld(c)
  BY <1>8 DEF A!RemoveOld
<1>9. CASE A!Move(c)
  BY <1>9 DEF A!Move
<1>10. CASE A!RunAgain(c)
  BY <1>10 DEF A!RunAgain
<1>. QED
  BY <1>1, <1>2, <1>3, <1>4, <1>5, <1>6, <1>7, <1>8, <1>9, <1>10
    DEF Acts

(* No step takes the registered port of a container that is there.           *)
LEMMA PortsKept ==
    ASSUME NEW c \in Workers, CallsTyped, RegistriesTyped, StepsFit, CallStages, NEW m \in Tenants,
           Acts(c)
    PROVE  Shown(m)' => ports'[m] = ports[m]
<1> USE TenantsConstants DEF Shown, RegistriesTyped, A!NoBox, A!Me, StepsFit,
        StepFits, A!At, CallStages, CallStage, OutOfTheWay, Builds, Updates
<1>1. CASE
     \/ \E n \in Tenants : A!BeginDelete(c, n) \/ A!BeginRecreate(c, n)
     \/ \E n \in Tenants, want \in A!Labels \cup {NoHost} :
          A!BeginCreate(c, n, want)
     \/ \E n \in Tenants, to \in Tenants, want \in A!Labels \cup {NoHost} :
          A!BeginUpdate(c, n, to, want)
     \/ A!See(c) \/ A!Reserve(c) \/ A!Assign(c)
  <2>1. UNCHANGED ports
    BY <1>1 DEF A!BeginDelete, A!BeginRecreate, A!BeginCreate, A!BeginUpdate, A!See,
        A!Reserve, A!Assign
  <2>. QED BY <2>1
<1>2. CASE
     \/ A!Prepare(c) \/ A!Look(c) \/ A!RunNew(c) \/ A!Configure(c) \/ A!ReleaseSlot(c)
          \/ A!TakeDown(c) \/ A!Claim(c)
  <2>1. UNCHANGED ports
    BY <1>2 DEF A!Prepare, A!Look, A!RunNew, A!Configure, A!ReleaseSlot, A!TakeDown, A!Claim
  <2>. QED BY <2>1
<1>3. CASE
     \/ A!RemoveOld(c) \/ A!ClearHostname(c)
  <2>1. UNCHANGED ports
    BY <1>3 DEF A!RemoveOld, A!ClearHostname
  <2>. QED BY <2>1
<1>4. CASE A!AllocatePort(c)
  <2>1. A!Me(c) \in Tenants /\ tenant' = tenant /\ call[c].kind # "delete" /\ call[c].step = "port"
    BY <1>4 DEF A!AllocatePort
  <2>2. call[c].kind \in {"none", "create", "delete", "recreate", "update"}
    BY DEF CallsTyped, CallRecords
  <2>3. ~tenant[A!Me(c)].here \/ A!Me(c) \in bare BY <2>1, <2>2
  <2>4. CASE ports' = ports BY <2>4
  <2>5. ASSUME NEW p, ports' = [ports EXCEPT ![A!Me(c)] = p], bare' = bare
        PROVE  Shown(m)' => ports'[m] = ports[m]
    BY <2>1, <2>3, <2>5
  <2>. QED BY <1>4, <2>4, <2>5 DEF A!AllocatePort
<1>5. CASE A!RollBack(c)
  BY <1>5 DEF A!RollBack, A!Routed
<1>6. CASE A!Forget(c)
  BY <1>6 DEF A!Forget, A!Routed
<1>7. CASE A!Move(c)
  BY <1>7 DEF A!Move, A!Moved
<1>8. CASE A!Settle(c)
  BY <1>8 DEF A!Settle, A!Routed
<1>9. CASE A!RunAgain(c)
  BY <1>9 DEF A!RunAgain, A!Ran
<1>. QED
  BY <1>1, <1>2, <1>3, <1>4, <1>5, <1>6, <1>7, <1>8, <1>9
    DEF Acts

(* Nor its hostname, but for one that was asked for and waits for its container.*)
LEMMA HostsKept ==
    ASSUME NEW c \in Workers, CallsTyped, RegistriesTyped, StepsFit, CallStages, NEW m \in Tenants,
           Acts(c)
    PROVE  Shown(m)' => HostKept(m)
<1> USE TenantsConstants DEF HostKept, Shown, RegistriesTyped, A!NoBox, A!Me,
        StepsFit, StepFits, A!At, CallStages, CallStage, OutOfTheWay, Builds,
        Updates
<1>m. mode' = mode BY RoutingStays
<1>b. NoHost # Reserved BY DEF A!AddrConstants
<1>1. CASE
     \/ \E n \in Tenants : A!BeginDelete(c, n) \/ A!BeginRecreate(c, n)
     \/ \E n \in Tenants, want \in A!Labels \cup {NoHost} :
          A!BeginCreate(c, n, want)
     \/ \E n \in Tenants, to \in Tenants, want \in A!Labels \cup {NoHost} :
          A!BeginUpdate(c, n, to, want)
     \/ A!See(c) \/ A!Prepare(c) \/ A!Look(c)
  <2>1. UNCHANGED hosts
    BY <1>1 DEF A!BeginDelete, A!BeginRecreate, A!BeginCreate, A!BeginUpdate, A!See,
        A!Prepare, A!Look
  <2>. QED BY <2>1
<1>2. CASE
     \/ A!AllocatePort(c) \/ A!RunNew(c) \/ A!Configure(c) \/ A!RollBack(c)
          \/ A!TakeDown(c) \/ A!RemoveOld(c) \/ A!Settle(c)
  <2>1. UNCHANGED hosts
    BY <1>2 DEF A!AllocatePort, A!RunNew, A!Configure, A!RollBack, A!TakeDown,
        A!RemoveOld, A!Settle
  <2>. QED BY <2>1
<1>3. CASE
     \/ A!RunAgain(c)
  <2>1. UNCHANGED hosts
    BY <1>3 DEF A!RunAgain
  <2>. QED BY <2>1
<1>4. CASE A!Reserve(c)
  BY <1>4 DEF A!Reserve
<1>5. CASE A!Assign(c)
  <2>1. A!Me(c) \in Tenants /\ tenant' = tenant /\ ~tenant[A!Me(c)].here BY <1>5 DEF A!Assign
  <2>2. \E h : hosts' = [hosts EXCEPT ![A!Me(c)] = h] BY <1>5 DEF A!Assign, A!Assigned
  <2>. QED BY <2>1, <2>2
<1>6. CASE A!ReleaseSlot(c)
  BY <1>6 DEF A!ReleaseSlot
<1>7. CASE A!Forget(c)
  BY <1>7 DEF A!Forget, A!Routed
<1>8. CASE A!Claim(c)
  <2>1. A!Me(c) \in Tenants /\ call[c].step = "claim" /\ tenant' = tenant
          /\ call[c].kind \in {"recreate", "update"}
    BY <1>8 DEF A!Claim
  <2>2. \A s \in {0, Slots} : \A h \in A!Grants(c, call[c].want, s) : h \in A!Labels /\ h # NoHost
    BY <2>1, GrantsFree
  <2>3. CASE hosts' = hosts BY <2>3
  <2>4. ASSUME NEW h \in A!Labels, NEW s \in BOOLEAN, h # NoHost,
               hosts' = [hosts EXCEPT ![A!Me(c)] = h],
               A!Claimed(c, h, s, FALSE), call[c].want # NoHost
                   \/ tenant[A!Me(c)].host = NoHost, m = A!Me(c)
        PROVE  HostKept(m)
    <3>1. CASE tenant[A!Me(c)].host = NoHost BY <2>1, <2>4, <3>1
    <3>2. CASE call[c].want # NoHost
      <4>1. call[c].kind = "update" /\ A!Routed BY <2>1, <3>2 DEF InHand
      <4>3. call'[c].kind = "update" /\ call'[c].env = call[c].env /\ call'[c].step = "take_down"
        BY <2>1, <2>4, <4>1, ClaimWaits
      <4>. QED BY <2>4, <4>1, <4>3, <1>m DEF Waits, A!Routed
    <3>. QED BY <2>4, <3>1, <3>2
  <2>5. hosts' = hosts \/ \E h \in A!Labels, s \in BOOLEAN :
          /\ h # NoHost /\ hosts' = [hosts EXCEPT ![A!Me(c)] = h] /\ A!Claimed(c, h, s, FALSE)
          /\ call[c].want # NoHost \/ tenant[A!Me(c)].host = NoHost
    BY <1>8, <2>2 DEF A!Claim
  <2>. QED BY <2>1, <2>3, <2>4, <2>5
<1>9. CASE A!Move(c)
  <2>1. /\ A!Me(c) \in Tenants /\ call[c].to \in Tenants /\ call[c].to # A!Me(c)
            /\ call[c].step = "move" /\ call[c].kind = "update"
        /\ tenant' = tenant
    BY <1>9 DEF A!Move
  <2>2. ~tenant[call[c].to].here /\ (tenant[A!Me(c)].here => A!Me(c) \in bare) BY <2>1
  <2>3. CASE hosts' = hosts BY <2>3
  <2>4. CASE hosts' = A!Moved(hosts, A!Me(c), call[c].to, NoHost) /\ bare \subseteq bare'
    BY <2>1, <2>2, <2>4 DEF A!Moved
  <2>. QED BY <1>9, <2>3, <2>4 DEF A!Move
<1>10. CASE A!ClearHostname(c)
  <2>1. A!Me(c) \in Tenants /\ tenant' = tenant /\ tenant[A!Me(c)].host = NoHost
    BY <1>10 DEF A!ClearHostname
  <2>2. hosts' = [hosts EXCEPT ![A!Me(c)] = Reserved] \/ hosts' = hosts BY <1>10 DEF A!ClearHostname
  <2>. QED BY <2>1, <2>2, <1>b
<1>. QED
  BY <1>1, <1>2, <1>3, <1>4, <1>5, <1>6, <1>7, <1>8, <1>9, <1>10
    DEF Acts

(* It waits until the container is gone.                                     *)
LEMMA WaitsLast ==
    ASSUME NEW c \in Workers, CallsTyped, RegistriesTyped, StepsFit, NEW m \in Tenants, Waits(m),
           Acts(c)
    PROVE  Shown(m)' => Waits(m)'
<1> USE TenantsConstants DEF Shown, RegistriesTyped, A!NoBox, A!Me, A!At, Updates
<1>m. mode' = mode /\ \A d \in Workers \ {c} : call'[d] = call[d]
  BY RoutingStays, CallsStayTyped DEF CallStep
<1>w. PICK d \in Workers : A!Me(d) = m /\ A!At(d, "take_down") /\ Updates(d) /\ A!Routed
  BY DEF Waits
<1>d. CASE d # c BY <1>m, <1>w, <1>d DEF Waits, A!Me, A!At, Updates, A!Routed
<1>s. SUFFICES ASSUME d = c PROVE Shown(m)' => Waits(m)' BY <1>d
<1>1. ASSUME NEW n \in Tenants, A!BeginDelete(c, n) PROVE Shown(m)' => Waits(m)'
  BY <1>1, <1>w, <1>s DEF A!BeginDelete, A!Begin
<1>2. ASSUME NEW n \in Tenants, A!BeginRecreate(c, n) PROVE Shown(m)' => Waits(m)'
  BY <1>2, <1>w, <1>s DEF A!BeginRecreate, A!Begin
<1>3. ASSUME NEW n \in Tenants, NEW want \in A!Labels \cup {NoHost}, A!BeginCreate(c, n, want)
      PROVE  Shown(m)' => Waits(m)'
  BY <1>3, <1>w, <1>s DEF A!BeginCreate, A!Routed, A!Begin
<1>4. ASSUME NEW n \in Tenants, NEW to \in Tenants, NEW want \in A!Labels \cup {NoHost},
             A!BeginUpdate(c, n, to, want)
      PROVE  Shown(m)' => Waits(m)'
  BY <1>4, <1>w, <1>s DEF A!BeginUpdate, A!Routed, A!Begin
<1>5. CASE A!See(c)
  BY <1>5, <1>w, <1>s DEF A!See, A!Routed
<1>6. CASE A!Reserve(c)
  BY <1>6, <1>w, <1>s DEF A!Reserve
<1>7. CASE A!Assign(c)
  BY <1>7, <1>w, <1>s DEF A!Assign
<1>8. CASE A!Prepare(c)
  BY <1>8, <1>w, <1>s DEF A!Prepare, A!Routed
<1>9. CASE A!Look(c)
  BY <1>9, <1>w, <1>s DEF A!Look
<1>10. CASE A!AllocatePort(c)
  BY <1>10, <1>w, <1>s DEF A!AllocatePort
<1>11. CASE A!RunNew(c)
  BY <1>11, <1>w, <1>s DEF A!RunNew, A!Ran
<1>12. CASE A!Configure(c)
  BY <1>12, <1>w, <1>s DEF A!Configure
<1>13. CASE A!RollBack(c)
  BY <1>13, <1>w, <1>s DEF A!RollBack, A!Routed
<1>14. CASE A!ReleaseSlot(c)
  BY <1>14, <1>w, <1>s DEF A!ReleaseSlot
<1>15. CASE A!Forget(c)
  BY <1>15, <1>w, <1>s DEF A!Forget, A!Routed
<1>16. CASE A!TakeDown(c)
  BY <1>16, <1>w, <1>s DEF A!TakeDown
<1>17. CASE A!Claim(c)
  BY <1>17, <1>w, <1>s DEF A!Claim, A!Routed
<1>18. CASE A!RemoveOld(c)
  BY <1>18, <1>w, <1>s DEF A!RemoveOld
<1>19. CASE A!Move(c)
  BY <1>19, <1>w, <1>s DEF A!Move, A!Moved
<1>20. CASE A!Settle(c)
  BY <1>20, <1>w, <1>s DEF A!Settle, A!Routed
<1>21. CASE A!RunAgain(c)
  BY <1>21, <1>w, <1>s DEF A!RunAgain, A!Ran
<1>22. CASE A!ClearHostname(c)
  BY <1>22, <1>w, <1>s DEF A!ClearHostname
<1>. QED
  BY <1>1, <1>2, <1>3, <1>4, <1>5, <1>6, <1>7, <1>8, <1>9, <1>10, <1>11,
     <1>12, <1>13, <1>14, <1>15, <1>16, <1>17, <1>18, <1>19, <1>20, <1>21,
     <1>22
    DEF Acts

(* No two names get one port.                                                *)
LEMMA OnePortStays ==
    ASSUME NEW c \in Workers, CallsTyped, RegistriesTyped, StepsFit, OnePortEach, Acts(c)
    PROVE  OnePortEach'
<1> USE TenantsConstants DEF OnePortEach, RegistriesTyped, A!Me, StepsFit,
        StepFits, A!At
<1>1. CASE
     \/ \E n \in Tenants : A!BeginDelete(c, n) \/ A!BeginRecreate(c, n)
     \/ \E n \in Tenants, want \in A!Labels \cup {NoHost} :
          A!BeginCreate(c, n, want)
     \/ \E n \in Tenants, to \in Tenants, want \in A!Labels \cup {NoHost} :
          A!BeginUpdate(c, n, to, want)
     \/ A!See(c) \/ A!Reserve(c) \/ A!Assign(c)
  <2>1. UNCHANGED ports
    BY <1>1 DEF A!BeginDelete, A!BeginRecreate, A!BeginCreate, A!BeginUpdate, A!See,
        A!Reserve, A!Assign
  <2>. QED BY <2>1
<1>2. CASE
     \/ A!Prepare(c) \/ A!Look(c) \/ A!RunNew(c) \/ A!Configure(c) \/ A!ReleaseSlot(c)
          \/ A!TakeDown(c) \/ A!Claim(c)
  <2>1. UNCHANGED ports
    BY <1>2 DEF A!Prepare, A!Look, A!RunNew, A!Configure, A!ReleaseSlot, A!TakeDown, A!Claim
  <2>. QED BY <2>1
<1>3. CASE
     \/ A!RemoveOld(c) \/ A!ClearHostname(c)
  <2>1. UNCHANGED ports
    BY <1>3 DEF A!RemoveOld, A!ClearHostname
  <2>. QED BY <2>1
<1>4. CASE A!AllocatePort(c)
  <2>1. A!Me(c) \in Tenants /\ call[c].used \subseteq A!Labels \cup 1..Ports
    BY <1>4 DEF A!AllocatePort, CallsTyped, CallRecords
  <2>2. CASE ports' = ports BY <2>2
  <2>3. ASSUME NEW p, p = ports[A!Me(c)] \/ p \notin A!PortsTaken(c),
               ports' = [ports EXCEPT ![A!Me(c)] = p]
        PROVE  OnePortEach'
    BY <2>1, <2>3 DEF A!PortsTaken
  <2>. QED BY <1>4, <2>2, <2>3 DEF A!AllocatePort
<1>5. CASE A!RollBack(c)
  BY <1>5 DEF A!RollBack, A!Routed
<1>6. CASE A!Forget(c)
  BY <1>6 DEF A!Forget, A!Routed
<1>7. CASE A!Move(c)
  BY <1>7 DEF A!Move, A!Moved
<1>8. CASE A!Settle(c)
  BY <1>8 DEF A!Settle, A!Routed
<1>9. CASE A!RunAgain(c)
  BY <1>9 DEF A!RunAgain
<1>. QED
  BY <1>1, <1>2, <1>3, <1>4, <1>5, <1>6, <1>7, <1>8, <1>9
    DEF Acts

(* Nor one hostname.                                                         *)
LEMMA OneHostStays ==
    ASSUME NEW c \in Workers, CallsTyped, RegistriesTyped, StepsFit, OneHostEach, Acts(c)
    PROVE  OneHostEach'
<1> USE TenantsConstants DEF OneHostEach, RegistriesTyped, A!Me, StepsFit,
        StepFits, A!At
<1>b. NoHost \notin A!Labels /\ Reserved \notin A!Labels BY DEF A!AddrConstants, A!Labels
<1>1. CASE
     \/ \E n \in Tenants : A!BeginDelete(c, n) \/ A!BeginRecreate(c, n)
     \/ \E n \in Tenants, want \in A!Labels \cup {NoHost} :
          A!BeginCreate(c, n, want)
     \/ \E n \in Tenants, to \in Tenants, want \in A!Labels \cup {NoHost} :
          A!BeginUpdate(c, n, to, want)
     \/ A!See(c) \/ A!Prepare(c) \/ A!Look(c)
  <2>1. UNCHANGED hosts
    BY <1>1 DEF A!BeginDelete, A!BeginRecreate, A!BeginCreate, A!BeginUpdate, A!See,
        A!Prepare, A!Look
  <2>. QED BY <2>1, <1>b
<1>2. CASE
     \/ A!AllocatePort(c) \/ A!RunNew(c) \/ A!Configure(c) \/ A!RollBack(c)
          \/ A!TakeDown(c) \/ A!RemoveOld(c) \/ A!Settle(c)
  <2>1. UNCHANGED hosts
    BY <1>2 DEF A!AllocatePort, A!RunNew, A!Configure, A!RollBack, A!TakeDown,
        A!RemoveOld, A!Settle
  <2>. QED BY <2>1, <1>b
<1>3. CASE
     \/ A!RunAgain(c)
  <2>1. UNCHANGED hosts
    BY <1>3 DEF A!RunAgain
  <2>. QED BY <2>1, <1>b
<1>4. CASE A!Reserve(c)
  BY <1>4, <1>b DEF A!Reserve
<1>5. CASE A!Assign(c)
  <2>1. A!Me(c) \in Tenants /\ Slots \in {0, Slots} BY <1>5 DEF A!Assign
  <2>2. CASE hosts' = [hosts EXCEPT ![A!Me(c)] = NoHost] BY <2>1, <2>2, <1>b
  <2>3. ASSUME NEW h \in A!Grants(c, call[c].want, Slots), hosts' = [hosts EXCEPT ![A!Me(c)] = h]
        PROVE  OneHostEach'
    <3>1. \A k \in Tenants \ {A!Me(c)} : hosts[k] # h BY <2>1, GrantsFree
    <3>. QED BY <2>1, <2>3, <3>1
  <2>. QED BY <1>5, <2>2, <2>3 DEF A!Assign, A!Assigned
<1>6. CASE A!ReleaseSlot(c)
  BY <1>6, <1>b DEF A!ReleaseSlot
<1>7. CASE A!Forget(c)
  BY <1>7, <1>b DEF A!Forget, A!Routed
<1>8. CASE A!Claim(c)
  <2>1. A!Me(c) \in Tenants BY <1>8 DEF A!Claim
  <2>2. CASE hosts' = hosts BY <2>2
  <2>3. ASSUME NEW s \in {0, Slots}, NEW h \in A!Grants(c, call[c].want, s),
               hosts' = [hosts EXCEPT ![A!Me(c)] = h]
        PROVE  OneHostEach'
    <3>1. \A k \in Tenants \ {A!Me(c)} : hosts[k] # h BY <2>1, GrantsFree
    <3>. QED BY <2>1, <2>3, <3>1
  <2>. QED BY <1>8, <2>2, <2>3 DEF A!Claim
<1>9. CASE A!Move(c)
  <2>1. A!Me(c) \in Tenants /\ call[c].to \in Tenants /\ call[c].to # A!Me(c) BY <1>9 DEF A!Move
  <2>2. CASE hosts' = hosts BY <2>2
  <2>3. CASE hosts' = A!Moved(hosts, A!Me(c), call[c].to, NoHost) BY <2>1, <2>3, <1>b DEF A!Moved
  <2>. QED BY <1>9, <2>2, <2>3 DEF A!Move
<1>10. CASE A!ClearHostname(c)
  BY <1>10, <1>b DEF A!ClearHostname
<1>. QED
  BY <1>1, <1>2, <1>3, <1>4, <1>5, <1>6, <1>7, <1>8, <1>9, <1>10
    DEF Acts

(* Names take slots one at a time, and only while there is one.              *)
LEMMA HeldSteps ==
    ASSUME NEW c \in Workers, CallsTyped, RegistriesTyped, StepsFit, CallStages, SlotsTaken, Acts(c)
    PROVE  HeldStep(c)
<1> USE TenantsConstants DEF HeldStep, Held, RegistriesTyped, A!Me, StepsFit,
        StepFits, A!At, CallStages, CallStage, OutOfTheWay, GivesOwn,
        SlotsTaken, Builds, Updates
<1>b. NoHost # Reserved BY DEF A!AddrConstants
<1>1. CASE
     \/ \E n \in Tenants : A!BeginDelete(c, n) \/ A!BeginRecreate(c, n)
     \/ \E n \in Tenants, want \in A!Labels \cup {NoHost} :
          A!BeginCreate(c, n, want)
     \/ \E n \in Tenants, to \in Tenants, want \in A!Labels \cup {NoHost} :
          A!BeginUpdate(c, n, to, want)
     \/ A!See(c) \/ A!Prepare(c) \/ A!Look(c)
  <2>1. UNCHANGED <<hosts, bare>>
    BY <1>1 DEF A!BeginDelete, A!BeginRecreate, A!BeginCreate, A!BeginUpdate, A!See,
        A!Prepare, A!Look
  <2>. QED BY <2>1, <1>b
<1>2. CASE
     \/ A!RunNew(c) \/ A!Configure(c) \/ A!Settle(c) \/ A!RunAgain(c)
  <2>1. UNCHANGED <<hosts, bare>>
    BY <1>2 DEF A!RunNew, A!Configure, A!Settle, A!RunAgain
  <2>. QED BY <2>1, <1>b
<1>3. CASE A!Reserve(c)
  <2>1. A!Me(c) \in Tenants /\ bare' = bare BY <1>3 DEF A!Reserve
  <2>2. CASE hosts' = hosts BY <2>1, <2>2
  <2>3. CASE Cardinality(A!Occupied(c)) < Slots /\ hosts' = [hosts EXCEPT ![A!Me(c)] = Reserved]
    BY <2>1, <2>3 DEF A!Occupied, A!Registered
  <2>. QED BY <1>3, <2>2, <2>3, Counting DEF A!Reserve
<1>4. CASE A!Assign(c)
  <2>1. A!Me(c) \in Tenants /\ bare' = bare /\ hosts[A!Me(c)] # NoHost BY <1>4 DEF A!Assign
  <2>2. \E h : hosts' = [hosts EXCEPT ![A!Me(c)] = h] BY <1>4 DEF A!Assign, A!Assigned
  <2>. QED BY <2>1, <2>2
<1>5. CASE A!AllocatePort(c)
  BY <1>5, <1>b DEF A!AllocatePort
<1>6. CASE A!RollBack(c)
  BY <1>6, <1>b DEF A!RollBack, A!Routed
<1>7. CASE A!ReleaseSlot(c)
  BY <1>7, <1>b DEF A!ReleaseSlot
<1>8. CASE A!Forget(c)
  BY <1>8, <1>b DEF A!Forget, A!Routed
<1>9. CASE A!TakeDown(c)
  BY <1>9, <1>b DEF A!TakeDown
<1>10. CASE A!Claim(c)
  <2>1. A!Me(c) \in Tenants /\ bare' = bare /\ tenant[A!Me(c)].here BY <1>10 DEF A!Claim
  <2>2. A!Me(c) \notin bare => hosts[A!Me(c)] # NoHost BY <2>1
  <2>3. hosts' = hosts \/ \E h : hosts' = [hosts EXCEPT ![A!Me(c)] = h] BY <1>10 DEF A!Claim
  <2>. QED BY <2>1, <2>2, <2>3
<1>11. CASE A!RemoveOld(c)
  BY <1>11, <1>b DEF A!RemoveOld
<1>12. CASE A!Move(c)
  <2>1. A!Me(c) \in Tenants /\ call[c].to \in Tenants /\ call[c].to # A!Me(c)
          /\ call[c].step = "move" /\ call[c].kind = "update"
    BY <1>12 DEF A!Move
  <2>2. CASE hosts' = hosts /\ bare' = bare BY <2>2
  <2>3. CASE /\ hosts' = A!Moved(hosts, A!Me(c), call[c].to, NoHost)
             /\ bare' = (IF A!Me(c) \in bare THEN bare \cup {call[c].to} ELSE bare)
    <3>1. CASE hosts[A!Me(c)] = NoHost BY <2>1, <2>3, <3>1 DEF A!Moved
    <3>2. CASE A!Me(c) \in bare BY <2>1, <2>3, <3>2 DEF A!Moved
    <3>3. CASE hosts[A!Me(c)] # NoHost /\ A!Me(c) \notin bare
      <4>1. A!Me(c) \in Held BY <2>1, <3>3
      <4>2. Held' \subseteq (Held \ {A!Me(c)}) \cup {call[c].to} BY <2>1, <2>3, <3>3 DEF A!Moved
      <4>. QED BY <2>1, <4>1, <4>2
    <3>. QED BY <3>1, <3>2, <3>3
  <2>. QED BY <1>12, <2>2, <2>3 DEF A!Move
<1>13. CASE A!ClearHostname(c)
  BY <1>13, <1>b DEF A!ClearHostname
<1>. QED
  BY <1>1, <1>2, <1>3, <1>4, <1>5, <1>6, <1>7, <1>8, <1>9, <1>10, <1>11,
     <1>12, <1>13
    DEF Acts

(* A caller is sure of a hostname when it saw it on no other container.      *)
LEMMA SureSteps ==
    ASSUME NEW c \in Workers, CallsTyped, RegistriesTyped, StepsFit, CallStages, Acts(c)
    PROVE  SureStep(c)
<1> USE TenantsConstants DEF A!At
<1>k. CallKinds = {"create", "delete", "recreate", "update"} BY DEF CallKinds
<1>0. A!Steps = {"none", "see", "reserve", "assign", "prepare", "look", "port", "run", "configure",
               "rollback", "release", "claim", "forget", "take_down", "move", "settle", "clear"}
  BY DEF A!Steps
<1>e. ~A!At(c, "none") => A!Me(c) \in Tenants BY DEF StepsFit, StepFits
<1>i. A!Idle.step = "none" BY DEF A!Idle
<1>1. ASSUME NEW n \in Tenants, A!BeginDelete(c, n) PROVE SureStep(c)
  BY <1>1, <1>0, <1>k, BeginTyped DEF A!BeginDelete, Sure, SureStep
<1>2. ASSUME NEW n \in Tenants, A!BeginRecreate(c, n) PROVE SureStep(c)
  BY <1>2, <1>0, <1>k, BeginTyped DEF A!BeginRecreate, Sure, SureStep
<1>3. ASSUME NEW n \in Tenants, NEW want \in A!Labels \cup {NoHost}, A!BeginCreate(c, n, want)
      PROVE  SureStep(c)
  BY <1>3, <1>0, <1>k, BeginTyped DEF A!BeginCreate, Sure, SureStep
<1>4. ASSUME NEW n \in Tenants, NEW to \in Tenants, NEW want \in A!Labels \cup {NoHost},
             A!BeginUpdate(c, n, to, want)
      PROVE  SureStep(c)
  BY <1>4, <1>0, <1>k, BeginTyped DEF A!BeginUpdate, Sure, SureStep
<1>5. CASE A!See(c)
  <2>1. A!Me(c) \in Tenants BY <1>5, <1>e DEF A!See
  <2>2. ASSUME NEW s \in {"claim", "reserve"}, lease' = lease,
               call' = [call EXCEPT ![c].seen = A!Active(A!Me(c)),
                     ![c].used = A!UsedHosts(A!Me(c)), ![c].step = s]
        PROVE  SureStep(c)
    <3>1. call'[c].step = s BY <1>0, <2>1, <2>2, SeenTyped, UsedTyped
    <3>. QED BY <2>2, <3>1 DEF Sure, SureStep
  <2>. QED BY <1>5, <2>2, <1>i, DoneTyped DEF A!See, Sure, SureStep
<1>6. CASE A!Reserve(c)
  BY <1>6, <1>0, <1>i, GoTyped, DoneTyped DEF A!Reserve, Sure, SureStep
<1>7. CASE A!Assign(c)
  <2>1. A!Me(c) \in Tenants BY <1>7, <1>e DEF A!Assign
  <2>2. ASSUME NEW h \in A!Grants(c, call[c].want, Slots), NEW k \in BOOLEAN,
               A!Assigned(c, h, "prepare", k)
        PROVE  SureStep(c)
    <3>1. h \in A!Labels BY <2>1, GrantsFree
    <3>. QED BY <1>0, <2>2, <3>1, AssignedTyped DEF Sure, SureStep
  <2>3. (IF call[c].want = NoHost THEN TRUE ELSE call[c].slot) \in BOOLEAN
    BY DEF CallsTyped, CallRecords
  <2>. QED BY <1>7, <1>i, <2>2, <2>3, DoneTyped DEF A!Assign, Sure, SureStep
<1>8. CASE A!Prepare(c)
  <2>1. CASE A!Go(c, "release") BY <1>0, <2>1, GoTyped DEF Sure, SureStep
  <2>2. ASSUME NEW s \in {"run", "look"}, A!Go(c, s),
               call[c].host \notin A!UsedHosts(A!Me(c)) \/ ~A!Routed
        PROVE  SureStep(c)
    <3>1. KeepsName(c) /\ KeepsWork(c) BY <1>0, <2>2, GoTyped
    <3>2. ~A!Routed => call[c].host = NoHost BY <1>8 DEF A!Prepare, CallStages, CallStage, InHand
    <3>. QED BY <1>8, <2>2, <3>1, <3>2 DEF A!Prepare, Sure, SureStep, KeepsName, KeepsWork, A!Me
  <2>. QED BY <1>8, <2>1, <2>2 DEF A!Prepare
<1>9. CASE A!Look(c)
  <2>1. A!Me(c) \in Tenants BY <1>9, <1>e DEF A!Look
  <2>2. KeepsName(c) /\ KeepsWork(c) BY <1>9, <1>0, <2>1, UsedTyped, LookedTyped DEF A!Look
  <2>. QED BY <1>9, <2>1, <2>2 DEF A!Look, Sure, SureStep, KeepsName, KeepsWork, A!Me
<1>10. CASE A!AllocatePort(c)
  <2>1. A!Me(c) \in Tenants /\ ports[A!Me(c)] \in 0..Ports
    BY <1>10, <1>e DEF A!AllocatePort, RegistriesTyped
  <2>2. CASE A!Done(c) BY <1>i, <2>2, DoneTyped DEF Sure, SureStep
  <2>3. CASE A!Go(c, "release") BY <1>0, <2>3, GoTyped DEF Sure, SureStep
  <2>4. ASSUME NEW p \in 0..Ports, UNCHANGED <<lease, bare>>,
               call' = [call EXCEPT ![c].step = "run", ![c].port = p, ![c].fresh = TRUE]
        PROVE  SureStep(c)
    <3>1. KeepsName(c) /\ call'[c].host = call[c].host BY <1>0, <2>4, PortTyped
    <3>2. call[c].step = "port" /\ UNCHANGED <<hosts, tenant>> BY <1>10 DEF A!AllocatePort
    <3>. QED BY <2>4, <3>1, <3>2 DEF Sure, SureStep, KeepsName, A!Me
  <2>5. 1..Ports \subseteq 0..Ports BY DEF A!AddrConstants
  <2>. QED BY <1>10, <2>1, <2>2, <2>3, <2>4, <2>5 DEF A!AllocatePort
<1>11. CASE A!RunNew(c)
  BY <1>11, <1>0, <1>i, GoTyped, DoneTyped DEF A!RunNew, Sure, SureStep
<1>12. CASE A!Configure(c)
  BY <1>12, <1>0, <1>i, GoTyped, DoneTyped DEF A!Configure, Sure, SureStep
<1>13. CASE A!RollBack(c)
  BY <1>13, <1>0, <1>i, GoTyped, DoneTyped DEF A!RollBack, Sure, SureStep
<1>14. CASE A!ReleaseSlot(c)
  BY <1>14, <1>0, <1>i, GoTyped, DoneTyped DEF A!ReleaseSlot, Sure, SureStep
<1>15. CASE A!Forget(c)
  BY <1>15, <1>0, <1>i, GoTyped, DoneTyped DEF A!Forget, Sure, SureStep
<1>16. CASE A!TakeDown(c)
  BY <1>16, <1>0, <1>i, GoTyped, DoneTyped DEF A!TakeDown, Sure, SureStep
<1>17. CASE A!Claim(c)
  <2>1. A!Me(c) \in Tenants /\ tenant[A!Me(c)].port \in 0..Ports
    BY <1>17, <1>e DEF A!Claim, RegistriesTyped, A!Boxes
  <2>2. ASSUME NEW h \in A!Labels \cup {NoHost}, NEW s \in BOOLEAN, NEW k \in BOOLEAN,
               A!Claimed(c, h, s, k)
        PROVE  SureStep(c)
    BY <2>1, <2>2, ClaimedTyped DEF Sure, SureStep
  <2>3. tenant[A!Me(c)].host \in A!Labels \cup {NoHost} /\ tenant[A!Me(c)].slot \in BOOLEAN
    BY <2>1 DEF RegistriesTyped, A!Boxes
  <2>4. \A s \in {0, Slots} : A!Grants(c, call[c].want, s) \subseteq A!Labels BY <2>1, GrantsFree
  <2>5. CASE A!Done(c) BY <1>i, <2>5, DoneTyped DEF Sure, SureStep
  <2>. QED BY <1>17, <2>2, <2>3, <2>4, <2>5 DEF A!Claim
<1>18. CASE A!RemoveOld(c)
  BY <1>18, <1>0, <1>i, GoTyped, DoneTyped DEF A!RemoveOld, Sure, SureStep
<1>19. CASE A!Move(c)
  <2>1. call[c].to \in Tenants BY <1>19 DEF A!Move, StepsFit, StepFits
  <2>2. CASE A!Done(c) BY <1>i, <2>2, DoneTyped DEF Sure, SureStep
  <2>3. CASE call' = [call EXCEPT ![c].env = call[c].to, ![c].step = "settle"] /\ lease' = lease
    BY <1>0, <2>1, <2>3, MovedTyped DEF Sure, SureStep
  <2>. QED BY <1>19, <2>2, <2>3 DEF A!Move
<1>20. CASE A!Settle(c)
  <2>1. CASE A!Done(c) BY <1>i, <2>1, DoneTyped DEF Sure, SureStep
  <2>2. ASSUME NEW s \in {"run", "look"}, A!Go(c, s),
               call[c].host \notin A!UsedHosts(A!Me(c)) \/ ~A!Routed
        PROVE  SureStep(c)
    <3>1. KeepsName(c) /\ KeepsWork(c) BY <1>0, <2>2, GoTyped
    <3>2. Gives(c) BY <1>20, <1>e DEF A!Settle, Gives, StepsFit, StepFits
    <3>. QED BY <1>20, <2>2, <3>1, <3>2 DEF A!Settle, Sure, SureStep, KeepsName, KeepsWork, A!Me
  <2>. QED BY <1>20, <2>1, <2>2 DEF A!Settle
<1>21. CASE A!RunAgain(c)
  BY <1>21, <1>0, <1>i, GoTyped, DoneTyped DEF A!RunAgain, Sure, SureStep
<1>22. CASE A!ClearHostname(c)
  BY <1>22, <1>0, <1>i, GoTyped, DoneTyped DEF A!ClearHostname, Sure, SureStep
<1>. QED
  BY <1>1, <1>2, <1>3, <1>4, <1>5, <1>6, <1>7, <1>8, <1>9, <1>10, <1>11,
     <1>12, <1>13, <1>14, <1>15, <1>16, <1>17, <1>18, <1>19, <1>20, <1>21,
     <1>22
    DEF Acts

(* The counters stay within their bounds.                                    *)
LEMMA LimitsStay ==
    ASSUME NEW c \in Workers, LimitsTyped, Acts(c)
    PROVE  LimitsTyped'
<1> USE TenantsConstants DEF LimitsTyped, A!Works, A!Fails, A!Begins, A!AddrConstants
<1>1. ASSUME NEW n \in Tenants, A!BeginDelete(c, n) PROVE LimitsTyped'
  BY <1>1 DEF A!BeginDelete
<1>2. ASSUME NEW n \in Tenants, A!BeginRecreate(c, n) PROVE LimitsTyped'
  BY <1>2 DEF A!BeginRecreate
<1>3. ASSUME NEW n \in Tenants, NEW want \in A!Labels \cup {NoHost}, A!BeginCreate(c, n, want)
      PROVE  LimitsTyped'
  BY <1>3 DEF A!BeginCreate
<1>4. ASSUME NEW n \in Tenants, NEW to \in Tenants, NEW want \in A!Labels \cup {NoHost},
             A!BeginUpdate(c, n, to, want)
      PROVE  LimitsTyped'
  BY <1>4 DEF A!BeginUpdate
<1>5. CASE A!See(c)
  BY <1>5 DEF A!See
<1>6. CASE A!Reserve(c)
  BY <1>6 DEF A!Reserve
<1>7. CASE A!Assign(c)
  BY <1>7 DEF A!Assign
<1>8. CASE A!Prepare(c)
  BY <1>8 DEF A!Prepare
<1>9. CASE A!Look(c)
  BY <1>9 DEF A!Look
<1>10. CASE A!AllocatePort(c)
  BY <1>10 DEF A!AllocatePort
<1>11. CASE A!RunNew(c)
  BY <1>11 DEF A!RunNew
<1>12. CASE A!Configure(c)
  BY <1>12 DEF A!Configure
<1>13. CASE A!RollBack(c)
  BY <1>13 DEF A!RollBack
<1>14. CASE A!ReleaseSlot(c)
  BY <1>14 DEF A!ReleaseSlot
<1>15. CASE A!Forget(c)
  BY <1>15 DEF A!Forget
<1>16. CASE A!TakeDown(c)
  BY <1>16 DEF A!TakeDown
<1>17. CASE A!Claim(c)
  BY <1>17 DEF A!Claim
<1>18. CASE A!RemoveOld(c)
  BY <1>18 DEF A!RemoveOld
<1>19. CASE A!Move(c)
  BY <1>19 DEF A!Move
<1>20. CASE A!Settle(c)
  BY <1>20 DEF A!Settle
<1>21. CASE A!RunAgain(c)
  BY <1>21 DEF A!RunAgain
<1>22. CASE A!ClearHostname(c)
  BY <1>22 DEF A!ClearHostname
<1>. QED
  BY <1>1, <1>2, <1>3, <1>4, <1>5, <1>6, <1>7, <1>8, <1>9, <1>10, <1>11,
     <1>12, <1>13, <1>14, <1>15, <1>16, <1>17, <1>18, <1>19, <1>20, <1>21,
     <1>22
    DEF Acts

(* A step of a caller leaves the others' work as it was.                     *)
LEMMA OthersSpared ==
    ASSUME NEW c \in Workers, CallsTyped, RegistriesTyped, HoldsNames, StepsFit, Acts(c),
           NEW d \in Workers \ {c}, ~A!At(d, "none")
    PROVE  /\ call'[d] = call[d] /\ A!Me(d) \in Tenants /\ call[d].to \in Tenants
           /\ LeftAlone(A!Me(d)) /\ LeftAlone(call[d].to)
           /\ A!At(c, "none") \/ Mine(c) \cap Mine(d) = {}
<1>1. CallStep(c) BY CallsStayTyped
<1>2. call'[d] = call[d] BY <1>1 DEF CallStep
<1>3. A!Me(d) \in Tenants /\ call[d].to \in Tenants BY DEF StepsFit, StepFits
<1>4. lease[A!Me(d)] = {d} /\ lease[call[d].to] = {d} BY DEF HoldsNames
<1>5. A!At(c, "none") \/ (lease[A!Me(c)] = {c} /\ lease[call[c].to] = {c}) BY DEF HoldsNames
<1>6. A!At(c, "none") \/ Mine(c) \cap Mine(d) = {}
  BY <1>4, <1>5 DEF Mine
<1>7. \A n \in Mine(d) : LeftAlone(n)
  BY <1>3, <1>6, LocalSteps DEF Mine
<1>. QED BY <1>2, <1>3, <1>6, <1>7 DEF Mine

(* Callers hold the locks of their names.                                    *)
LEMMA HoldersStay ==
    ASSUME NEW c \in Workers, CallsTyped, RegistriesTyped, HoldsNames, StepsFit, CallStages, Acts(c)
    PROVE  HoldsNames'
<1>1. CallStep(c) BY CallsStayTyped
<1>2. SUFFICES ASSUME NEW d \in Workers, ~A!At(d, "none")'
               PROVE  lease'[call'[d].env] = {d} /\ lease'[call'[d].to] = {d}
  BY DEF HoldsNames, A!Me
<1>3. CASE d # c
  <2>1. call'[d] = call[d] /\ ~A!At(d, "none") BY <1>1, <1>2, <1>3 DEF CallStep, A!At
  <2>2. call[d].env \in Tenants /\ call[d].to \in Tenants BY <2>1 DEF StepsFit, StepFits, A!Me
  <2>3. lease[call[d].env] = {d} /\ lease[call[d].to] = {d} BY <2>1 DEF HoldsNames, A!Me
  <2>4. ASSUME NEW n \in Tenants, lease[n] = {d} PROVE lease'[n] = {d}
    BY <1>1, <1>3, <2>4 DEF CallStep, KeepsLocks
  <2>. QED BY <2>1, <2>2, <2>3, <2>4
<1>4. CASE d = c
  <2>1. A!Idle.step = "none" BY DEF A!Idle
  <2>2. CASE ~A!At(c, "none") /\ lease' = lease /\ call'[c].env \in Mine(c)
               /\ call'[c].to = call[c].to
    BY <1>4, <2>2 DEF HoldsNames, Mine, A!Me
  <2>3. CASE A!At(c, "none") /\ \A m \in {call'[c].env, call'[c].to} : lease[m] = {}
               /\ lease'[m] = {c}
    BY <1>4, <2>3
  <2>. QED BY <1>1, <1>2, <1>4, <2>1, <2>2, <2>3 DEF CallStep, KeepsLocks, A!At
<1>. QED BY <1>3, <1>4

(* So what the others rely on stays true.                                    *)
LEMMA OthersFit ==
    ASSUME NEW c \in Workers, CallsTyped, RegistriesTyped, HoldsNames, StepsFit, CallStages,
           Acts(c),
           NEW d \in Workers \ {c}
    PROVE  StepFits(d)' /\ CallStage(d)'
<1>1. call'[d] = call[d] /\ mode' = mode BY CallsStayTyped, RoutingStays DEF CallStep
<1>2. StepFits(d) /\ OutOfTheWay(d) /\ GivesOwn(d) /\ InHand(d)
  BY DEF StepsFit, CallStages, CallStage
<1>3. StepFits(d)' BY <1>1, <1>2 DEF StepFits, A!At, A!Me, Builds, Updates
<1>4. InHand(d)' BY <1>1, <1>2 DEF InHand, A!At, Builds, Updates, A!Routed
<1>5. CASE A!At(d, "none")
  <2>1. call[d].kind = "none" BY <1>2, <1>5 DEF StepFits
  <2>2. OutOfTheWay(d)' BY <1>1, <1>5, <2>1 DEF OutOfTheWay, A!At, Builds, Updates
  <2>3. GivesOwn(d)' BY <1>1, <1>5, <2>1 DEF GivesOwn, Gives, A!At, Builds, Updates
  <2>. QED BY <1>3, <1>4, <2>2, <2>3 DEF CallStage
<1>6. CASE ~A!At(d, "none")
  <2>1. LeftAlone(A!Me(d)) /\ LeftAlone(call[d].to) BY <1>6, OthersSpared
  <2>2. OutOfTheWay(d)' BY <1>1, <1>2, <2>1 DEF OutOfTheWay, LeftAlone, A!At, A!Me, Builds, Updates
  <2>3. GivesOwn(d)' BY <1>1, <1>2, <2>1 DEF GivesOwn, Gives, LeftAlone, A!Me, Builds, Updates
  <2>. QED BY <1>3, <1>4, <2>2, <2>3 DEF CallStage
<1>. QED BY <1>5, <1>6

(* What runs a container has registered what it gives it.                    *)
LEMMA RunsOwn ==
    ASSUME NEW c \in Workers, CallsTyped, StepsFit, CallStages, A!At(c, "run"), A!Me(c) \notin bare
    PROVE  /\ A!Me(c) \in Tenants /\ hosts[A!Me(c)] # NoHost
           /\ (call[c].port # 0 => ports[A!Me(c)] = call[c].port)
           /\ (call[c].host # NoHost => hosts[A!Me(c)] = call[c].host)
<1>1. call[c].kind \in {"none", "create", "delete", "recreate", "update"}
  BY DEF CallsTyped, CallRecords
<1>2. StepFits(c) /\ GivesOwn(c) BY DEF StepsFit, CallStages, CallStage
<1>3. call[c].kind \in {"create", "recreate", "update"} /\ A!Me(c) \in Tenants
  BY <1>1, <1>2 DEF StepFits, A!At
<1>. QED BY <1>2, <1>3 DEF GivesOwn, Gives, Builds, Updates, A!At

(* The ports of containers stay registered.                                  *)
LEMMA PortsStayRegistered ==
    ASSUME NEW c \in Workers, CallsTyped, RegistriesTyped, StepsFit, CallStages, PortsRegistered,
           Acts(c)
    PROVE  PortsRegistered'
<1>1. SUFFICES ASSUME NEW n \in Tenants, Shown(n)', tenant'[n].port # 0
               PROVE  ports'[n] = tenant'[n].port
  BY DEF PortsRegistered, Shown
<1>2. ports'[n] = ports[n] BY <1>1, PortsKept
<1>3. BoxStep(c, n) BY BoxesChange
<1>4. CASE n \notin bare /\ SameAddress(n)
  BY <1>1, <1>2, <1>4 DEF PortsRegistered, SameAddress, Shown
<1>5. CASE RunsBox(c, n) BY <1>1, <1>2, <1>5, RunsOwn DEF RunsBox, Shown
<1>. QED BY <1>1, <1>3, <1>4, <1>5 DEF BoxStep

(* So do their hostnames.                                                    *)
LEMMA HostsStayRegistered ==
    ASSUME NEW c \in Workers, CallsTyped, RegistriesTyped, StepsFit, CallStages, HostsRegistered,
           Acts(c)
    PROVE  HostsRegistered'
<1>1. SUFFICES ASSUME NEW n \in Tenants, Shown(n)', tenant'[n].host # NoHost
               PROVE  hosts'[n] = tenant'[n].host \/ Waits(n)'
  BY DEF HostsRegistered, Shown
<1>2. HostKept(n) BY <1>1, HostsKept
<1>3. BoxStep(c, n) BY BoxesChange
<1>4. SUFFICES ASSUME hosts'[n] = hosts[n] PROVE hosts'[n] = tenant'[n].host \/ Waits(n)'
  BY <1>1, <1>2 DEF HostKept
<1>5. CASE n \notin bare /\ SameAddress(n)
  <2>1. hosts[n] = tenant[n].host \/ Waits(n) BY <1>1, <1>5 DEF HostsRegistered, SameAddress, Shown
  <2>. QED BY <1>1, <1>4, <1>5, <2>1, WaitsLast DEF SameAddress
<1>6. CASE RunsBox(c, n) BY <1>1, <1>4, <1>6, RunsOwn DEF RunsBox, Shown
<1>. QED BY <1>1, <1>3, <1>5, <1>6 DEF BoxStep

(* Containers have slots.                                                    *)
LEMMA SlotsStayTaken ==
    ASSUME NEW c \in Workers, CallsTyped, RegistriesTyped, StepsFit, CallStages, SlotsTaken, Acts(c)
    PROVE  SlotsTaken'
<1>1. SUFFICES ASSUME NEW n \in Tenants, Shown(n)' PROVE hosts'[n] # NoHost
  BY DEF SlotsTaken, Shown
<1>2. HostKept(n) BY <1>1, HostsKept
<1>3. BoxStep(c, n) BY BoxesChange
<1>4. SUFFICES ASSUME hosts'[n] = hosts[n] PROVE hosts'[n] # NoHost BY <1>1, <1>2 DEF HostKept
<1>5. CASE n \notin bare /\ SameAddress(n) BY <1>1, <1>4, <1>5 DEF SlotsTaken, SameAddress, Shown
<1>6. CASE RunsBox(c, n) BY <1>1, <1>4, <1>6, RunsOwn DEF RunsBox, Shown
<1>. QED BY <1>1, <1>3, <1>5, <1>6 DEF BoxStep

(* What a container shows is taken from the registry.                        *)
LEMMA RegisteredElsewhere ==
    ASSUME CallsTyped, RegistriesTyped, OneHostEach, HostsRegistered, NEW d \in Workers, ~A!Routed,
           call[d].host # NoHost, A!Me(d) \in Tenants, hosts[A!Me(d)] = call[d].host,
           NEW m \in Tenants \ bare, m # A!Me(d), tenant[m].here
    PROVE  tenant[m].host # call[d].host
<1>1. call[d].host \in A!Labels BY DEF CallsTyped, CallRecords
<1>2. ~Waits(m) BY DEF Waits
<1>. QED BY <1>1, <1>2 DEF OneHostEach, HostsRegistered

(* A hostname that a caller is sure of is shown by nobody.                   *)
LEMMA SureStay ==
    ASSUME NEW c \in Workers, CallsTyped, RegistriesTyped, HoldsNames, StepsFit, CallStages,
           OneHostEach, HostsRegistered, HostsSure, Acts(c)
    PROVE  HostsSure'
<1>1. SUFFICES ASSUME NEW d \in Workers, Sure(d)', NEW m \in Tenants, Shown(m)', m # call'[d].env
               PROVE  tenant'[m].host # call'[d].host
  BY DEF HostsSure, Shown, A!Me
<1>2. CASE d = c
  <2>1. /\ UNCHANGED <<hosts, tenant, bare>> /\ call'[c].host = call[c].host
            /\ call'[c].env = call[c].env
        /\ ~A!At(c, "none")
            /\ (Sure(c) \/ call[c].host \notin A!UsedHosts(A!Me(c)) \/ (~A!Routed /\ Gives(c)))
    BY <1>1, <1>2, SureSteps DEF SureStep
  <2>2. A!Me(c) \in Tenants BY <2>1 DEF StepsFit, StepFits
  <2>3. m \in Tenants \ bare /\ tenant[m].here /\ m # A!Me(c) /\ call[c].host # NoHost
          /\ A!Me(c) \notin bare
    BY <1>1, <1>2, <2>1 DEF Shown, A!Me, Sure
  <2>4. CASE Sure(c) BY <1>2, <2>1, <2>3, <2>4 DEF HostsSure
  <2>5. CASE call[c].host \notin A!UsedHosts(A!Me(c))
    BY <1>2, <2>1, <2>3, <2>5 DEF A!UsedHosts, A!Active
  <2>6. CASE ~A!Routed /\ Gives(c)
    <3>1. hosts[A!Me(c)] = call[c].host BY <2>3, <2>6 DEF CallStages, CallStage, GivesOwn
    <3>. QED BY <1>2, <2>1, <2>2, <2>3, <2>6, <3>1, RegisteredElsewhere
  <2>. QED BY <2>1, <2>4, <2>5, <2>6
<1>3. CASE d # c
  <2>1. call'[d] = call[d] BY <1>3, CallsStayTyped DEF CallStep
  <2>2. ~A!At(d, "none") BY <1>1, <2>1 DEF Sure, A!At
  <2>3. A!Me(d) \in Tenants /\ LeftAlone(A!Me(d)) BY <1>3, <2>2, OthersSpared
  <2>4. Sure(d) /\ m # A!Me(d) BY <1>1, <2>1, <2>3 DEF Sure, LeftAlone, A!Me
  <2>5. BoxStep(c, m) BY BoxesChange
  <2>6. CASE m \notin bare /\ SameAddress(m)
    BY <1>1, <2>1, <2>4, <2>6 DEF HostsSure, SameAddress, Shown
  <2>7. CASE RunsBox(c, m)
    <3>1. A!Me(c) \notin bare /\ m = A!Me(c) /\ A!At(c, "run") BY <1>1, <2>7 DEF RunsBox, Shown
    <3>2. call[c].host # NoHost => hosts[m] = call[c].host BY <3>1, RunsOwn
    <3>3. call[d].host # NoHost /\ call[d].host \in A!Labels \cup {NoHost} /\ A!Me(d) \notin bare
      BY <2>4 DEF Sure, CallsTyped, CallRecords
    <3>4. call[d].kind \in {"none", "create", "delete", "recreate", "update"}
      BY DEF CallsTyped, CallRecords
    <3>5. StepFits(d) BY DEF StepsFit
    <3>6. Gives(d) BY <2>2, <2>4, <3>4, <3>5 DEF Sure, StepFits, Gives, Builds, Updates, A!At
    <3>7. hosts[A!Me(d)] = call[d].host BY <3>3, <3>6 DEF CallStages, CallStage, GivesOwn
    <3>. QED BY <2>1, <2>3, <2>4, <2>7, <3>1, <3>2, <3>3, <3>7 DEF OneHostEach, RunsBox
  <2>. QED BY <1>1, <2>5, <2>6, <2>7 DEF BoxStep
<1>. QED BY <1>2, <1>3

(* So the addresses stay distinct.                                           *)
LEMMA DistinctStay ==
    ASSUME NEW c \in Workers, CallsTyped, RegistriesTyped, StepsFit, CallStages,
           A!AddressesDistinct,
           HostsSure, (OnePortEach /\ PortsRegistered)', Acts(c)
    PROVE  A!AddressesDistinct'
<1>1. SUFFICES ASSUME NEW n \in Tenants, NEW m \in Tenants, n # m, Shown(n)', Shown(m)'
               PROVE  /\ tenant'[n].port # 0 => tenant'[n].port # tenant'[m].port
                      /\ tenant'[n].host # NoHost => tenant'[n].host # tenant'[m].host
  BY DEF A!AddressesDistinct, Shown
<1>2. tenant'[n].port # 0 => tenant'[n].port # tenant'[m].port
  BY <1>1 DEF OnePortEach, PortsRegistered, Shown
<1>3. BoxStep(c, n) /\ BoxStep(c, m) BY BoxesChange
<1>4. ASSUME NEW k \in Tenants, NEW l \in Tenants, k # l, RunsBox(c, k), Shown(k)', l \notin bare,
             SameAddress(l),
             Shown(l)', tenant'[k].host # NoHost
      PROVE  tenant'[l].host # tenant'[k].host
  <2>1. Sure(c) BY <1>4 DEF RunsBox, Shown, Sure, A!At
  <2>. QED BY <1>4, <2>1 DEF HostsSure, RunsBox, SameAddress, Shown
<1>5. CASE n \notin bare /\ SameAddress(n) /\ m \notin bare /\ SameAddress(m)
  BY <1>1, <1>2, <1>5 DEF A!AddressesDistinct, SameAddress, Shown
<1>6. CASE RunsBox(c, n) /\ m \notin bare /\ SameAddress(m) BY <1>1, <1>2, <1>4, <1>6
<1>7. CASE RunsBox(c, m) /\ n \notin bare /\ SameAddress(n) BY <1>1, <1>2, <1>4, <1>7
<1>8. CASE RunsBox(c, n) /\ RunsBox(c, m) BY <1>1, <1>8 DEF RunsBox
<1>. QED BY <1>1, <1>3, <1>5, <1>6, <1>7, <1>8 DEF BoxStep

(* The names that hold a slot are never more than there are slots.           *)
WithinSlots == Cardinality(Held) <= Slots

(* The names that hold a slot are never more than there are slots.           *)
LEMMA SlotsStayWithin ==
    ASSUME NEW c \in Workers, CallsTyped, RegistriesTyped, StepsFit, CallStages, SlotsTaken,
           WithinSlots,
           Acts(c)
    PROVE  WithinSlots'
<1>1. HeldStep(c) BY HeldSteps
<1>2. IsFiniteSet(Tenants) /\ Slots \in Nat BY TenantsConstants, Counting DEF A!AddrConstants
<1>3. IsFiniteSet(Held) /\ IsFiniteSet(Held') BY <1>2, FS_Subset DEF Held
<1>4. Cardinality(Held) \in Nat BY <1>3, FS_CardinalityType
<1>5. CASE Held' \subseteq Held
  BY <1>2, <1>3, <1>4, <1>5, FS_Subset, FS_CardinalityType DEF WithinSlots
<1>6. ASSUME NEW n \in Held, NEW m \in Tenants, Held' \subseteq (Held \ {n}) \cup {m}
      PROVE  WithinSlots'
  <2>1. IsFiniteSet(Held \ {n}) /\ Cardinality(Held \ {n}) = Cardinality(Held) - 1
    BY <1>3, FS_RemoveElement
  <2>2. /\ IsFiniteSet((Held \ {n}) \cup {m})
        /\ Cardinality((Held \ {n}) \cup {m}) \in {Cardinality(Held) - 1, Cardinality(Held)}
    <3>1. ASSUME NEW S, IsFiniteSet(S), Cardinality(S) = Cardinality(Held) - 1
          PROVE  /\ IsFiniteSet(S \cup {m})
                 /\ Cardinality(S \cup {m}) \in {Cardinality(Held) - 1, Cardinality(Held)}
      <4>1. Cardinality(S \cup {m}) = IF m \in S THEN Cardinality(S) ELSE Cardinality(S) + 1
        BY <3>1, FS_AddElement
      <4>2. IsFiniteSet(S \cup {m}) BY <3>1, FS_AddElement
      <4>. QED BY <1>4, <3>1, <4>1, <4>2
    <3>. QED BY <2>1, <3>1
  <2>3. Cardinality(Held') <= Cardinality((Held \ {n}) \cup {m}) BY <1>6, <2>2, FS_Subset
  <2>4. Cardinality(Held') \in Nat BY <1>3, FS_CardinalityType
  <2>. QED BY <1>2, <1>4, <2>2, <2>3, <2>4 DEF WithinSlots
<1>7. CASE Cardinality(A!Occupied(c)) < Slots /\ Held' \subseteq A!Occupied(c) \cup {A!Me(c)}
             /\ A!Me(c) \in Tenants
  <2>1. call[c].seen \subseteq Tenants BY DEF CallsTyped, CallRecords
  <2>2. IsFiniteSet(A!Occupied(c)) BY <1>2, <2>1, FS_Subset DEF A!Occupied, A!Registered
  <2>3. Cardinality(A!Occupied(c)) \in Nat BY <2>2, FS_CardinalityType
  <2>4. /\ IsFiniteSet(A!Occupied(c) \cup {A!Me(c)})
        /\ Cardinality(A!Occupied(c) \cup {A!Me(c)}) = Cardinality(A!Occupied(c)) + 1
    BY <2>2, FS_AddElement DEF A!Occupied
  <2>5. Cardinality(Held') <= Cardinality(A!Occupied(c) \cup {A!Me(c)}) BY <1>7, <2>4, FS_Subset
  <2>6. Cardinality(Held') \in Nat BY <1>3, FS_CardinalityType
  <2>. QED BY <1>2, <1>7, <2>3, <2>4, <2>5, <2>6 DEF WithinSlots
<1>. QED BY <1>1, <1>5, <1>6, <1>7 DEF HeldStep

(* So the cap holds: who is there has a slot.                                *)
LEMMA CapFromSlots ==
    ASSUME SlotsTaken, WithinSlots
    PROVE  A!CapHolds
<1>1. {n \in Tenants \ bare : tenant[n].here \/ hosts[n] # NoHost} = Held BY DEF Held, SlotsTaken
<1>. QED BY <1>1, Counting DEF A!CapHolds, WithinSlots

AddrInv ==
    /\ CallsTyped /\ RegistriesTyped /\ LimitsTyped
    /\ HoldsNames /\ StepsFit /\ CallStages
    /\ OnePortEach /\ OneHostEach /\ PortsRegistered /\ HostsRegistered /\ SlotsTaken /\ HostsSure
    /\ A!AddressesDistinct /\ WithinSlots


(* The invariant holds at first.                                             *)
LEMMA AddrInitially ==
    ASSUME A!AddrInit
    PROVE  AddrInv
<1>. USE TenantsConstants DEF A!AddrInit, A!AddrConstants
<1>1. A!Idle.kind = "none" /\ A!Idle.step = "none" /\ A!Idle.port = 0 /\ A!Idle.clear = FALSE
        /\ A!Idle.env = NoEnv
      /\ A!Idle.host = NoHost /\ A!Idle.want = NoHost
  BY DEF A!Idle
<1>2. A!Idle \in CallRecords BY DEF A!Idle, CallRecords, A!Steps
<1>3. CallsTyped BY <1>2 DEF CallsTyped
<1>4. RegistriesTyped BY DEF RegistriesTyped, A!NoBox, A!Boxes
<1>5. LimitsTyped BY DEF LimitsTyped
<1>6. \A n \in Tenants : ~tenant[n].here /\ hosts[n] = NoHost /\ ports[n] = 0 /\ n \notin bare
  BY DEF A!NoBox
<1>7. HoldsNames BY <1>1 DEF HoldsNames, A!At
<1>8. StepsFit BY <1>1 DEF StepsFit, StepFits, A!At
<1>9. CallStages
  BY <1>1 DEF CallStages, CallStage, OutOfTheWay, GivesOwn, Gives, InHand, A!At, Builds, Updates
<1>10. HostsSure BY <1>1 DEF HostsSure, Sure
<1>11. WithinSlots
  <2>1. Held = {} BY <1>6 DEF Held
  <2>. QED BY <2>1, FS_EmptySet DEF WithinSlots
<1>12. NoHost \notin A!Labels BY DEF A!Labels
<1>13. OneHostEach BY <1>6, <1>12 DEF OneHostEach
<1>14. OnePortEach BY <1>6 DEF OnePortEach
<1>15. PortsRegistered /\ HostsRegistered /\ SlotsTaken /\ A!AddressesDistinct
  BY <1>6 DEF PortsRegistered, HostsRegistered, SlotsTaken, A!AddressesDistinct
<1>. QED BY <1>3, <1>4, <1>5, <1>7, <1>8, <1>9, <1>10, <1>11, <1>13, <1>14, <1>15 DEF AddrInv

(* Every step of a caller keeps it.                                          *)
LEMMA CallerKeeps ==
    ASSUME AddrInv, NEW c \in Workers, Acts(c)
    PROVE  AddrInv'
<1>. USE DEF AddrInv
<1>1. CallsTyped' BY CallsStayTyped DEF CallStep
<1>2. RegistriesTyped' /\ LimitsTyped' BY RegistriesStayTyped, LimitsStay
<1>3. HoldsNames' BY HoldersStay
<1>4. \A d \in Workers : StepFits(d)' /\ CallStage(d)' BY StagesFit, OthersFit
<1>5. StepsFit' /\ CallStages' BY <1>4 DEF StepsFit, CallStages
<1>6. OnePortEach' /\ OneHostEach' BY OnePortStays, OneHostStays
<1>7. PortsRegistered' /\ HostsRegistered' /\ SlotsTaken'
  BY PortsStayRegistered, HostsStayRegistered, SlotsStayTaken
<1>8. HostsSure' BY SureStay
<1>9. A!AddressesDistinct' BY <1>6, <1>7, DistinctStay
<1>10. WithinSlots' BY SlotsStayWithin
<1>. QED BY <1>1, <1>2, <1>3, <1>5, <1>6, <1>7, <1>8, <1>9, <1>10

(* Stopping and starting change no address.                                  *)
LEMMA StopsAndStarts ==
    ASSUME AddrInv, NEW n \in Tenants, A!Stop(n) \/ A!Start(n)
    PROVE  AddrInv'
<1>. USE DEF AddrInv
<1>1. /\ UNCHANGED <<mode, ports, hosts, call, lease, bare, addrFailures, addrOps, changes>>
      /\ \E runs \in BOOLEAN : tenant' = [tenant EXCEPT ![n].up = runs]
  BY DEF A!Stop, A!Start, A!Works
<1>2. tenant' \in [Tenants -> A!Boxes] /\ \A m \in Tenants : SameAddress(m)
  BY <1>1 DEF RegistriesTyped, A!Boxes, SameAddress
<1>3. RegistriesTyped' BY <1>1, <1>2 DEF RegistriesTyped
<1>4. CallsTyped' /\ LimitsTyped' /\ HoldsNames' /\ StepsFit'
  BY <1>1 DEF CallsTyped, LimitsTyped, HoldsNames, StepsFit, StepFits, A!At, A!Me, Builds, Updates
<1>5. ASSUME NEW d \in Workers PROVE CallStage(d)'
  <2>1. OutOfTheWay(d) /\ GivesOwn(d) /\ InHand(d) /\ StepFits(d)
    BY DEF CallStages, CallStage, StepsFit
  <2>2. (GivesOwn(d) /\ InHand(d))'
    BY <1>1, <2>1 DEF GivesOwn, Gives, InHand, A!At, A!Me, Builds, Updates, A!Routed
  <2>3. OutOfTheWay(d)'
    <3>1. CASE A!At(d, "none")
      BY <1>1, <2>1, <3>1 DEF OutOfTheWay, StepFits, A!At, A!Me, Builds, Updates
    <3>2. CASE ~A!At(d, "none")
      <4>1. A!Me(d) \in Tenants /\ call[d].to \in Tenants BY <2>1, <3>2 DEF StepFits
      <4>. QED BY <1>1, <1>2, <2>1, <4>1 DEF OutOfTheWay, SameAddress, A!At, A!Me, Builds, Updates
    <3>. QED BY <3>1, <3>2
  <2>. QED BY <2>2, <2>3 DEF CallStage
<1>6. CallStages' BY <1>5 DEF CallStages
<1>7. OnePortEach' /\ OneHostEach' /\ PortsRegistered' /\ HostsRegistered' /\ SlotsTaken'
  BY <1>1, <1>2 DEF OnePortEach, OneHostEach, PortsRegistered, HostsRegistered, SlotsTaken,
     SameAddress, Waits, A!At, A!Me, Updates, A!Routed
<1>8. HostsSure' /\ A!AddressesDistinct'
  BY <1>1, <1>2 DEF HostsSure, A!AddressesDistinct, SameAddress, Sure, A!Me
<1>9. WithinSlots' BY <1>1 DEF WithinSlots, Held
<1>. QED BY <1>3, <1>4, <1>6, <1>7, <1>8, <1>9

(* The routing changes while nobody is at work.                              *)
LEMMA RoutingChanges ==
    ASSUME AddrInv, A!Reconfigure
    PROVE  AddrInv'
<1>. USE DEF AddrInv
<1>1. /\ UNCHANGED <<ports, hosts, tenant, call, lease, bare, addrFailures, addrOps>>
      /\ mode' \in {"port", "name", "slots"} /\ changes' \in 0..Changes
      /\ \A d \in Workers : A!At(d, "none") /\ call[d].kind = "none"
  BY TenantsConstants DEF A!Reconfigure, A!AddrConstants, LimitsTyped, StepsFit, StepFits
<1>2. CallsTyped' /\ RegistriesTyped' /\ LimitsTyped'
  BY <1>1 DEF CallsTyped, RegistriesTyped, LimitsTyped
<1>3. HoldsNames' /\ StepsFit'
  BY <1>1 DEF HoldsNames, StepsFit, StepFits, A!At, A!Me, Builds, Updates
<1>4. CallStages'
  BY <1>1 DEF CallStages, CallStage, OutOfTheWay, GivesOwn, Gives, InHand, A!At, A!Me, Builds,
     Updates
<1>5. \A n \in Tenants : ~Waits(n) BY <1>1 DEF Waits, A!At
<1>6. OnePortEach' /\ OneHostEach' /\ PortsRegistered' /\ HostsRegistered' /\ SlotsTaken'
  BY <1>1, <1>5 DEF OnePortEach, OneHostEach, PortsRegistered, HostsRegistered, SlotsTaken
<1>7. HostsSure' BY <1>1 DEF HostsSure, Sure, A!At
<1>8. A!AddressesDistinct' /\ WithinSlots' BY <1>1 DEF A!AddressesDistinct, WithinSlots, Held
<1>. QED BY <1>2, <1>3, <1>4, <1>6, <1>7, <1>8

(* Nothing changes when nothing happens.                                     *)
LEMMA AddrStuttered ==
    ASSUME AddrInv, UNCHANGED addrVars
    PROVE  AddrInv'
BY DEF addrVars, AddrInv, CallsTyped, RegistriesTyped, LimitsTyped, HoldsNames, StepsFit, StepFits,
   CallStages, CallStage, OutOfTheWay, GivesOwn, Gives, InHand, OnePortEach, OneHostEach,
   PortsRegistered, HostsRegistered, SlotsTaken, HostsSure, Sure, A!AddressesDistinct, WithinSlots,
   Held, Waits, A!At, A!Me, Builds, Updates, A!Routed

(* So every step keeps it.                                                   *)
LEMMA AddrKept ==
    AddrInv /\ [A!AddrNext]_addrVars => AddrInv'
<1>1. ASSUME AddrInv, A!AddrNext PROVE AddrInv'
  <2>1. (\E c \in Workers : Acts(c)) \/ (\E n \in Tenants : A!Stop(n) \/ A!Start(n))
          \/ A!Reconfigure
    BY <1>1 DEF A!AddrNext, Acts
  <2>. QED BY <1>1, <2>1, CallerKeeps, StopsAndStarts, RoutingChanges
<1>. QED BY <1>1, AddrStuttered

-----------------------------------------------------------------------------
(* The addresses are one of three components that a run moves.               *)

AddressesHold == focus = "addresses" => AddrInv

(* The component that is in focus takes its own steps.                       *)
LEMMA AddressesKept == TenantsSpec => []AddressesHold
<1>1. TenantsInit => AddressesHold BY AddrInitially DEF TenantsInit, AddressesHold
<1>2. AddressesHold /\ [TenantsNext]_<<focus, envVars, addrVars, idVars>> => AddressesHold'
  <2>1. ASSUME AddressesHold, TenantsNext PROVE AddressesHold'
    BY <2>1, AddrKept DEF AddressesHold, TenantsNext
  <2>2. ASSUME AddressesHold, UNCHANGED <<focus, envVars, addrVars, idVars>> PROVE AddressesHold'
    BY <2>2, AddrKept DEF AddressesHold
  <2>. QED BY <2>1, <2>2
<1>. QED BY <1>1, <1>2, PTL DEF TenantsSpec

(* The registries, the containers and the calls keep their types.            *)
THEOREM AddressTypes == TenantsSpec => [](focus = "addresses" => A!AddrTypeOK)
<1>1. AddressesHold => (focus = "addresses" => A!AddrTypeOK)
  <2> SUFFICES ASSUME AddrInv PROVE A!AddrTypeOK BY DEF AddressesHold
  <2>1. CallsTyped /\ RegistriesTyped /\ LimitsTyped BY DEF AddrInv
  <2>. QED
    BY <2>1 DEF CallsTyped, RegistriesTyped, LimitsTyped, CallRecords, A!AddrTypeOK, A!Steps
<1>. QED BY <1>1, AddressesKept, PTL

(* No two environments have one port or one hostname, whoever creates,       *)
(* deletes, updates or renames at the same time, whatever fails, and however *)
(* the routing is configured between operations.                             *)
THEOREM AddressesStayDistinct == TenantsSpec => []AddressesDistinct
<1>1. AddressesHold => AddressesDistinct BY DEF AddressesHold, AddressesDistinct, AddrInv
<1>. QED BY <1>1, AddressesKept, PTL

(* A team never has more environments than slots, those being created or     *)
(* updated included.                                                         *)
THEOREM CapStands == TenantsSpec => []CapHolds
<1>1. AddressesHold => CapHolds BY CapFromSlots DEF AddressesHold, CapHolds, AddrInv
<1>. QED BY <1>1, AddressesKept, PTL

-----------------------------------------------------------------------------
(* Identities.                                                               *)

(* The types, in parts.                                                      *)
Visited ==
    [kind : {"none", "create", "delete", "rename", "heal", "sync"},
     env : Envs \cup {NoEnv}, to : Envs \cup {NoEnv},
     step : {"none", "ensure", "list", "purge", "forget", "allocate", "provision",
             "retire", "gone", "rename_uid", "move_dir", "names", "provision_all"},
     born : 0..MaxClones, uid : 0..MaxUids, todo : [I!Uids -> Envs \cup {NoEnv}],
     one : 0..MaxUids, names : SUBSET Envs]
VisitsTyped == visit \in [Workers -> Visited] /\ tenure \in [Envs -> SUBSET Workers]
RegistryTyped ==
    /\ uids \in [Envs -> 0..MaxUids] /\ pending \in [I!Uids -> Envs \cup {NoEnv}]
    /\ next \in 1..(MaxUids + 1)
FilesTyped ==
    /\ dir \in [Envs -> [uid : 0..MaxUids, born : 0..MaxClones]]
        /\ home \in [I!Uids -> 0..MaxClones]
EnvsTyped == env \in [Envs -> 0..MaxClones] /\ births \in 0..MaxClones
IdCountsTyped == up \in BOOLEAN /\ idFailures \in 0..IdFailures /\ idOps \in 0..IdOps

(* An operation on an environment holds the locks of its names, and the      *)
(* synchronisation is alone.                                                 *)
Working(c) == visit[c].kind \notin {"none", "sync"}
HoldsItsNames == \A c \in Workers : Working(c) => tenure[I!Me(c)] = {c} /\ tenure[visit[c].to] = {c}
SyncAlone == \A c, d \in Workers : visit[c].kind = "sync" /\ d # c => I!At(d, "none")
Touches(c) == {I!Me(c), visit[c].to}

(* What the step of a caller says of its operation.                          *)
Adds(c) == visit[c].kind \in {"create", "heal", "rename"}
Moves(c) == visit[c].step \in {"rename_uid", "move_dir"}
OpFits(c) ==
    /\ visit[c].kind = "none" <=> I!At(c, "none")
    /\ Working(c) => I!Me(c) \in Envs /\ visit[c].to \in Envs
    /\ Moves(c) => visit[c].kind = "rename" /\ I!Me(c) # visit[c].to
    /\ visit[c].step \in {"retire", "gone"} => visit[c].kind = "delete"
    /\ visit[c].step \in {"names", "provision_all"} => visit[c].kind = "sync"
    /\ visit[c].step \in {"ensure", "allocate", "provision"} => Adds(c)
    /\ I!At(c, "forget") => visit[c].one \in I!Uids
OpsFit == \A c \in Workers : OpFits(c)

(* A uid is given once: no two environments have it, and none that has lost  *)
(* it; one that was never given owns nothing.                                *)
Retired(u) == u < next /\ \A n \in Envs : uids[n] # u
UidsOnce ==
    /\ \A n, m \in Envs : uids[n] = uids[m] /\ uids[n] # 0 => n = m
    /\ \A n \in Envs : uids[n] < next
PendingRetired == \A u \in I!Uids : pending[u] # NoEnv => Retired(u)
NewOwnsNothing ==
    /\ \A n \in Envs : dir[n].uid < next
    /\ \A u \in I!Uids : home[u] # 0 => u < next

(* Everything a uid owns was made for one creation.                          *)
Serves(u, b) ==
    u # 0 => /\ \A n \in Envs : dir[n].uid = u => dir[n].born = b
             /\ home[u] \in {0, b}
EachServesItsOwn == \A n \in Envs : env[n] # 0 => Serves(uids[n], env[n])

(* What an operation has found or done about its names.                      *)
OpStage(c) ==
    /\ Adds(c) /\ ~Moves(c) => visit[c].born # 0 /\ env[I!Me(c)] = visit[c].born
    /\ Moves(c) => visit[c].born # 0 /\ env[I!Me(c)] = 0 /\ env[visit[c].to] = 0
    /\ I!At(c, "rename_uid") => uids[visit[c].to] = 0 /\ Serves(uids[I!Me(c)], visit[c].born)
    /\ I!At(c, "move_dir") => uids[I!Me(c)] = 0 /\ Serves(uids[visit[c].to], visit[c].born)
    /\ I!At(c, "provision") => visit[c].uid # 0 /\ uids[I!Me(c)] = visit[c].uid
    /\ visit[c].kind = "delete" /\ ~I!At(c, "retire") => uids[I!Me(c)] = 0
    /\ I!At(c, "provision_all") => \A n \in visit[c].names : env[n] # 0
OpStages == \A c \in Workers : OpStage(c)

(* A name without an environment has no uid, but for the two of a rename.    *)
Carries(c, n) ==
    (I!At(c, "rename_uid") /\ I!Me(c) = n) \/ (I!At(c, "move_dir") /\ visit[c].to = n)
UidsOfEnvs == \A n \in Envs : env[n] = 0 /\ uids[n] # 0 => \E c \in Workers : Carries(c, n)

IdInv ==
    /\ VisitsTyped /\ RegistryTyped /\ FilesTyped /\ EnvsTyped /\ IdCountsTyped
    /\ HoldsItsNames /\ SyncAlone /\ OpsFit
    /\ UidsOnce /\ PendingRetired /\ NewOwnsNothing
    /\ EachServesItsOwn /\ OpStages /\ UidsOfEnvs

(* What a purge is to remove is retired, and what it has removed is gone.    *)
Listed(c) ==
    \A u \in I!Uids : visit[c].todo[u] # NoEnv => Retired(u)
        /\ pending[u] \in {NoEnv, visit[c].todo[u]}
HasFiles(u) == home[u] # 0 \/ \E n \in Envs : dir[n].uid = u
Cleared(c) == I!At(c, "forget") => Retired(visit[c].one) /\ ~HasFiles(visit[c].one)
PurgesRight == \A c \in Workers : Listed(c) /\ Cleared(c)

(* Whose a checkout is, and whose a HOME.                                    *)
OnItsWay(n) == \E c \in Workers : I!At(c, "move_dir") /\ I!Me(c) = n
    /\ uids[visit[c].to] = dir[n].uid
DirsOwned ==
    \A n \in Envs : dir[n].uid # 0 =>
      uids[n] = dir[n].uid \/ pending[dir[n].uid] = n \/ OnItsWay(n)
HomesOwned ==
    \A u \in I!Uids : home[u] # 0 => pending[u] # NoEnv \/ \E n \in Envs : uids[n] = u
NothingPending(c) == Moves(c) => \A u \in I!Uids : pending[u] # I!Me(c)
RenamesClean == \A c \in Workers : NothingPending(c)

LeftInv == IdInv /\ PurgesRight /\ DirsOwned /\ HomesOwned /\ RenamesClean

(* The steps of a caller.                                                    *)
Visits(c) ==
    \/ \E n \in Envs : \/ I!BeginCreate(c, n) \/ I!BeginHeal(c, n) \/ I!BeginDelete(c, n)
                       \/ I!SyncAllocate(c, n) \/ \E m \in Envs : I!BeginRename(c, n, m)
    \/ I!Ensure(c) \/ I!List(c) \/ I!Purge(c) \/ I!ForgetRemoved(c) \/ I!Allocate(c)
        \/ I!Provision(c)
    \/ I!Retire(c) \/ I!Gone(c) \/ I!RenameUid(c) \/ I!MoveDir(c)
    \/ I!BeginSync(c) \/ I!Names(c) \/ I!SyncProvision(c)
-----------------------------------------------------------------------------
KeepsOp(c) == visit'[c].kind = visit[c].kind /\ visit'[c].to = visit[c].to
    /\ visit'[c].born = visit[c].born
OthersKept(c) == \A d \in Workers \ {c} : visit'[d] = visit[d]
GoesOn(c) == VisitsTyped' /\ tenure' = tenure /\ OthersKept(c) /\ KeepsOp(c)
EndsOp(c) ==
    /\ VisitsTyped' /\ OthersKept(c) /\ visit'[c] = I!Idle
    /\ \A n \in Envs : tenure'[n] = tenure[n] \ {c}
BeginsOp(c) ==
    /\ VisitsTyped' /\ OthersKept(c) /\ I!At(c, "none")
    /\ visit'[c].uid = 0 /\ visit'[c].one = 0 /\ visit'[c].names = {}
    /\ \A u \in I!Uids : visit'[c].todo[u] = NoEnv

(* The bounds are numbers, and uids count from 1.                            *)
LEMMA UidsAreNumbers ==
    /\ MaxUids \in Nat /\ MaxClones \in Nat /\ IdFailures \in Nat /\ IdOps \in Nat
    /\ 0 \in 0..MaxUids /\ 0 \in 0..MaxClones /\ NoEnv \notin Envs
    /\ \A u \in I!Uids : u \in 0..MaxUids /\ u \in Nat /\ u # 0
BY TenantsConstants DEF I!IdConstants, I!Uids

(* Who does nothing has the type of an operation.                            *)
LEMMA IdleTyped == I!Idle \in Visited
BY TenantsConstants DEF I!Idle, Visited, I!IdConstants, I!Uids

(* What going on to the next step does to a caller's record.                 *)
LEMMA GoEffect ==
    ASSUME VisitsTyped, NEW c \in Workers,
           NEW step \in {"list", "gone", "move_dir"}, I!Go(c, step)
    PROVE  GoesOn(c) /\ visit'[c] = [visit[c] EXCEPT !.step = step]
<1>1. visit[c] \in Visited BY DEF VisitsTyped
<1>2. [visit[c] EXCEPT !.step = step] \in Visited BY <1>1 DEF Visited
<1>3. visit' = [visit EXCEPT ![c] = [visit[c] EXCEPT !.step = step]]
  BY <1>1 DEF I!Go, VisitsTyped, Visited
<1>. QED BY <1>1, <1>2, <1>3 DEF VisitsTyped, GoesOn, KeepsOp, OthersKept, Visited, I!Go

(* What the end of its operation does.                                       *)
LEMMA DoneEffect ==
    ASSUME VisitsTyped, NEW c \in Workers, I!Done(c)
    PROVE  EndsOp(c)
BY IdleTyped DEF VisitsTyped, I!Done, EndsOp, OthersKept

(* What the beginning of one does.                                           *)
LEMMA BeginEffect ==
    ASSUME VisitsTyped, NEW c \in Workers,
           NEW kind \in {"create", "delete", "rename", "heal", "sync"},
           NEW n \in Envs \cup {NoEnv}, NEW m \in Envs \cup {NoEnv},
           NEW step \in {"ensure", "retire", "rename_uid", "list"}, NEW b \in 0..MaxClones,
           I!Begin(c, kind, n, m, step, b), tenure' \in [Envs -> SUBSET Workers]
    PROVE  /\ BeginsOp(c) /\ visit'[c].kind = kind /\ visit'[c].env = n /\ visit'[c].to = m
           /\ visit'[c].step = step /\ visit'[c].born = b
<1>. DEFINE r == [I!Idle EXCEPT !.kind = kind, !.env = n, !.to = m, !.step = step, !.born = b]
<1>1. r \in Visited BY IdleTyped DEF Visited
<1>2. /\ r.kind = kind /\ r.env = n /\ r.to = m /\ r.step = step /\ r.born = b
      /\ r.uid = 0 /\ r.one = 0 /\ r.names = {} /\ r.todo = [u \in I!Uids |-> NoEnv]
  BY DEF I!Idle
<1>3. visit' = [visit EXCEPT ![c] = r] /\ I!At(c, "none") BY DEF I!Begin
<1>. HIDE DEF r
<1>4. visit'[c] = r BY <1>3 DEF VisitsTyped
<1>5. VisitsTyped' /\ OthersKept(c) BY <1>1, <1>3 DEF VisitsTyped, OthersKept
<1>. QED BY <1>2, <1>3, <1>4, <1>5 DEF BeginsOp

(* What reading the list of pending removals does.                           *)
LEMMA ListEffect ==
    ASSUME VisitsTyped, RegistryTyped, NEW c \in Workers, I!List(c)
    PROVE  GoesOn(c) /\ visit'[c] = [visit[c] EXCEPT !.todo = pending, !.step = "purge"]
<1>1. visit[c] \in Visited BY DEF VisitsTyped
<1>2. [visit[c] EXCEPT !.todo = pending, !.step = "purge"] \in Visited
  BY <1>1 DEF Visited, RegistryTyped
<1>3. visit' = [visit EXCEPT ![c] = [visit[c] EXCEPT !.todo = pending, !.step = "purge"]]
  BY <1>1 DEF I!List, VisitsTyped, Visited
<1>. QED BY <1>1, <1>2, <1>3 DEF VisitsTyped, GoesOn, KeepsOp, OthersKept, Visited, I!List

(* The list of a purge without one of its entries.                           *)
Without(c, u) == [visit[c].todo EXCEPT ![u] = NoEnv]

(* What a removal may do: fail, succeed, or end the list.                    *)
LEMMA PurgeEffect ==
    ASSUME VisitsTyped, NEW c \in Workers, I!Purge(c)
    PROVE  /\ GoesOn(c) /\ I!At(c, "purge")
           /\ \/ /\ up /\ UNCHANGED <<home>>
                 /\ \E u \in I!Uids :
                      /\ visit[c].todo[u] # NoEnv
                      /\ dir' \in {dir, IF I!Owned(visit[c].todo[u], u)
                                        THEN [dir EXCEPT ![visit[c].todo[u]] = I!NoDir] ELSE dir}
                      /\ visit'[c] = [visit[c] EXCEPT !.todo = Without(c, u)]
              \/ /\ up
                 /\ \E u \in I!Uids :
                      /\ visit[c].todo[u] # NoEnv
                      /\ dir' = IF I!Owned(visit[c].todo[u], u)
                                THEN [dir EXCEPT ![visit[c].todo[u]] = I!NoDir] ELSE dir
                      /\ home' = [home EXCEPT ![u] = 0]
                      /\ visit'[c] = [visit[c] EXCEPT !.one = u, !.step = "forget",
                            !.todo = Without(c, u)]
              \/ /\ UNCHANGED I!files
                 /\ visit'[c] = [visit[c] EXCEPT !.todo = [u \in I!Uids |-> NoEnv],
                       !.step = I!AfterPurge(c)]
<1>1. visit[c] \in Visited BY DEF VisitsTyped
<1>2. tenure' = tenure /\ I!At(c, "purge") BY DEF I!Purge
<1>3. ASSUME NEW r \in Visited, visit' = [visit EXCEPT ![c] = r], r.kind = visit[c].kind,
             r.to = visit[c].to,
             r.born = visit[c].born
      PROVE  GoesOn(c) /\ visit'[c] = r
  BY <1>2, <1>3 DEF VisitsTyped, GoesOn, KeepsOp, OthersKept
<1>4. ASSUME NEW u \in I!Uids, visit[c].todo[u] # NoEnv, up,
             dir' = IF I!Owned(visit[c].todo[u],
                   u) THEN [dir EXCEPT ![visit[c].todo[u]] = I!NoDir] ELSE dir,
             home' = [home EXCEPT ![u] = 0],
             visit' = [visit EXCEPT ![c].one = u, ![c].step = "forget", ![c].todo[u] = NoEnv]
      PROVE  GoesOn(c) /\ visit'[c] = [visit[c] EXCEPT !.one = u, !.step = "forget",
                 !.todo = Without(c, u)]
  <2>. DEFINE r == [visit[c] EXCEPT !.one = u, !.step = "forget", !.todo = Without(c, u)]
  <2>1. r \in Visited BY <1>1, <1>4, UidsAreNumbers DEF Visited, Without
  <2>2. visit' = [visit EXCEPT ![c] = r] BY <1>1, <1>4 DEF VisitsTyped, Visited, Without
  <2>3. r.kind = visit[c].kind /\ r.to = visit[c].to /\ r.born = visit[c].born BY <1>1 DEF Visited
  <2>. QED BY <2>1, <2>2, <2>3, <1>3
<1>5. ASSUME NEW u \in I!Uids, visit[c].todo[u] # NoEnv, I!NotForgotten(c, u)
      PROVE  GoesOn(c) /\ visit'[c] = [visit[c] EXCEPT !.todo = Without(c, u)]
  <2>. DEFINE r == [visit[c] EXCEPT !.todo = Without(c, u)]
  <2>1. r \in Visited BY <1>1 DEF Visited, Without
  <2>2. visit' = [visit EXCEPT ![c] = r]
    BY <1>1, <1>5 DEF VisitsTyped, Visited, Without, I!NotForgotten
  <2>3. r.kind = visit[c].kind /\ r.to = visit[c].to /\ r.born = visit[c].born BY <1>1 DEF Visited
  <2>. QED BY <2>1, <2>2, <2>3, <1>3
<1>6. ASSUME visit' = [visit EXCEPT ![c].todo = [u \in I!Uids |-> NoEnv],
                 ![c].step = I!AfterPurge(c)]
      PROVE  GoesOn(c) /\ visit'[c] = [visit[c] EXCEPT !.todo = [u \in I!Uids |-> NoEnv],
                 !.step = I!AfterPurge(c)]
  <2>. DEFINE r == [visit[c] EXCEPT !.todo = [u \in I!Uids |-> NoEnv], !.step = I!AfterPurge(c)]
  <2>0. I!AfterPurge(c) \in {"gone", "names", "allocate"} BY DEF I!AfterPurge
  <2>. HIDE DEF I!AfterPurge
  <2>1. r \in Visited BY <1>1, <2>0 DEF Visited
  <2>2. visit' = [visit EXCEPT ![c] = r] BY <1>1, <1>6 DEF VisitsTyped, Visited
  <2>3. r.kind = visit[c].kind /\ r.to = visit[c].to /\ r.born = visit[c].born BY <1>1 DEF Visited
  <2>. QED BY <2>1, <2>2, <2>3, <1>3
<1>7. \/ \E u \in I!Uids : /\ up /\ visit[c].todo[u] # NoEnv /\ home' = home
                           /\ dir' \in {dir, IF I!Owned(visit[c].todo[u], u)
                                             THEN [dir EXCEPT ![visit[c].todo[u]] = I!NoDir]
                                                 ELSE dir}
                           /\ I!NotForgotten(c, u)
      \/ \E u \in I!Uids :
           /\ up /\ visit[c].todo[u] # NoEnv
           /\ dir' = IF I!Owned(visit[c].todo[u],
                 u) THEN [dir EXCEPT ![visit[c].todo[u]] = I!NoDir] ELSE dir
           /\ home' = [home EXCEPT ![u] = 0]
           /\ visit' = [visit EXCEPT ![c].one = u, ![c].step = "forget", ![c].todo[u] = NoEnv]
      \/ /\ UNCHANGED I!files
         /\ visit' = [visit EXCEPT ![c].todo = [u \in I!Uids |-> NoEnv],
               ![c].step = I!AfterPurge(c)]
  <2>. HIDE DEF I!AfterPurge, I!Owned, I!NotForgotten
  <2>. QED BY DEF I!Purge
<1>8. CASE \E u \in I!Uids : /\ up /\ visit[c].todo[u] # NoEnv /\ home' = home
                             /\ dir' \in {dir, IF I!Owned(visit[c].todo[u], u)
                                               THEN [dir EXCEPT ![visit[c].todo[u]] = I!NoDir]
                                                   ELSE dir}
                             /\ I!NotForgotten(c, u)
  BY <1>2, <1>5, <1>8
<1>9. CASE \E u \in I!Uids :
             /\ up /\ visit[c].todo[u] # NoEnv
             /\ dir' = IF I!Owned(visit[c].todo[u],
                   u) THEN [dir EXCEPT ![visit[c].todo[u]] = I!NoDir] ELSE dir
             /\ home' = [home EXCEPT ![u] = 0]
             /\ visit' = [visit EXCEPT ![c].one = u, ![c].step = "forget", ![c].todo[u] = NoEnv]
  BY <1>2, <1>4, <1>9
<1>10. CASE /\ UNCHANGED I!files
            /\ visit' = [visit EXCEPT ![c].todo = [u \in I!Uids |-> NoEnv],
                  ![c].step = I!AfterPurge(c)]
  BY <1>2, <1>6, <1>10
<1>. QED BY <1>7, <1>8, <1>9, <1>10

(* What confirming a removal does.                                           *)
LEMMA ForgetEffect ==
    ASSUME VisitsTyped, NEW c \in Workers, I!ForgetRemoved(c)
    PROVE  GoesOn(c) /\ visit'[c] = [visit[c] EXCEPT !.one = 0, !.step = "purge"]
<1>1. visit[c] \in Visited BY DEF VisitsTyped
<1>2. [visit[c] EXCEPT !.one = 0, !.step = "purge"] \in Visited
  BY <1>1, UidsAreNumbers DEF Visited
<1>3. visit' = [visit EXCEPT ![c] = [visit[c] EXCEPT !.one = 0, !.step = "purge"]]
  BY <1>1 DEF I!ForgetRemoved, VisitsTyped, Visited
<1>. QED BY <1>1, <1>2, <1>3 DEF VisitsTyped, GoesOn, KeepsOp, OthersKept, Visited, I!ForgetRemoved

(* What asking for a uid does.                                               *)
LEMMA AllocateEffect ==
    ASSUME VisitsTyped, RegistryTyped, NEW c \in Workers, I!Me(c) \in Envs, I!Allocate(c)
    PROVE  \/ /\ GoesOn(c) /\ I!AllocateUid(I!Me(c))
              /\ visit'[c] = [visit[c] EXCEPT !.uid = I!Given(I!Me(c)), !.step = "provision"]
           \/ UNCHANGED I!registry /\ EndsOp(c)
<1>1. visit[c] \in Visited BY DEF VisitsTyped
<1>2. CASE /\ I!AllocateUid(I!Me(c)) /\ tenure' = tenure
           /\ visit' = [visit EXCEPT ![c].uid = I!Given(I!Me(c)), ![c].step = "provision"]
  <2>1. I!Given(I!Me(c)) \in 0..MaxUids
    BY <1>2, TenantsConstants DEF I!Given, I!AllocateUid, RegistryTyped, I!NextUid, I!IdConstants
  <2>. HIDE DEF I!Given
  <2>. DEFINE r == [visit[c] EXCEPT !.uid = I!Given(I!Me(c)), !.step = "provision"]
  <2>2. r \in Visited BY <1>1, <2>1 DEF Visited
  <2>3. visit' = [visit EXCEPT ![c] = r] BY <1>1, <1>2 DEF VisitsTyped, Visited
  <2>4. r.kind = visit[c].kind /\ r.to = visit[c].to /\ r.born = visit[c].born BY <1>1 DEF Visited
  <2>. QED BY <1>2, <2>2, <2>3, <2>4 DEF VisitsTyped, GoesOn, KeepsOp, OthersKept
<1>3. CASE UNCHANGED I!registry /\ I!Done(c) BY <1>3, DoneEffect
<1>. QED BY <1>2, <1>3 DEF I!Allocate

(* What moving the checkout does, when no rename is lost.                    *)
LEMMA MoveEffect ==
    ASSUME VisitsTyped, NEW c \in Workers, I!MoveDir(c)
    PROVE  \/ GoesOn(c) /\ visit'[c] = [visit[c] EXCEPT !.env = visit[c].to, !.step = "ensure"]
              /\ env' = [env EXCEPT ![visit[c].to] = visit[c].born]
           \/ "lost" \in Hazards
<1>1. visit[c] \in Visited BY DEF VisitsTyped
<1>2. CASE "lost" \notin Hazards
  <2>1. /\ env' = [env EXCEPT ![visit[c].to] = visit[c].born] /\ tenure' = tenure
        /\ visit' = [visit EXCEPT ![c].env = visit[c].to, ![c].step = "ensure"]
    BY <1>2 DEF I!MoveDir
  <2>. DEFINE r == [visit[c] EXCEPT !.env = visit[c].to, !.step = "ensure"]
  <2>2. r \in Visited BY <1>1 DEF Visited
  <2>3. visit' = [visit EXCEPT ![c] = r] BY <1>1, <2>1 DEF VisitsTyped, Visited
  <2>4. r.kind = visit[c].kind /\ r.to = visit[c].to /\ r.born = visit[c].born BY <1>1 DEF Visited
  <2>. QED BY <2>1, <2>2, <2>3, <2>4 DEF VisitsTyped, GoesOn, KeepsOp, OthersKept
<1>. QED BY <1>2

(* What listing the environments does.                                       *)
LEMMA NamesEffect ==
    ASSUME VisitsTyped, NEW c \in Workers, I!Names(c)
    PROVE  /\ GoesOn(c)
           /\ visit'[c] = [visit[c] EXCEPT !.names = {n \in Envs : env[n] # 0},
                 !.step = "provision_all"]
<1>1. visit[c] \in Visited BY DEF VisitsTyped
<1>. DEFINE s == {n \in Envs : env[n] # 0}
            r == [visit[c] EXCEPT !.names = s, !.step = "provision_all"]
<1>2. s \in SUBSET Envs OBVIOUS
<1>3. visit' = [visit EXCEPT ![c].names = s, ![c].step = "provision_all"] /\ tenure' = tenure
  BY DEF I!Names
<1>. HIDE DEF s
<1>4. r \in Visited BY <1>1, <1>2 DEF Visited
<1>5. visit' = [visit EXCEPT ![c] = r] BY <1>1, <1>3 DEF VisitsTyped, Visited
<1>6. r.kind = visit[c].kind /\ r.to = visit[c].to /\ r.born = visit[c].born BY <1>1 DEF Visited
<1>. QED BY <1>3, <1>4, <1>5, <1>6 DEF VisitsTyped, GoesOn, KeepsOp, OthersKept, s

(* How a step of a caller treats the locks: it goes on, it ends, it begins.  *)
TakesNames(c) ==
    /\ I!At(c, "none") /\ visit'[c].kind # "sync" /\ \A d \in Workers : visit[d].kind # "sync"
    /\ visit'[c].env \in Envs /\ visit'[c].to \in Envs
    /\ \A n \in {visit'[c].env, visit'[c].to} : tenure[n] = {} /\ tenure'[n] = {c}
    /\ \A n \in Envs \ {visit'[c].env, visit'[c].to} : tenure'[n] = tenure[n]
VisitLocks(c) ==
    \/ /\ ~I!At(c, "none") /\ tenure' = tenure /\ visit'[c].kind = visit[c].kind
       /\ visit'[c].to = visit[c].to /\ visit'[c].env \in Touches(c)
    \/ EndsOp(c)
    \/ TakesNames(c)
    \/ /\ tenure' = tenure /\ visit'[c].kind = "sync" /\ \A d \in Workers : I!At(d, "none")
VisitStep(c) == VisitsTyped' /\ OthersKept(c) /\ VisitLocks(c) /\ OpFits(c)'

(* Whoever begins finds its names unlocked, and locks them.                  *)
LEMMA BeginsTyped ==
    ASSUME VisitsTyped, EnvsTyped, Hazards \subseteq {"kept", "stayed"}, NEW c \in Workers,
           NEW n \in Envs, NEW m \in Envs,
           I!BeginCreate(c, n) \/ I!BeginHeal(c, n) \/ I!BeginDelete(c, n) \/ I!BeginRename(c, n, m)
    PROVE  /\ BeginsOp(c) /\ TakesNames(c) /\ visit'[c].env = n /\ visit'[c].born \in 0..MaxClones
           /\ \/ I!BeginCreate(c, n) /\ visit'[c].kind = "create" /\ visit'[c].step = "ensure"
                 /\ visit'[c].to = n /\ visit'[c].born = births + 1
              \/ I!BeginHeal(c, n) /\ visit'[c].kind = "heal" /\ visit'[c].step = "ensure"
                 /\ visit'[c].to = n /\ visit'[c].born = env[n]
              \/ I!BeginDelete(c, n) /\ visit'[c].kind = "delete" /\ visit'[c].step = "retire"
                 /\ visit'[c].to = n /\ visit'[c].born = env[n]
              \/ I!BeginRename(c, n, m) /\ visit'[c].kind = "rename"
                  /\ visit'[c].step = "rename_uid"
                 /\ visit'[c].to = m /\ visit'[c].born = env[n]
<1>1. ASSUME NEW b \in 0..MaxClones, NEW k \in Envs,
             NEW kind \in {"create", "delete", "rename", "heal"},
             NEW step \in {"ensure", "retire", "rename_uid"},
             I!Begin(c, kind, n, k, step, b), I!Locked(c, {n, k})
      PROVE  /\ BeginsOp(c) /\ TakesNames(c) /\ visit'[c].env = n /\ visit'[c].kind = kind
             /\ visit'[c].step = step /\ visit'[c].born = b /\ visit'[c].to = k
  <2>1. tenure' \in [Envs -> SUBSET Workers] BY <1>1 DEF I!Locked, VisitsTyped
  <2>2. /\ BeginsOp(c) /\ visit'[c].kind = kind /\ visit'[c].env = n /\ visit'[c].to = k
        /\ visit'[c].step = step /\ visit'[c].born = b
    BY <1>1, <2>1, BeginEffect
  <2>3. \A d \in Workers : visit[d].kind # "sync" BY <1>1 DEF I!Begin
  <2>4. I!At(c, "none") BY <1>1 DEF I!Begin
  <2>. QED BY <1>1, <2>2, <2>3, <2>4 DEF TakesNames, I!Locked
<1>2. env[n] \in 0..MaxClones /\ {n} = {n, n} BY DEF EnvsTyped
<1>3. CASE I!BeginCreate(c, n)
  <2>1. births + 1 \in 0..MaxClones BY <1>3, UidsAreNumbers DEF I!BeginCreate, EnvsTyped
  <2>. QED BY <1>1, <1>2, <1>3, <2>1 DEF I!BeginCreate
<1>4. CASE I!BeginHeal(c, n)
  <2>1. "unlocked" \notin Hazards OBVIOUS
  <2>. QED BY <1>1, <1>2, <1>4, <2>1 DEF I!BeginHeal
<1>5. CASE I!BeginDelete(c, n) BY <1>1, <1>2, <1>5 DEF I!BeginDelete
<1>6. CASE I!BeginRename(c, n, m) BY <1>1, <1>2, <1>6 DEF I!BeginRename
<1>. QED BY <1>3, <1>4, <1>5, <1>6

(* The synchronisation begins when nobody is at work.                        *)
LEMMA SyncBeginTyped ==
    ASSUME VisitsTyped, Hazards \subseteq {"kept", "stayed"}, NEW c \in Workers, I!BeginSync(c)
    PROVE  /\ BeginsOp(c) /\ tenure' = tenure /\ visit'[c].kind = "sync" /\ visit'[c].step = "list"
           /\ \A d \in Workers : I!At(d, "none")
<1>1. tenure' \in [Envs -> SUBSET Workers] /\ 0 \in 0..MaxClones
  BY UidsAreNumbers DEF I!BeginSync, VisitsTyped
<1>2. I!Begin(c, "sync", NoEnv, NoEnv, "list", 0) BY DEF I!BeginSync
<1>3. /\ BeginsOp(c) /\ visit'[c].kind = "sync" /\ visit'[c].step = "list"
  BY <1>1, <1>2, BeginEffect
<1>. QED BY <1>3 DEF I!BeginSync

(* Every step of a caller is one of these, and changes its own record only.  *)
LEMMA VisitsStayTyped ==
    ASSUME VisitsTyped, RegistryTyped, EnvsTyped, Hazards \subseteq {"kept", "stayed"}, OpsFit,
           NEW c \in Workers, Visits(c)
    PROVE  VisitStep(c)
<1>1. visit[c] \in Visited /\ OpFits(c) BY DEF VisitsTyped, OpsFit
<1>2. ASSUME EndsOp(c) PROVE VisitStep(c)
  BY <1>2 DEF EndsOp, VisitStep, VisitLocks, OpFits, I!Idle, I!At, Working, Moves
<1>3. ASSUME NEW n \in Envs, NEW m \in Envs,
             I!BeginCreate(c, n) \/ I!BeginHeal(c, n) \/ I!BeginDelete(c, n)
                 \/ I!BeginRename(c, n, m)
      PROVE  VisitStep(c)
  <2>1. /\ BeginsOp(c) /\ TakesNames(c) /\ visit'[c].env = n
        /\ \/ visit'[c].kind \in {"create", "heal"} /\ visit'[c].step = "ensure" /\ visit'[c].to = n
           \/ visit'[c].kind = "delete" /\ visit'[c].step = "retire" /\ visit'[c].to = n
           \/ visit'[c].kind = "rename" /\ visit'[c].step = "rename_uid" /\ visit'[c].to = m
              /\ I!BeginRename(c, n, m)
    BY <1>3, BeginsTyped
  <2>2. I!BeginRename(c, n, m) => n # m BY DEF I!BeginRename
  <2>3. OpFits(c)' BY <2>1, <2>2 DEF OpFits, I!At, Working, Moves, Adds, I!Me
  <2>. QED BY <2>1, <2>3 DEF VisitStep, VisitLocks, BeginsOp
<1>4. CASE I!BeginSync(c)
  <2>1. /\ BeginsOp(c) /\ tenure' = tenure /\ visit'[c].kind = "sync" /\ visit'[c].step = "list"
        /\ \A d \in Workers : I!At(d, "none")
    BY <1>4, SyncBeginTyped
  <2>2. OpFits(c)' BY <2>1 DEF OpFits, I!At, Working, Moves, Adds, I!Me
  <2>. QED BY <2>1, <2>2 DEF VisitStep, VisitLocks, BeginsOp
<1>5. ASSUME ~I!At(c, "none"), GoesOn(c), visit'[c].env \in Touches(c), OpFits(c)'
      PROVE  VisitStep(c)
  BY <1>5 DEF VisitStep, VisitLocks, GoesOn, KeepsOp
<1>6. CASE \E n \in Envs : I!SyncAllocate(c, n)
  <2>1. ~I!At(c, "none") /\ visit' = visit /\ tenure' = tenure BY <1>6 DEF I!SyncAllocate, I!At
  <2>2. GoesOn(c) BY <2>1 DEF GoesOn, KeepsOp, OthersKept, VisitsTyped
  <2>3. OpFits(c)' BY <1>1, <2>1 DEF OpFits, I!At, Working, Moves, Adds, I!Me
  <2>. QED BY <1>5, <2>1, <2>2, <2>3 DEF Touches, I!Me
<1>7. CASE I!Ensure(c)
  <2>1. I!At(c, "ensure") /\ (I!Go(c, "list") \/ I!Done(c)) BY <1>7 DEF I!Ensure
  <2>2. CASE I!Go(c, "list")
    <3>1. GoesOn(c) /\ visit'[c] = [visit[c] EXCEPT !.step = "list"] BY <2>2, GoEffect
    <3>2. OpFits(c)' /\ visit'[c].env \in Touches(c)
      BY <1>1, <2>1, <3>1 DEF OpFits, I!At, Working, Moves, Adds, I!Me, Visited, Touches
    <3>. QED BY <1>5, <2>1, <3>1, <3>2 DEF I!At
  <2>. QED BY <1>2, <2>1, <2>2, DoneEffect
<1>8. CASE I!List(c)
  <2>1. GoesOn(c) /\ visit'[c] = [visit[c] EXCEPT !.todo = pending, !.step = "purge"]
    BY <1>8, ListEffect
  <2>2. I!At(c, "list") BY <1>8 DEF I!List
  <2>3. OpFits(c)' /\ visit'[c].env \in Touches(c)
    BY <1>1, <2>1, <2>2 DEF OpFits, I!At, Working, Moves, Adds, I!Me, Visited, Touches
  <2>. QED BY <1>5, <2>1, <2>2, <2>3 DEF I!At
<1>9. CASE I!Purge(c)
  <2>1. /\ GoesOn(c) /\ I!At(c, "purge")
        /\ \/ \E u \in I!Uids : visit'[c] = [visit[c] EXCEPT !.todo = Without(c, u)]
           \/ \E u \in I!Uids :
                visit'[c] = [visit[c] EXCEPT !.one = u, !.step = "forget", !.todo = Without(c, u)]
           \/ visit'[c] = [visit[c] EXCEPT !.todo = [u \in I!Uids |-> NoEnv],
                 !.step = I!AfterPurge(c)]
    BY <1>9, PurgeEffect
  <2>2. /\ visit'[c].kind = visit[c].kind /\ visit'[c].env = visit[c].env
            /\ visit'[c].to = visit[c].to
        /\ \/ visit'[c].step = "purge"
           \/ visit'[c].step = "forget" /\ visit'[c].one \in I!Uids
           \/ visit'[c].step = I!AfterPurge(c)
    BY <1>1, <2>1 DEF Visited, I!At
  <2>3. I!AfterPurge(c) = IF visit[c].kind = "delete" THEN "gone"
                          ELSE IF visit[c].kind = "sync" THEN "names" ELSE "allocate"
    BY DEF I!AfterPurge
  <2>4. OpFits(c)' /\ visit'[c].env \in Touches(c)
    BY <1>1, <2>1, <2>2, <2>3 DEF OpFits, I!At, Working, Moves, Adds, I!Me, Visited, Touches
  <2>. QED BY <1>5, <2>1, <2>4 DEF I!At
<1>10. CASE I!ForgetRemoved(c)
  <2>1. GoesOn(c) /\ visit'[c] = [visit[c] EXCEPT !.one = 0, !.step = "purge"]
    BY <1>10, ForgetEffect
  <2>2. I!At(c, "forget") BY <1>10 DEF I!ForgetRemoved
  <2>3. OpFits(c)' /\ visit'[c].env \in Touches(c)
    BY <1>1, <2>1, <2>2 DEF OpFits, I!At, Working, Moves, Adds, I!Me, Visited, Touches
  <2>. QED BY <1>5, <2>1, <2>2, <2>3 DEF I!At
<1>11. CASE I!Allocate(c)
  <2>0. I!At(c, "allocate") /\ I!Me(c) \in Envs
    BY <1>1, <1>11 DEF I!Allocate, OpFits, I!At, Working, Adds, I!Me
  <2>1. \/ EndsOp(c)
        \/ GoesOn(c) /\ visit'[c] = [visit[c] EXCEPT !.uid = I!Given(I!Me(c)), !.step = "provision"]
    BY <1>11, <2>0, AllocateEffect
  <2>2. CASE GoesOn(c) /\ visit'[c] = [visit[c] EXCEPT !.uid = I!Given(I!Me(c)),
                 !.step = "provision"]
    <3>1. /\ visit'[c].kind = visit[c].kind /\ visit'[c].env = visit[c].env
              /\ visit'[c].to = visit[c].to
          /\ visit'[c].step = "provision"
      BY <1>1, <2>2 DEF Visited
    <3>2. OpFits(c)' /\ visit'[c].env \in Touches(c)
      BY <1>1, <2>0, <3>1 DEF OpFits, I!At, Working, Moves, Adds, I!Me, Touches
    <3>. QED BY <1>5, <2>0, <2>2, <3>2 DEF I!At
  <2>. QED BY <1>2, <2>1, <2>2
<1>12. CASE I!Provision(c) \/ I!Gone(c) \/ I!SyncProvision(c)
  BY <1>2, <1>12, DoneEffect DEF I!Provision, I!Gone, I!SyncProvision
<1>13. CASE I!Retire(c)
  <2>1. I!At(c, "retire") /\ (I!Go(c, "list") \/ I!Go(c, "gone"))
    BY <1>13 DEF I!Retire
  <2>2. GoesOn(c) /\ \E s \in {"list", "gone"} : visit'[c] = [visit[c] EXCEPT !.step = s]
    BY <2>1, GoEffect
  <2>3. OpFits(c)' /\ visit'[c].env \in Touches(c)
    BY <1>1, <2>1, <2>2 DEF OpFits, I!At, Working, Moves, Adds, I!Me, Visited, Touches
  <2>. QED BY <1>5, <2>1, <2>2, <2>3 DEF I!At
<1>14. CASE I!RenameUid(c)
  <2>1. I!At(c, "rename_uid") /\ I!Go(c, "move_dir") BY <1>14 DEF I!RenameUid
  <2>2. GoesOn(c) /\ visit'[c] = [visit[c] EXCEPT !.step = "move_dir"] BY <2>1, GoEffect
  <2>3. OpFits(c)' /\ visit'[c].env \in Touches(c)
    BY <1>1, <2>1, <2>2 DEF OpFits, I!At, Working, Moves, Adds, I!Me, Visited, Touches
  <2>. QED BY <1>5, <2>1, <2>2, <2>3 DEF I!At
<1>15. CASE I!MoveDir(c)
  <2>1. GoesOn(c) /\ visit'[c] = [visit[c] EXCEPT !.env = visit[c].to, !.step = "ensure"]
    BY <1>15, MoveEffect
  <2>2. I!At(c, "move_dir") BY <1>15 DEF I!MoveDir
  <2>3. OpFits(c)' /\ visit'[c].env \in Touches(c)
    BY <1>1, <2>1, <2>2 DEF OpFits, I!At, Working, Moves, Adds, I!Me, Visited, Touches
  <2>. QED BY <1>5, <2>1, <2>2, <2>3 DEF I!At
<1>16. CASE I!Names(c)
  <2>1. /\ GoesOn(c)
        /\ visit'[c] = [visit[c] EXCEPT !.names = {n \in Envs : env[n] # 0},
              !.step = "provision_all"]
    BY <1>16, NamesEffect
  <2>2. I!At(c, "names") BY <1>16 DEF I!Names
  <2>3. OpFits(c)' /\ visit'[c].env \in Touches(c)
    BY <1>1, <2>1, <2>2 DEF OpFits, I!At, Working, Moves, Adds, I!Me, Visited, Touches
  <2>. QED BY <1>5, <2>1, <2>2, <2>3 DEF I!At
<1>17. \/ \E n \in Envs, m \in Envs :
            I!BeginCreate(c, n) \/ I!BeginHeal(c, n) \/ I!BeginDelete(c, n)
                \/ I!BeginRename(c, n, m)
       \/ I!BeginSync(c) \/ (\E n \in Envs : I!SyncAllocate(c, n)) \/ I!Ensure(c) \/ I!List(c)
           \/ I!Purge(c)
       \/ I!ForgetRemoved(c) \/ I!Allocate(c) \/ I!Provision(c) \/ I!Gone(c) \/ I!SyncProvision(c)
       \/ I!Retire(c) \/ I!RenameUid(c) \/ I!MoveDir(c) \/ I!Names(c)
  BY DEF Visits
<1>18. (\E n \in Envs, m \in Envs :
          I!BeginCreate(c, n) \/ I!BeginHeal(c, n) \/ I!BeginDelete(c, n) \/ I!BeginRename(c, n, m))
       => VisitStep(c)
  BY <1>3
<1>. QED
  BY <1>4, <1>6, <1>7, <1>8, <1>9, <1>10, <1>11, <1>12, <1>13, <1>14, <1>15, <1>16, <1>17, <1>18

(* So callers hold the locks of their names, and the synchronisation is alone.*)
LEMMA HoldersGoOn ==
    ASSUME VisitsTyped, HoldsItsNames, SyncAlone, OpsFit, NEW c \in Workers, VisitStep(c)
    PROVE  HoldsItsNames' /\ SyncAlone' /\ OpsFit'
<1>. USE DEF I!Me, I!At, Working, Touches
<1>1. ASSUME NEW d \in Workers \ {c} PROVE visit'[d] = visit[d] /\ OpFits(d)'
  BY DEF VisitStep, OthersKept, OpsFit, OpFits, Moves, Adds
<1>2. OpFits(c) /\ OpFits(c)' BY DEF VisitStep, OpsFit
<1>3. HoldsItsNames'
  <2> SUFFICES ASSUME NEW d \in Workers, Working(d)'
               PROVE  tenure'[visit'[d].env] = {d} /\ tenure'[visit'[d].to] = {d}
    BY DEF HoldsItsNames
  <2>1. CASE d # c
    <3>1. visit'[d] = visit[d] /\ tenure[I!Me(d)] = {d} /\ tenure[visit[d].to] = {d}
            /\ I!Me(d) \in Envs
          /\ visit[d].to \in Envs
      BY <1>1, <2>1 DEF HoldsItsNames, OpsFit, OpFits
    <3>. QED BY <2>1, <3>1 DEF VisitStep, VisitLocks, EndsOp, TakesNames
  <2>2. CASE d = c
    BY <1>2, <2>2 DEF VisitStep, VisitLocks, EndsOp, TakesNames, HoldsItsNames, OpFits, I!Idle
  <2>. QED BY <2>1, <2>2
<1>4. SyncAlone'
  <2> SUFFICES ASSUME NEW a \in Workers, NEW d \in Workers, visit'[a].kind = "sync", d # a
               PROVE  visit'[d].step = "none"
    BY DEF SyncAlone
  <2>1. CASE a # c /\ d # c BY <1>1, <2>1 DEF SyncAlone
  <2>2. CASE d = c
    <3>1. visit[a].kind = "sync" /\ I!At(c, "none") BY <1>1, <2>2 DEF SyncAlone
    <3>. QED BY <1>2, <2>2, <3>1 DEF VisitStep, VisitLocks, EndsOp, TakesNames, I!Idle, OpsFit,
                OpFits
  <2>3. CASE a = c
    <3>1. visit[c].kind = "sync" \/ \A e \in Workers : I!At(e, "none")
      BY <2>3 DEF VisitStep, VisitLocks, EndsOp, TakesNames, I!Idle
    <3>2. I!At(d, "none") BY <2>3, <3>1 DEF SyncAlone
    <3>. QED BY <1>1, <2>3, <3>2
  <2>. QED BY <2>1, <2>2, <2>3
<1>. QED BY <1>1, <1>2, <1>3, <1>4 DEF OpsFit

(* What a step does to the files: it makes a uid the owner of what it        *)
(* provisions, or it only moves and removes.                                 *)
Shrinks ==
    /\ \A n \in Envs : dir'[n] = I!NoDir \/ \E m \in Envs : dir'[n] = dir[m]
    /\ \A u \in I!Uids : home'[u] \in {0, home[u]}
Provides(who, uid, b) ==
    /\ \A n \in Envs :
         \/ dir'[n] = dir[n]
         \/ /\ n \in who /\ dir'[n].uid = uid[n]
            /\ \/ dir[n].uid = 0 /\ dir'[n].born = b[n]
               \/ dir[n].uid = uid[n] /\ dir'[n].born = dir[n].born
    /\ \A u \in I!Uids :
         home'[u] = home[u] \/ \E n \in who : uid[n] = u /\ home'[u] = b[n]

(* Provisioning gives to a uid what nobody else owns.                        *)
LEMMA ProvisionEffect ==
    ASSUME FilesTyped, NEW who \in SUBSET Envs, NEW uid \in [Envs -> 0..MaxUids],
           NEW b \in [Envs -> 0..MaxClones], I!Provisioned(who, uid, b)
    PROVE  FilesTyped' /\ Provides(who, uid, b)
<1>1. ASSUME NEW u \in I!Uids
      PROVE  /\ home'[u] \in 0..MaxClones
             /\ home'[u] = home[u] \/ \E n \in who : uid[n] = u /\ home'[u] = b[n]
  <2>1. CASE (\E n \in who : uid[n] = u) /\ home[u] = 0
    <3>1. home'[u] = b[CHOOSE n \in who : uid[n] = u] BY <2>1 DEF I!Provisioned
    <3>2. PICK n \in who : n = CHOOSE m \in who : uid[m] = u BY <2>1
    <3>3. uid[n] = u BY <2>1, <3>2
    <3>. QED BY <3>1, <3>2, <3>3
  <2>2. CASE ~((\E n \in who : uid[n] = u) /\ home[u] = 0)
    BY <2>2 DEF I!Provisioned, FilesTyped
  <2>. QED BY <2>1, <2>2
<1>2. DOMAIN home' = I!Uids /\ home' = [u \in I!Uids |-> home'[u]] BY DEF I!Provisioned
<1>3. home' \in [I!Uids -> 0..MaxClones] BY <1>1, <1>2
<1>4. ASSUME NEW n \in Envs
      PROVE  /\ dir'[n] \in [uid : 0..MaxUids, born : 0..MaxClones]
             /\ \/ dir'[n] = dir[n]
                \/ /\ n \in who /\ dir'[n].uid = uid[n]
                   /\ \/ dir[n].uid = 0 /\ dir'[n].born = b[n]
                      \/ dir[n].uid = uid[n] /\ dir'[n].born = dir[n].born
  <2>1. dir'[n] = IF n \notin who \/ ~I!MayHave(n, uid[n]) THEN dir[n]
                  ELSE IF dir[n].uid = 0 THEN [uid |-> uid[n], born |-> b[n]]
                  ELSE [dir[n] EXCEPT !.uid = uid[n]]
    BY DEF I!Provisioned
  <2>2. dir[n] \in [uid : 0..MaxUids, born : 0..MaxClones] BY DEF FilesTyped
  <2>. QED BY <2>1, <2>2 DEF I!MayHave
<1>5. dir' = [n \in Envs |-> dir'[n]] BY DEF I!Provisioned
<1>6. dir' \in [Envs -> [uid : 0..MaxUids, born : 0..MaxClones]] BY <1>4, <1>5
<1>. QED BY <1>1, <1>3, <1>4, <1>6 DEF FilesTyped, Provides

(* What the two steps that provision do.                                     *)
LEMMA ProvisionTyped ==
    ASSUME VisitsTyped, RegistryTyped, FilesTyped, EnvsTyped, OpsFit, NEW c \in Workers
    PROVE  /\ I!Provision(c) /\ ~UNCHANGED I!files =>
                FilesTyped' /\ Provides({I!Me(c)}, [n \in Envs |-> visit[c].uid],
                      [n \in Envs |-> visit[c].born])
           /\ I!SyncProvision(c) /\ ~UNCHANGED I!files =>
                FilesTyped' /\ Provides(visit[c].names, uids, env)
<1>1. visit[c] \in Visited BY DEF VisitsTyped
<1>2. ASSUME I!Provision(c), ~UNCHANGED I!files
      PROVE  FilesTyped'
               /\ Provides({I!Me(c)}, [n \in Envs |-> visit[c].uid], [n \in Envs |-> visit[c].born])
  <2>1. I!Provisioned({I!Me(c)}, [n \in Envs |-> visit[c].uid], [n \in Envs |-> visit[c].born])
    BY <1>2 DEF I!Provision
  <2>2. {I!Me(c)} \in SUBSET Envs BY <1>2 DEF I!Provision, OpsFit, OpFits, I!At, Working, Adds, I!Me
  <2>3. /\ [n \in Envs |-> visit[c].uid] \in [Envs -> 0..MaxUids]
        /\ [n \in Envs |-> visit[c].born] \in [Envs -> 0..MaxClones]
    BY <1>1 DEF Visited
  <2>. QED BY <2>1, <2>2, <2>3, ProvisionEffect
<1>3. ASSUME I!SyncProvision(c), ~UNCHANGED I!files
      PROVE  FilesTyped' /\ Provides(visit[c].names, uids, env)
  <2>1. I!Provisioned(visit[c].names, uids, env) BY <1>3 DEF I!SyncProvision
  <2>2. visit[c].names \in SUBSET Envs BY <1>1 DEF Visited
  <2>. QED BY <2>1, <2>2, ProvisionEffect DEF RegistryTyped, EnvsTyped
<1>. QED BY <1>2, <1>3

(* Nothing is given where the files stay as they are.                        *)
LEMMA NothingShrinks == ASSUME UNCHANGED I!files PROVE Shrinks
BY DEF Shrinks, I!files

(* A purge gives nobody anything.                                            *)
LEMMA PurgeShrinks ==
    ASSUME VisitsTyped, FilesTyped, NEW c \in Workers, I!Purge(c)
    PROVE  Shrinks /\ FilesTyped'
<1>1. I!NoDir \in [uid : 0..MaxUids, born : 0..MaxClones] /\ 0 \in 0..MaxClones
  BY UidsAreNumbers DEF I!NoDir
<1>2. visit[c] \in Visited BY DEF VisitsTyped
<1>3. UNCHANGED I!files
      \/ \E u \in I!Uids : /\ visit[c].todo[u] # NoEnv
                           /\ dir' = dir \/ dir' = [dir EXCEPT ![visit[c].todo[u]] = I!NoDir]
                           /\ home' = home \/ home' = [home EXCEPT ![u] = 0]
  BY PurgeEffect
<1>4. CASE UNCHANGED I!files BY <1>4, NothingShrinks DEF I!files, FilesTyped
<1>5. ASSUME NEW u \in I!Uids, visit[c].todo[u] # NoEnv,
             dir' = dir \/ dir' = [dir EXCEPT ![visit[c].todo[u]] = I!NoDir],
             home' = home \/ home' = [home EXCEPT ![u] = 0]
      PROVE  Shrinks /\ FilesTyped'
  BY <1>1, <1>2, <1>5 DEF Shrinks, FilesTyped, Visited
<1>. QED BY <1>3, <1>4, <1>5

(* Nor does moving a checkout.                                               *)
LEMMA MoveShrinks ==
    ASSUME VisitsTyped, FilesTyped, NEW c \in Workers, I!MoveDir(c), OpsFit
    PROVE  Shrinks /\ FilesTyped'
<1>1. I!NoDir \in [uid : 0..MaxUids, born : 0..MaxClones] BY UidsAreNumbers DEF I!NoDir
<1>2. I!Me(c) \in Envs /\ visit[c].to \in Envs
  BY DEF I!MoveDir, OpsFit, OpFits, Working, Moves, I!At, I!Me
<1>3. \/ dir' = dir \/ dir' = [dir EXCEPT ![visit[c].to] = I!NoDir]
      \/ dir' = [dir EXCEPT ![visit[c].to] = dir[I!Me(c)], ![I!Me(c)] = I!NoDir]
  BY DEF I!MoveDir
<1>4. home' = home BY DEF I!MoveDir
<1>. QED BY <1>1, <1>2, <1>3, <1>4 DEF Shrinks, FilesTyped

(* Every step provisions, or gives nobody anything.                          *)
LEMMA FilesSteps ==
    ASSUME VisitsTyped, RegistryTyped, FilesTyped, EnvsTyped, OpsFit, NEW c \in Workers, Visits(c)
    PROVE  /\ FilesTyped'
           /\ \/ Shrinks
              \/ I!Provision(c)
                  /\ Provides({I!Me(c)}, [n \in Envs |-> visit[c].uid],
                        [n \in Envs |-> visit[c].born])
              \/ I!SyncProvision(c) /\ Provides(visit[c].names, uids, env)
<1>1. ASSUME UNCHANGED I!files PROVE Shrinks /\ FilesTyped'
  BY <1>1, NothingShrinks DEF I!files, FilesTyped
<1>2. CASE \/ \E n \in Envs : \/ I!BeginCreate(c, n) \/ I!BeginHeal(c, n) \/ I!BeginDelete(c, n)
                              \/ I!SyncAllocate(c, n) \/ \E m \in Envs : I!BeginRename(c, n, m)
           \/ I!BeginSync(c) \/ I!Ensure(c) \/ I!List(c) \/ I!ForgetRemoved(c) \/ I!Allocate(c)
               \/ I!Gone(c)
           \/ I!RenameUid(c) \/ I!Names(c)
  <2>1. UNCHANGED I!files
    BY <1>2 DEF I!BeginCreate, I!BeginHeal, I!BeginDelete, I!SyncAllocate, I!BeginRename,
       I!BeginSync, I!Ensure,
                I!List, I!ForgetRemoved, I!Allocate, I!Gone, I!RenameUid, I!Names, I!files
  <2>. QED BY <1>1, <2>1
<1>3. CASE I!Purge(c) BY <1>3, PurgeShrinks
<1>4. CASE I!MoveDir(c) BY <1>4, MoveShrinks
<1>5. CASE I!Retire(c)
  <2>1. I!NoDir \in [uid : 0..MaxUids, born : 0..MaxClones] BY UidsAreNumbers DEF I!NoDir
  <2>2. home' = home /\ (dir' = dir \/ dir' = [dir EXCEPT ![I!Me(c)] = I!NoDir])
    BY <1>5 DEF I!Retire
  <2>. QED BY <2>1, <2>2 DEF Shrinks, FilesTyped
<1>6. CASE I!Provision(c) BY <1>1, <1>6, ProvisionTyped
<1>7. CASE I!SyncProvision(c) BY <1>1, <1>7, ProvisionTyped
<1>. QED BY <1>2, <1>3, <1>4, <1>5, <1>6, <1>7 DEF Visits

(* A uid that is given is the environment's own, or nobody has had it.       *)
LEMMA AllocateTyped ==
    ASSUME RegistryTyped, UidsOnce, NEW n \in Envs, I!AllocateUid(n)
    PROVE  /\ RegistryTyped' /\ pending' = pending /\ \A m \in Envs \ {n} : uids'[m] = uids[m]
           /\ \/ uids[n] # 0 /\ uids' = uids /\ next' = next
              \/ uids[n] = 0 /\ uids'[n] = next /\ next' = next + 1 /\ next \in I!Uids
           /\ uids'[n] = I!Given(n) /\ I!Given(n) # 0
BY UidsAreNumbers DEF RegistryTyped, UidsOnce, I!AllocateUid, I!Given, I!NextUid, I!Uids

(* The registry, the environments and the counters keep their types.         *)
LEMMA RegistryStaysTyped ==
    ASSUME VisitsTyped, RegistryTyped, FilesTyped, EnvsTyped, IdCountsTyped, OpsFit, UidsOnce,
           Hazards \subseteq {"kept", "stayed"}, NEW c \in Workers, Visits(c)
    PROVE  RegistryTyped' /\ EnvsTyped' /\ IdCountsTyped'
<1>0. visit[c] \in Visited /\ OpFits(c) BY DEF VisitsTyped, OpsFit
<1>1. IdCountsTyped'
  <2>1. up' = up \/ up' = TRUE
    BY DEF Visits, I!BeginCreate, I!BeginHeal, I!BeginDelete, I!SyncAllocate, I!BeginRename,
       I!BeginSync,
           I!Ensure, I!List, I!Purge, I!ForgetRemoved, I!Allocate, I!Provision, I!Retire, I!Gone,
           I!RenameUid,
           I!MoveDir, I!Names, I!SyncProvision
  <2>0. up' \in BOOLEAN BY <2>1 DEF IdCountsTyped
  <2>2. CASE \/ \E n \in Envs : \/ I!BeginCreate(c, n) \/ I!BeginHeal(c, n) \/ I!BeginDelete(c, n)
                                \/ \E m \in Envs : I!BeginRename(c, n, m)
             \/ I!BeginSync(c)
    <3>1. idOps < IdOps /\ idOps' = idOps + 1 /\ idFailures' = idFailures
      BY <2>2 DEF I!BeginCreate, I!BeginHeal, I!BeginDelete, I!BeginRename, I!BeginSync, I!Begin
    <3>2. idOps' \in 0..IdOps /\ idFailures' \in 0..IdFailures
      BY <3>1, UidsAreNumbers DEF IdCountsTyped
    <3>. QED BY <2>0, <3>2 DEF IdCountsTyped
  <2>3. CASE \/ \E n \in Envs : I!SyncAllocate(c, n)
             \/ I!Ensure(c) \/ I!List(c) \/ I!Purge(c) \/ I!ForgetRemoved(c) \/ I!Allocate(c)
                 \/ I!Provision(c)
             \/ I!Retire(c) \/ I!Gone(c) \/ I!RenameUid(c) \/ I!MoveDir(c) \/ I!Names(c)
                 \/ I!SyncProvision(c)
    <3>1. I!Works \/ I!Fails
      BY <2>3 DEF I!SyncAllocate, I!Ensure, I!List, I!Purge, I!ForgetRemoved, I!Allocate,
         I!Provision, I!Retire,
                  I!Gone, I!RenameUid, I!MoveDir, I!Names, I!SyncProvision
    <3>2. idOps' \in 0..IdOps /\ idFailures' \in 0..IdFailures
      BY <3>1, UidsAreNumbers DEF IdCountsTyped, I!Works, I!Fails
    <3>. QED BY <2>0, <3>2 DEF IdCountsTyped
  <2>. QED BY <2>2, <2>3 DEF Visits
<1>2. EnvsTyped'
  <2>1. CASE UNCHANGED <<env, births>> BY <2>1 DEF EnvsTyped
  <2>2. CASE \E n \in Envs : I!BeginCreate(c, n)
    BY <2>2, UidsAreNumbers DEF I!BeginCreate, EnvsTyped
  <2>3. CASE \E n \in Envs, m \in Envs : I!BeginRename(c, n, m)
    BY <2>3, UidsAreNumbers DEF I!BeginRename, EnvsTyped
  <2>4. CASE I!Gone(c) BY <2>4, UidsAreNumbers DEF I!Gone, EnvsTyped
  <2>5. CASE I!MoveDir(c)
    <3>1. env' = [env EXCEPT ![visit[c].to] = visit[c].born] /\ births' = births
      BY <2>5 DEF I!MoveDir
    <3>. QED BY <3>1, <1>0 DEF EnvsTyped, Visited
  <2>. QED
    BY <2>1, <2>2, <2>3, <2>4, <2>5
       DEF Visits, I!BeginHeal, I!BeginDelete, I!SyncAllocate, I!BeginSync, I!Ensure, I!List,
           I!Purge,
           I!ForgetRemoved, I!Allocate, I!Provision, I!Retire, I!RenameUid, I!Names, I!SyncProvision
<1>3. RegistryTyped'
  <2>1. CASE UNCHANGED I!registry BY <2>1 DEF RegistryTyped, I!registry
  <2>2. CASE \E n \in Envs : I!SyncAllocate(c, n) BY <2>2, AllocateTyped DEF I!SyncAllocate
  <2>3. CASE I!Allocate(c)
    <3>1. I!Me(c) \in Envs BY <1>0, <2>3 DEF I!Allocate, OpFits, I!At, Working, Adds, I!Me
    <3>. QED BY <2>1, <2>3, <3>1, AllocateTyped DEF I!Allocate
  <2>4. CASE I!Retire(c)
    <3>1. I!Me(c) \in Envs BY <1>0, <2>4 DEF I!Retire, OpFits, I!At, Working, I!Me
    <3>2. /\ next' = next /\ uids' = [uids EXCEPT ![I!Me(c)] = 0]
          /\ pending' = pending \/ pending' = [pending EXCEPT ![uids[I!Me(c)]] = I!Me(c)]
      BY <2>4 DEF I!Retire
    <3>. QED BY <3>1, <3>2, UidsAreNumbers DEF RegistryTyped
  <2>5. CASE I!ForgetRemoved(c)
    BY <2>5 DEF I!ForgetRemoved, RegistryTyped
  <2>6. CASE I!RenameUid(c)
    <3>1. I!Me(c) \in Envs /\ visit[c].to \in Envs
      BY <1>0, <2>6 DEF I!RenameUid, OpFits, I!At, Working, I!Me, Moves
    <3>2. /\ next' = next /\ pending' = pending
          /\ \/ uids' = uids
             \/ uids' = [uids EXCEPT ![visit[c].to] = uids[I!Me(c)], ![I!Me(c)] = 0]
      BY <2>6 DEF I!RenameUid
    <3>. QED BY <3>1, <3>2, UidsAreNumbers DEF RegistryTyped
  <2>. QED
    BY <2>1, <2>2, <2>3, <2>4, <2>5, <2>6
       DEF Visits, I!BeginCreate, I!BeginHeal, I!BeginDelete, I!BeginRename, I!BeginSync, I!Ensure,
           I!List, I!Purge,
           I!Provision, I!Gone, I!MoveDir, I!Names, I!SyncProvision, I!registry
<1>. QED BY <1>1, <1>2, <1>3

(* What a uid owns after a step.                                             *)
WillServe(u, b) ==
    u # 0 => /\ \A n \in Envs : dir'[n].uid = u => dir'[n].born = b
             /\ home'[u] \in {0, b}

(* What serves one creation serves it still when nothing is given.           *)
LEMMA ShrinksServe ==
    ASSUME Shrinks, RegistryTyped
    PROVE  \A u \in 0..MaxUids : \A b \in 0..MaxClones : Serves(u, b) => WillServe(u, b)
<1> SUFFICES ASSUME NEW u \in 0..MaxUids, NEW b \in 0..MaxClones, Serves(u, b), u # 0
             PROVE  /\ \A n \in Envs : dir'[n].uid = u => dir'[n].born = b
                    /\ home'[u] \in {0, b}
  BY DEF WillServe
<1>1. u \in I!Uids BY UidsAreNumbers DEF I!Uids
<1>. QED BY <1>1 DEF Shrinks, Serves, I!NoDir

(* And when it is given for that creation.                                   *)
LEMMA ProvidesServe ==
    ASSUME NEW who \in SUBSET Envs, NEW uid, NEW b, Provides(who, uid, b)
    PROVE  \A u \in 0..MaxUids : \A x \in 0..MaxClones :
             Serves(u, x) /\ (\A n \in who : uid[n] = u => b[n] = x) => WillServe(u, x)
<1> SUFFICES ASSUME NEW u \in 0..MaxUids, NEW x \in 0..MaxClones, Serves(u, x), u # 0,
                    \A n \in who : uid[n] = u => b[n] = x
             PROVE  /\ \A n \in Envs : dir'[n].uid = u => dir'[n].born = x
                    /\ home'[u] \in {0, x}
  BY DEF WillServe
<1>1. u \in I!Uids BY UidsAreNumbers DEF I!Uids
<1>. QED BY <1>1 DEF Provides, Serves

(* Two operations have no name in common.                                    *)
LEMMA NamesApart ==
    ASSUME HoldsItsNames, OpsFit, NEW c \in Workers, NEW d \in Workers, c # d, Working(c),
           Working(d)
    PROVE  Touches(c) \cap Touches(d) = {}
BY DEF HoldsItsNames, OpsFit, OpFits, Touches

(* A step changes nothing under the names of another operation.              *)
LEMMA AnothersNameStays ==
    ASSUME IdInv, Hazards \subseteq {"kept", "stayed"}, NEW c \in Workers, Visits(c),
           NEW d \in Workers, d # c, Working(d)
    PROVE  /\ visit[c].kind # "sync" /\ \A n \in Touches(d) : uids'[n] = uids[n] /\ env'[n] = env[n]
           /\ visit'[d] = visit[d] /\ ~I!SyncProvision(c)
<1>. USE DEF IdInv
<1>1. OpFits(d) /\ OpFits(c) /\ Touches(d) \subseteq Envs BY DEF OpsFit, OpFits, Touches
<1>2. visit[c].kind # "sync" BY <1>1 DEF SyncAlone, Working, OpFits
<1>3. visit'[d] = visit[d] BY VisitsStayTyped DEF VisitStep, OthersKept
<1>4. ~I!SyncProvision(c) /\ ~I!Names(c) /\ ~\E n \in Envs : I!SyncAllocate(c, n)
  BY <1>1, <1>2 DEF I!SyncProvision, I!Names, I!SyncAllocate, OpFits, I!At
<1>5. ASSUME NEW n \in Touches(d) PROVE uids'[n] = uids[n] /\ env'[n] = env[n]
  <2>1. n \in Envs /\ tenure[n] = {d} BY <1>1 DEF HoldsItsNames, Touches
  <2>2. ~I!At(c, "none") => n \notin Touches(c) /\ I!Me(c) \in Envs /\ visit[c].to \in Envs
    <3>1. ~I!At(c, "none") => Working(c) BY <1>1, <1>2 DEF Working, OpFits
    <3>. QED BY <3>1, <1>1, NamesApart DEF OpFits
  <2>3. CASE UNCHANGED <<env, uids>> BY <2>3
  <2>4. CASE \E k \in Envs : I!BeginCreate(c, k)
    BY <2>1, <2>4 DEF I!BeginCreate, I!Locked, EnvsTyped, I!registry
  <2>5. CASE \E k \in Envs, m \in Envs : I!BeginRename(c, k, m)
    BY <2>1, <2>5 DEF I!BeginRename, I!Locked, EnvsTyped, I!registry
  <2>6. CASE I!Allocate(c)
    <3>1. n # I!Me(c) /\ I!Me(c) \in Envs BY <2>2, <2>6 DEF I!Allocate, I!At, Touches
    <3>. QED BY <2>1, <2>6, <3>1, AllocateTyped DEF I!Allocate, I!registry
  <2>7. CASE I!Retire(c)
    <3>1. n # I!Me(c) BY <2>2, <2>7 DEF I!Retire, I!At, Touches
    <3>2. uids' = [uids EXCEPT ![I!Me(c)] = 0] /\ env' = env BY <2>7 DEF I!Retire
    <3>. QED BY <2>1, <3>1, <3>2 DEF RegistryTyped
  <2>8. CASE I!Gone(c)
    <3>1. n # I!Me(c) BY <2>2, <2>8 DEF I!Gone, I!At, Touches
    <3>. QED BY <2>1, <2>8, <3>1 DEF I!Gone, EnvsTyped, I!registry
  <2>9. CASE I!RenameUid(c)
    <3>1. n # I!Me(c) /\ n # visit[c].to BY <2>2, <2>9 DEF I!RenameUid, I!At, Touches
    <3>. QED BY <2>1, <2>9, <3>1 DEF I!RenameUid, RegistryTyped
  <2>10. CASE I!MoveDir(c)
    <3>1. n # visit[c].to BY <2>2, <2>10 DEF I!MoveDir, I!At, Touches
    <3>2. uids' = uids /\ (env' = [env EXCEPT ![visit[c].to] = visit[c].born] \/ env' = env)
      BY <2>10 DEF I!MoveDir, I!registry
    <3>. QED BY <2>1, <3>1, <3>2 DEF EnvsTyped
  <2>. QED
    BY <1>4, <2>3, <2>4, <2>5, <2>6, <2>7, <2>8, <2>9, <2>10
       DEF Visits, I!BeginHeal, I!BeginDelete, I!BeginSync, I!Ensure, I!List, I!Purge,
           I!ForgetRemoved, I!Provision,
           I!registry
<1>. QED BY <1>2, <1>3, <1>4, <1>5

(* Nobody takes a step beside the synchronisation.                           *)
LEMMA NobodyBesidesSync ==
    ASSUME IdInv, Hazards \subseteq {"kept", "stayed"}, NEW c \in Workers, Visits(c),
           NEW d \in Workers, d # c
    PROVE  visit[d].kind # "sync"
<1> SUFFICES ASSUME visit[d].kind = "sync" PROVE FALSE OBVIOUS
<1>1. I!At(c, "none") /\ ~I!At(d, "none") BY DEF IdInv, SyncAlone, OpsFit, OpFits
<1>2. \/ \E n \in Envs : \/ I!BeginCreate(c, n) \/ I!BeginHeal(c, n) \/ I!BeginDelete(c, n)
                         \/ \E m \in Envs : I!BeginRename(c, n, m)
      \/ I!BeginSync(c)
  BY <1>1 DEF Visits, I!At, I!SyncAllocate, I!Ensure, I!List, I!Purge, I!ForgetRemoved, I!Allocate,
     I!Provision,
              I!Retire, I!Gone, I!RenameUid, I!MoveDir, I!Names, I!SyncProvision
<1>3. CASE I!BeginSync(c) BY <1>1, <1>3, SyncBeginTyped DEF IdInv
<1>4. CASE \E n \in Envs : \/ I!BeginCreate(c, n) \/ I!BeginHeal(c, n) \/ I!BeginDelete(c, n)
                           \/ \E m \in Envs : I!BeginRename(c, n, m)
  BY <1>4, BeginsTyped DEF IdInv, TakesNames
<1>. QED BY <1>2, <1>3, <1>4

(* Uids are given once, whatever step is taken.                              *)
LEMMA UidsStayOnce ==
    ASSUME IdInv, Hazards \subseteq {"kept", "stayed"}, NEW c \in Workers, Visits(c)
    PROVE  UidsOnce' /\ PendingRetired' /\ NewOwnsNothing'
<1>. USE DEF IdInv
<1>0. /\ OpFits(c) /\ OpStage(c) /\ FilesTyped' /\ RegistryTyped'
      /\ \/ Shrinks
         \/ I!Provision(c)
             /\ Provides({I!Me(c)}, [n \in Envs |-> visit[c].uid], [n \in Envs |-> visit[c].born])
         \/ I!SyncProvision(c) /\ Provides(visit[c].names, uids, env)
  BY FilesSteps, RegistryStaysTyped DEF OpsFit, OpStages
<1>a. next \in Nat /\ next > 0 /\ I!NoDir.uid = 0 BY UidsAreNumbers DEF RegistryTyped, I!NoDir
<1>1. next' \in Nat /\ next' >= next /\ NewOwnsNothing'
  <2>1. next' = next \/ next' = next + 1
    BY DEF Visits, I!BeginCreate, I!BeginHeal, I!BeginDelete, I!SyncAllocate, I!BeginRename,
       I!BeginSync, I!Ensure,
           I!List, I!Purge, I!ForgetRemoved, I!Allocate, I!Provision, I!Retire, I!Gone,
           I!RenameUid, I!MoveDir, I!Names,
           I!SyncProvision, I!registry, I!AllocateUid, I!NextUid
  <2>2. next' \in Nat /\ next' >= next BY <2>1, <1>a
  <2>3. /\ \A n \in Envs : dir'[n].uid < next
        /\ \A u \in I!Uids : home'[u] # 0 => u < next
    <3>1. CASE Shrinks BY <1>a, <3>1 DEF Shrinks, NewOwnsNothing
    <3>2. CASE /\ I!Provision(c)
               /\ Provides({I!Me(c)}, [n \in Envs |-> visit[c].uid], [n \in Envs |-> visit[c].born])
      <4>1. visit[c].uid < next /\ I!Me(c) \in Envs
        BY <1>0, <3>2 DEF I!Provision, OpStage, UidsOnce, OpFits, Working, I!At, I!Me, Adds
      <4>. QED BY <3>2, <4>1 DEF Provides, NewOwnsNothing
    <3>3. CASE I!SyncProvision(c) /\ Provides(visit[c].names, uids, env)
      <4>1. visit[c].names \subseteq Envs BY DEF VisitsTyped, Visited
      <4>. QED BY <3>3, <4>1 DEF Provides, NewOwnsNothing, UidsOnce
    <3>. QED BY <1>0, <3>1, <3>2, <3>3
  <2>4. ASSUME NEW n \in Envs PROVE dir'[n].uid < next'
    <3>1. dir'[n].uid \in 0..MaxUids BY <1>0 DEF FilesTyped
    <3>. QED BY <2>2, <2>3, <3>1, <1>a, UidsAreNumbers
  <2>5. ASSUME NEW u \in I!Uids, home'[u] # 0 PROVE u < next'
    BY <2>2, <2>3, <2>5, <1>a, UidsAreNumbers
  <2>. QED BY <2>2, <2>4, <2>5 DEF NewOwnsNothing
<1>2. UidsOnce' /\ PendingRetired'
  <2>1. CASE UNCHANGED I!registry
    BY <2>1 DEF I!registry, UidsOnce, PendingRetired, Retired
  <2>2. ASSUME NEW n \in Envs, I!AllocateUid(n) PROVE UidsOnce' /\ PendingRetired'
    <3>1. /\ pending' = pending /\ \A m \in Envs \ {n} : uids'[m] = uids[m]
          /\ \/ uids[n] # 0 /\ uids' = uids /\ next' = next
             \/ uids[n] = 0 /\ uids'[n] = next /\ next' = next + 1 /\ next \in I!Uids
      BY <2>2, AllocateTyped
    <3>2. CASE uids' = uids /\ next' = next
      BY <3>1, <3>2 DEF UidsOnce, PendingRetired, Retired
    <3>3. CASE uids[n] = 0 /\ uids'[n] = next /\ next' = next + 1
      <4>1. \A m \in Envs : uids[m] \in Nat BY UidsAreNumbers DEF RegistryTyped
      <4>2. UidsOnce' BY <3>1, <3>3, <4>1, <1>a DEF UidsOnce
      <4>3. PendingRetired' BY <3>1, <3>3, <4>1, <1>a, UidsAreNumbers DEF PendingRetired, Retired
      <4>. QED BY <4>2, <4>3
    <3>. QED BY <3>1, <3>2, <3>3
  <2>3. CASE I!Retire(c)
    <3>1. I!Me(c) \in Envs BY <1>0, <2>3 DEF I!Retire, OpFits, I!At, Working, I!Me
    <3>2. /\ next' = next /\ uids' = [uids EXCEPT ![I!Me(c)] = 0]
          /\ pending' = IF uids[I!Me(c)] = 0 THEN pending
              ELSE [pending EXCEPT ![uids[I!Me(c)]] = I!Me(c)]
      BY <2>3 DEF I!Retire
    <3>3. \A n \in Envs : uids'[n] = IF n = I!Me(c) THEN 0 ELSE uids[n] BY <3>2 DEF RegistryTyped
    <3>4. UidsOnce' BY <3>1, <3>2, <3>3, <1>a DEF UidsOnce
    <3>5. PendingRetired'
      <4> SUFFICES ASSUME NEW u \in I!Uids, pending'[u] # NoEnv
                   PROVE  u < next /\ \A n \in Envs : uids'[n] # u
        BY <3>2 DEF PendingRetired, Retired
      <4>1. CASE u = uids[I!Me(c)] BY <3>1, <3>3, <4>1, UidsAreNumbers DEF UidsOnce
      <4>2. CASE u # uids[I!Me(c)]
        <5>1. pending[u] # NoEnv BY <3>2, <4>2 DEF RegistryTyped
        <5>. QED BY <3>3, <5>1, UidsAreNumbers DEF PendingRetired, Retired
      <4>. QED BY <4>1, <4>2
    <3>. QED BY <3>4, <3>5
  <2>4. CASE I!ForgetRemoved(c)
    BY <2>4 DEF I!ForgetRemoved, UidsOnce, PendingRetired, Retired, RegistryTyped
  <2>5. CASE I!RenameUid(c)
    <3>1. I!Me(c) \in Envs /\ visit[c].to \in Envs /\ I!Me(c) # visit[c].to /\ uids[visit[c].to] = 0
      BY <1>0, <2>5 DEF I!RenameUid, OpFits, I!At, Working, I!Me, Moves, OpStage
    <3>2. /\ next' = next /\ pending' = pending
          /\ \/ uids' = uids
             \/ uids' = [uids EXCEPT ![visit[c].to] = uids[I!Me(c)], ![I!Me(c)] = 0]
      BY <2>5 DEF I!RenameUid
    <3>3. CASE uids' = uids BY <3>2, <3>3 DEF UidsOnce, PendingRetired, Retired
    <3>4. CASE uids' = [uids EXCEPT ![visit[c].to] = uids[I!Me(c)], ![I!Me(c)] = 0]
      <4>1. \A n \in Envs : uids'[n] = IF n = I!Me(c) THEN 0
              ELSE IF n = visit[c].to THEN uids[I!Me(c)]
                                       ELSE uids[n]
        BY <3>1, <3>4 DEF RegistryTyped
      <4>2. UidsOnce' BY <3>1, <3>2, <4>1, <1>a DEF UidsOnce
      <4>3. PendingRetired' BY <3>1, <3>2, <4>1, <1>a, UidsAreNumbers DEF PendingRetired, Retired
      <4>. QED BY <4>2, <4>3
    <3>. QED BY <3>2, <3>3, <3>4
  <2>6. I!Allocate(c) => I!Me(c) \in Envs BY <1>0 DEF I!Allocate, OpFits, I!At, Working, Adds, I!Me
  <2>. QED
    BY <2>1, <2>2, <2>3, <2>4, <2>5, <2>6
       DEF Visits, I!BeginCreate, I!BeginHeal, I!BeginDelete, I!BeginRename, I!BeginSync,
           I!SyncAllocate, I!Ensure,
           I!List, I!Purge, I!Allocate, I!Provision, I!Gone, I!MoveDir, I!Names, I!SyncProvision,
           I!registry
<1>. QED BY <1>1, <1>2

(* What another operation relies on stays true.                              *)
LEMMA OthersStagesKept ==
    ASSUME IdInv, Hazards \subseteq {"kept", "stayed"}, NEW c \in Workers, Visits(c),
           NEW d \in Workers, d # c
    PROVE  OpStage(d)'
<1>. USE DEF IdInv
<1>1. /\ visit'[d] = visit[d] /\ OpFits(d) /\ OpFits(c) /\ OpStage(d) /\ OpStage(c)
      /\ visit[d].kind # "sync" /\ visit[d] \in Visited
  BY VisitsStayTyped, NobodyBesidesSync DEF VisitStep, OthersKept, OpsFit, OpStages, VisitsTyped
<1>2. CASE ~Working(d)
  BY <1>1, <1>2 DEF Working, OpStage, OpFits, Adds, Moves, I!At
<1>3. CASE Working(d)
  <2>1. /\ ~I!SyncProvision(c) /\ I!Me(d) \in Envs /\ visit[d].to \in Envs
        /\ uids'[I!Me(d)] = uids[I!Me(d)] /\ env'[I!Me(d)] = env[I!Me(d)]
        /\ uids'[visit[d].to] = uids[visit[d].to] /\ env'[visit[d].to] = env[visit[d].to]
    BY <1>1, <1>3, AnothersNameStays DEF Touches, OpFits
  <2>2. ASSUME NEW n \in Touches(d), Serves(uids[n], visit[d].born)
        PROVE  WillServe(uids[n], visit[d].born)
    <3>1. n \in Envs /\ uids[n] \in 0..MaxUids /\ visit[d].born \in 0..MaxClones
      BY <1>1, <2>1 DEF Touches, RegistryTyped, Visited
    <3>2. CASE Shrinks BY <2>2, <3>1, <3>2, ShrinksServe
    <3>3. CASE /\ I!Provision(c)
               /\ Provides({I!Me(c)}, [k \in Envs |-> visit[c].uid], [k \in Envs |-> visit[c].born])
      <4>1. Working(c) /\ I!Me(c) \in Envs /\ visit[c].uid # 0 /\ uids[I!Me(c)] = visit[c].uid
        BY <1>1, <3>3 DEF I!Provision, I!At, OpFits, Adds, Working, OpStage
      <4>2. n # I!Me(c) BY <4>1, <1>3, NamesApart DEF Touches
      <4>3. uids[n] # visit[c].uid BY <3>1, <4>1, <4>2 DEF UidsOnce
      <4>4. {I!Me(c)} \in SUBSET Envs BY <4>1
      <4>. QED BY <2>2, <3>1, <3>3, <4>1, <4>3, <4>4, ProvidesServe
    <3>. QED BY <2>1, <3>2, <3>3, FilesSteps
  <2>3. I!At(d, "rename_uid") => WillServe(uids[I!Me(d)], visit[d].born)
    BY <1>1, <2>2 DEF OpStage, Touches
  <2>4. I!At(d, "move_dir") => WillServe(uids[visit[d].to], visit[d].born)
    BY <1>1, <2>2 DEF OpStage, Touches
  <2>5. visit'[d].step # "provision_all" BY <1>1, <1>3 DEF OpFits, Working
  <2>. QED
    BY <1>1, <2>1, <2>3, <2>4, <2>5
       DEF OpStage, Adds, Moves, I!At, I!Me, Serves, WillServe
<1>. QED BY <1>2, <1>3

(* A name that is free has no uid.                                           *)
LEMMA FreeNamesHaveNoUid ==
    ASSUME IdInv, NEW n \in Envs, env[n] = 0, tenure[n] = {}
    PROVE  uids[n] = 0
<1> SUFFICES ASSUME uids[n] # 0 PROVE FALSE OBVIOUS
<1>1. PICK d \in Workers : Carries(d, n) BY DEF IdInv, UidsOfEnvs
<1>2. Working(d) /\ n \in {I!Me(d), visit[d].to}
  BY <1>1 DEF IdInv, OpsFit, OpFits, Carries, Working, Moves, I!At
<1>. QED BY <1>2 DEF IdInv, HoldsItsNames

(* Every step of a caller establishes what its next step relies on.          *)
LEMMA OwnStageFits ==
    ASSUME IdInv, Hazards \subseteq {"kept", "stayed"}, NEW c \in Workers, Visits(c)
    PROVE  OpStage(c)'
<1>. USE DEF IdInv
<1>1. OpFits(c) /\ OpStage(c) /\ visit[c] \in Visited BY DEF OpsFit, OpStages, VisitsTyped
<1>2. ASSUME EndsOp(c) PROVE OpStage(c)'
  BY <1>2 DEF EndsOp, OpStage, I!Idle, I!At, Adds, Moves
<1>3. ASSUME NEW n \in Envs, NEW m \in Envs,
             I!BeginCreate(c, n) \/ I!BeginHeal(c, n) \/ I!BeginDelete(c, n)
                 \/ I!BeginRename(c, n, m)
      PROVE  OpStage(c)'
  <2>1. TakesNames(c) /\ visit'[c].env = n BY <1>3, BeginsTyped
  <2>2. CASE /\ I!BeginCreate(c, n) /\ visit'[c].kind = "create" /\ visit'[c].step = "ensure"
             /\ visit'[c].to = n /\ visit'[c].born = births + 1
    <3>1. env'[n] = births + 1 /\ births + 1 # 0 BY <2>2 DEF I!BeginCreate, EnvsTyped
    <3>. QED BY <2>1, <2>2, <3>1 DEF OpStage, I!At, Adds, Moves, I!Me
  <2>3. CASE /\ I!BeginHeal(c, n) /\ visit'[c].kind = "heal" /\ visit'[c].step = "ensure"
             /\ visit'[c].to = n /\ visit'[c].born = env[n]
    <3>1. env'[n] = env[n] /\ env[n] # 0 BY <2>3 DEF I!BeginHeal
    <3>. QED BY <2>1, <2>3, <3>1 DEF OpStage, I!At, Adds, Moves, I!Me
  <2>4. CASE I!BeginDelete(c, n) /\ visit'[c].kind = "delete" /\ visit'[c].step = "retire"
    BY <2>1, <2>4 DEF OpStage, I!At, Adds, Moves, I!Me
  <2>5. CASE /\ I!BeginRename(c, n, m) /\ visit'[c].kind = "rename" /\ visit'[c].step = "rename_uid"
             /\ visit'[c].to = m /\ visit'[c].born = env[n]
    <3>1. /\ n # m /\ env[n] # 0 /\ env[m] = 0 /\ env' = [env EXCEPT ![n] = 0]
          /\ UNCHANGED <<uids, I!files>>
      BY <2>5 DEF I!BeginRename, I!registry
    <3>2. env'[n] = 0 /\ env'[m] = 0 BY <3>1 DEF EnvsTyped
    <3>3. uids[m] = 0 BY <2>1, <2>5, <3>1, FreeNamesHaveNoUid DEF TakesNames
    <3>4. Serves(uids[n], env[n]) BY <3>1 DEF EachServesItsOwn
    <3>5. WillServe(uids[n], env[n])
      BY <3>1, <3>4, ShrinksServe, NothingShrinks DEF RegistryTyped, EnvsTyped
    <3>6. uids'[m] = 0 /\ WillServe(uids'[n], visit'[c].born) BY <2>5, <3>1, <3>3, <3>5
    <3>. QED
      BY <2>1, <2>5, <3>1, <3>2, <3>6 DEF OpStage, I!At, Adds, Moves, I!Me, Serves, WillServe
  <2>. QED BY <1>3, <2>2, <2>3, <2>4, <2>5, BeginsTyped
<1>4. CASE I!BeginSync(c)
  <2>1. visit'[c].kind = "sync" /\ visit'[c].step = "list" BY <1>4, SyncBeginTyped
  <2>. QED BY <2>1 DEF OpStage, I!At, Adds, Moves, I!Me
<1>5. ASSUME ~Moves(c), visit'[c].kind = visit[c].kind, visit'[c].env = visit[c].env,
             visit'[c].to = visit[c].to, visit'[c].born = visit[c].born,
             visit'[c].step \in {"list", "purge", "forget", "allocate", "gone", "names"},
             UNCHANGED <<env, uids>>, ~I!At(c, "retire")
      PROVE  OpStage(c)'
  BY <1>1, <1>5 DEF OpStage, I!At, Adds, Moves, I!Me
<1>6. CASE \E n \in Envs : I!SyncAllocate(c, n)
  <2>1. UNCHANGED <<env, visit>> /\ I!At(c, "provision_all") BY <1>6 DEF I!SyncAllocate
  <2>. QED BY <1>1, <2>1 DEF OpStage, I!At, Adds, Moves, I!Me, OpFits
<1>7. CASE I!Ensure(c) \/ I!List(c) \/ I!Purge(c) \/ I!ForgetRemoved(c)
  <2>0. UNCHANGED <<env, uids>> /\ visit[c].step \in {"ensure", "list", "purge", "forget"}
    BY <1>7 DEF I!Ensure, I!List, I!Purge, I!ForgetRemoved, I!registry, I!At
  <2>1. CASE I!Ensure(c) /\ I!Go(c, "list")
    <3>1. visit'[c] = [visit[c] EXCEPT !.step = "list"] BY <2>1, GoEffect
    <3>. QED BY <1>1, <1>5, <2>0, <3>1 DEF Visited, Moves, I!At
  <2>2. CASE I!List(c)
    <3>1. visit'[c] = [visit[c] EXCEPT !.todo = pending, !.step = "purge"] BY <2>2, ListEffect
    <3>. QED BY <1>1, <1>5, <2>0, <3>1 DEF Visited, Moves, I!At
  <2>3. CASE I!Purge(c)
    <3>1. /\ I!At(c, "purge")
          /\ \/ \E u \in I!Uids : visit'[c] = [visit[c] EXCEPT !.todo = Without(c, u)]
             \/ \E u \in I!Uids :
                  visit'[c] = [visit[c] EXCEPT !.one = u, !.step = "forget", !.todo = Without(c, u)]
             \/ visit'[c] = [visit[c] EXCEPT !.todo = [u \in I!Uids |-> NoEnv],
                   !.step = I!AfterPurge(c)]
      BY <2>3, PurgeEffect
    <3>2. I!AfterPurge(c) \in {"gone", "names", "allocate"} BY DEF I!AfterPurge
    <3>3. /\ visit'[c].kind = visit[c].kind /\ visit'[c].env = visit[c].env
              /\ visit'[c].to = visit[c].to
          /\ visit'[c].born = visit[c].born
          /\ visit'[c].step \in {"purge", "forget", "gone", "names", "allocate"}
      BY <1>1, <3>1, <3>2 DEF Visited, I!At
    <3>. QED BY <1>5, <2>0, <3>1, <3>3 DEF Moves, I!At
  <2>4. CASE I!ForgetRemoved(c)
    <3>1. visit'[c] = [visit[c] EXCEPT !.one = 0, !.step = "purge"] BY <2>4, ForgetEffect
    <3>. QED BY <1>1, <1>5, <2>0, <3>1 DEF Visited, Moves, I!At
  <2>5. I!Ensure(c) => I!Go(c, "list") \/ EndsOp(c) BY DoneEffect DEF I!Ensure
  <2>. QED BY <1>2, <1>7, <2>1, <2>2, <2>3, <2>4, <2>5
<1>8. CASE I!Allocate(c)
  <2>0. I!At(c, "allocate") /\ I!Me(c) \in Envs /\ Adds(c)
    BY <1>1, <1>8 DEF I!Allocate, OpFits, I!At, Working, Adds, I!Me
  <2>1. \/ EndsOp(c)
        \/ /\ I!AllocateUid(I!Me(c)) /\ env' = env
           /\ visit'[c] = [visit[c] EXCEPT !.uid = I!Given(I!Me(c)), !.step = "provision"]
    BY <1>8, <2>0, AllocateEffect DEF I!Allocate
  <2>2. CASE /\ I!AllocateUid(I!Me(c)) /\ env' = env
             /\ visit'[c] = [visit[c] EXCEPT !.uid = I!Given(I!Me(c)), !.step = "provision"]
    <3>1. uids'[I!Me(c)] = I!Given(I!Me(c)) /\ I!Given(I!Me(c)) # 0 BY <2>0, <2>2, AllocateTyped
    <3>2. /\ visit'[c].kind = visit[c].kind /\ visit'[c].env = visit[c].env
              /\ visit'[c].to = visit[c].to
          /\ visit'[c].born = visit[c].born /\ visit'[c].step = "provision"
              /\ visit'[c].uid = I!Given(I!Me(c))
      BY <1>1, <2>2 DEF Visited
    <3>. QED BY <1>1, <2>0, <2>2, <3>1, <3>2 DEF OpStage, I!At, Adds, Moves, I!Me
  <2>. QED BY <1>2, <2>1, <2>2
<1>9. CASE I!Provision(c) \/ I!Gone(c) \/ I!SyncProvision(c)
  BY <1>2, <1>9, DoneEffect DEF I!Provision, I!Gone, I!SyncProvision
<1>10. CASE I!Retire(c)
  <2>1. I!At(c, "retire") /\ (I!Go(c, "list") \/ I!Go(c, "gone"))
          /\ uids' = [uids EXCEPT ![I!Me(c)] = 0]
    BY <1>10 DEF I!Retire
  <2>2. \E s \in {"list", "gone"} : visit'[c] = [visit[c] EXCEPT !.step = s] BY <2>1, GoEffect
  <2>3. visit[c].kind = "delete" /\ I!Me(c) \in Envs BY <1>1, <2>1 DEF OpFits, I!At, Working, I!Me
  <2>4. uids'[I!Me(c)] = 0 BY <2>1, <2>3 DEF RegistryTyped
  <2>5. visit'[c].kind = "delete" /\ visit'[c].env = visit[c].env
          /\ visit'[c].step \in {"list", "gone"}
    BY <1>1, <2>2, <2>3 DEF Visited
  <2>. QED BY <2>4, <2>5 DEF OpStage, I!At, Adds, Moves, I!Me
<1>11. CASE I!RenameUid(c)
  <2>1. /\ I!At(c, "rename_uid") /\ I!Go(c, "move_dir") /\ UNCHANGED <<env, I!files>>
        /\ uids' = IF uids[I!Me(c)] = 0 THEN uids
                   ELSE [uids EXCEPT ![visit[c].to] = uids[I!Me(c)], ![I!Me(c)] = 0]
    BY <1>11 DEF I!RenameUid
  <2>2. visit'[c] = [visit[c] EXCEPT !.step = "move_dir"] BY <2>1, GoEffect
  <2>3. I!Me(c) \in Envs /\ visit[c].to \in Envs /\ I!Me(c) # visit[c].to
    BY <1>1, <2>1 DEF OpFits, I!At, Working, I!Me, Moves
  <2>4. uids'[I!Me(c)] = 0 /\ uids'[visit[c].to] = uids[I!Me(c)]
    BY <1>1, <2>1, <2>3 DEF RegistryTyped, OpStage
  <2>5. WillServe(uids[I!Me(c)], visit[c].born)
    <3>1. uids[I!Me(c)] \in 0..MaxUids /\ visit[c].born \in 0..MaxClones
      BY <1>1, <2>3 DEF RegistryTyped, Visited
    <3>2. Serves(uids[I!Me(c)], visit[c].born) BY <1>1, <2>1 DEF OpStage
    <3>. QED BY <2>1, <3>1, <3>2, ShrinksServe, NothingShrinks
  <2>6. /\ visit'[c].kind = visit[c].kind /\ visit'[c].env = visit[c].env
            /\ visit'[c].to = visit[c].to
        /\ visit'[c].born = visit[c].born /\ visit'[c].step = "move_dir"
    BY <1>1, <2>2 DEF Visited
  <2>7. visit[c].kind = "rename" /\ visit[c].born # 0 /\ env[I!Me(c)] = 0 /\ env[visit[c].to] = 0
    BY <1>1, <2>1 DEF OpStage, OpFits, Moves, I!At
  <2>8. visit'[c].born # 0 /\ env'[visit'[c].env] = 0 /\ env'[visit'[c].to] = 0
    BY <2>1, <2>6, <2>7 DEF I!Me
  <2>9. uids'[visit'[c].env] = 0 /\ WillServe(uids'[visit'[c].to], visit'[c].born)
    BY <2>4, <2>5, <2>6 DEF I!Me
  <2>. QED BY <2>6, <2>7, <2>8, <2>9 DEF OpStage, I!At, Adds, Moves, I!Me, Serves, WillServe
<1>12. CASE I!MoveDir(c)
  <2>1. /\ visit'[c] = [visit[c] EXCEPT !.env = visit[c].to, !.step = "ensure"]
        /\ env' = [env EXCEPT ![visit[c].to] = visit[c].born]
    BY <1>12, MoveEffect
  <2>2. visit[c].to \in Envs /\ visit[c].born # 0 /\ visit[c].kind = "rename"
    BY <1>1, <1>12 DEF I!MoveDir, OpFits, OpStage, I!At, Working, Moves
  <2>3. /\ visit'[c].kind = "rename" /\ visit'[c].env = visit[c].to
            /\ visit'[c].born = visit[c].born
        /\ visit'[c].step = "ensure"
    BY <1>1, <2>1, <2>2 DEF Visited
  <2>4. env'[visit[c].to] = visit[c].born BY <2>1, <2>2 DEF EnvsTyped
  <2>. QED BY <2>2, <2>3, <2>4 DEF OpStage, I!At, Adds, Moves, I!Me
<1>13. CASE I!Names(c)
  <2>1. visit'[c] = [visit[c] EXCEPT !.names = {n \in Envs : env[n] # 0}, !.step = "provision_all"]
    BY <1>13, NamesEffect
  <2>2. visit[c].kind = "sync" /\ env' = env BY <1>1, <1>13 DEF I!Names, OpFits, I!At
  <2>3. /\ visit'[c].kind = "sync" /\ visit'[c].names = {n \in Envs : env[n] # 0}
        /\ visit'[c].step = "provision_all"
    BY <1>1, <2>1, <2>2 DEF Visited
  <2>. QED BY <2>2, <2>3 DEF OpStage, I!At, Adds, Moves, I!Me
<1>14. (\E n \in Envs, m \in Envs :
          I!BeginCreate(c, n) \/ I!BeginHeal(c, n) \/ I!BeginDelete(c, n) \/ I!BeginRename(c, n, m))
       => OpStage(c)'
  BY <1>3
<1>15. \/ \E n \in Envs, m \in Envs :
            I!BeginCreate(c, n) \/ I!BeginHeal(c, n) \/ I!BeginDelete(c, n)
                \/ I!BeginRename(c, n, m)
       \/ I!BeginSync(c) \/ (\E n \in Envs : I!SyncAllocate(c, n)) \/ I!Ensure(c) \/ I!List(c)
           \/ I!Purge(c)
       \/ I!ForgetRemoved(c) \/ I!Allocate(c) \/ I!Provision(c) \/ I!Gone(c) \/ I!SyncProvision(c)
       \/ I!Retire(c) \/ I!RenameUid(c) \/ I!MoveDir(c) \/ I!Names(c)
  BY DEF Visits
<1>. QED
  BY <1>4, <1>6, <1>7, <1>8, <1>9, <1>10, <1>11, <1>12, <1>13, <1>14, <1>15

(* Each environment's uid owns what was made for it only.                    *)
LEMMA EnvironmentsServe ==
    ASSUME IdInv, Hazards \subseteq {"kept", "stayed"}, NEW c \in Workers, Visits(c)
    PROVE  EachServesItsOwn'
<1>. USE DEF IdInv
<1>1. OpFits(c) /\ OpStage(c) /\ visit[c] \in Visited BY DEF OpsFit, OpStages, VisitsTyped
<1>2. SUFFICES ASSUME NEW n \in Envs, env'[n] # 0 PROVE WillServe(uids'[n], env'[n])
  BY DEF EachServesItsOwn, Serves, WillServe
<1>3. /\ uids[n] \in 0..MaxUids /\ env[n] \in 0..MaxClones /\ uids'[n] \in 0..MaxUids
      /\ env'[n] \in 0..MaxClones
  BY RegistryStaysTyped DEF RegistryTyped, EnvsTyped
<1>4. ASSUME Shrinks, Serves(uids'[n], env'[n]) PROVE WillServe(uids'[n], env'[n])
  BY <1>3, <1>4, ShrinksServe
<1>5. ASSUME UNCHANGED <<env, uids>>, Shrinks PROVE WillServe(uids'[n], env'[n])
  <2>1. Serves(uids[n], env[n]) BY <1>2, <1>5 DEF EachServesItsOwn
  <2>. QED BY <1>3, <1>5, <2>1, ShrinksServe
<1>6. ASSUME UNCHANGED I!files, UNCHANGED env, I!AllocateUid(n) PROVE WillServe(uids'[n], env'[n])
  <2>1. \/ uids'[n] = uids[n]
        \/ uids'[n] = next /\ next \in I!Uids
    BY <1>6, AllocateTyped
  <2>2. CASE uids'[n] = uids[n]
    <3>1. Serves(uids[n], env[n]) BY <1>2, <1>6 DEF EachServesItsOwn
    <3>. QED BY <1>3, <1>6, <2>2, <3>1, ShrinksServe, NothingShrinks
  <2>3. CASE uids'[n] = next /\ next \in I!Uids
    <3>1. Serves(next, env[n])
      BY <2>3, UidsAreNumbers DEF Serves, NewOwnsNothing, FilesTyped
    <3>. QED BY <1>3, <1>4, <1>6, <2>3, <3>1, NothingShrinks
  <2>. QED BY <2>1, <2>2, <2>3
<1>7. CASE \E k \in Envs, m \in Envs :
             I!BeginCreate(c, k) \/ I!BeginHeal(c, k) \/ I!BeginDelete(c, k)
                 \/ I!BeginRename(c, k, m)
  <2>1. PICK k \in Envs, m \in Envs :
             I!BeginCreate(c, k) \/ I!BeginHeal(c, k) \/ I!BeginDelete(c, k)
                 \/ I!BeginRename(c, k, m)
    BY <1>7
  <2>2. UNCHANGED <<uids, I!files>>
    BY <2>1 DEF I!BeginCreate, I!BeginHeal, I!BeginDelete, I!BeginRename, I!registry
  <2>3. CASE env'[n] = env[n]
    <3>1. Serves(uids[n], env[n]) BY <1>2, <2>3 DEF EachServesItsOwn
    <3>. QED BY <1>4, <2>2, <2>3, <3>1, NothingShrinks
  <2>4. CASE env'[n] # env[n]
    <3>1. CASE I!BeginCreate(c, k)
      <4>1. n = k /\ env[n] = 0 BY <2>4, <3>1 DEF I!BeginCreate, EnvsTyped
      <4>2. tenure[n] = {} BY <3>1, <4>1 DEF I!BeginCreate, I!Locked
      <4>3. uids[n] = 0 BY <4>1, <4>2, FreeNamesHaveNoUid
      <4>. QED BY <2>2, <4>3 DEF WillServe
    <3>2. CASE I!BeginRename(c, k, m) BY <1>2, <2>4, <3>2 DEF I!BeginRename, EnvsTyped
    <3>3. CASE I!BeginHeal(c, k) \/ I!BeginDelete(c, k)
      BY <2>4, <3>3 DEF I!BeginHeal, I!BeginDelete
    <3>. QED BY <2>1, <3>1, <3>2, <3>3
  <2>. QED BY <2>3, <2>4
<1>8. CASE I!BeginSync(c) \/ I!Ensure(c) \/ I!List(c) \/ I!ForgetRemoved(c) \/ I!Names(c)
  <2>1. UNCHANGED <<env, uids, I!files>>
    BY <1>8 DEF I!BeginSync, I!Ensure, I!List, I!ForgetRemoved, I!Names, I!registry
  <2>. QED BY <1>5, <2>1, NothingShrinks
<1>9. CASE I!Purge(c)
  <2>1. UNCHANGED <<env, uids>> BY <1>9 DEF I!Purge, I!registry
  <2>. QED BY <1>5, <1>9, <2>1, PurgeShrinks
<1>10. CASE I!Allocate(c) \/ \E k \in Envs : I!SyncAllocate(c, k)
  <2>1. UNCHANGED <<env, I!files>> /\ (UNCHANGED uids \/ \E k \in Envs : I!AllocateUid(k))
    <3>1. I!Allocate(c) => I!Me(c) \in Envs
      BY <1>1 DEF I!Allocate, OpFits, I!At, Working, Adds, I!Me
    <3>. QED BY <1>10, <3>1 DEF I!Allocate, I!SyncAllocate, I!registry
  <2>2. ASSUME NEW k \in Envs, I!AllocateUid(k) PROVE WillServe(uids'[n], env'[n])
    <3>1. CASE k = n BY <1>6, <2>1, <2>2, <3>1
    <3>2. CASE k # n
      <4>1. uids'[n] = uids[n] BY <2>2, <3>2, AllocateTyped
      <4>2. Serves(uids[n], env[n]) BY <1>2, <2>1 DEF EachServesItsOwn
      <4>. QED BY <1>4, <2>1, <4>1, <4>2, NothingShrinks
    <3>. QED BY <3>1, <3>2
  <2>. QED BY <1>5, <2>1, <2>2, NothingShrinks
<1>11. CASE I!Provision(c)
  <2>1. UNCHANGED <<env, uids>> BY <1>11 DEF I!Provision, I!registry
  <2>2. CASE Provides({I!Me(c)}, [k \in Envs |-> visit[c].uid], [k \in Envs |-> visit[c].born])
    <3>1. /\ I!Me(c) \in Envs /\ visit[c].uid # 0 /\ uids[I!Me(c)] = visit[c].uid
          /\ env[I!Me(c)] = visit[c].born
      BY <1>1, <1>11 DEF I!Provision, I!At, OpFits, Adds, Moves, Working, OpStage
    <3>2. uids[n] = visit[c].uid => n = I!Me(c) BY <3>1 DEF UidsOnce
    <3>3. Serves(uids[n], env[n]) BY <1>2, <2>1 DEF EachServesItsOwn
    <3>4. {I!Me(c)} \in SUBSET Envs BY <3>1
    <3>5. \A k \in {I!Me(c)} : visit[c].uid = uids[n] => visit[c].born = env[n] BY <3>1, <3>2
    <3>6. \A k \in {I!Me(c)} :
            [j \in Envs |-> visit[c].uid][k] = uids[n] => [j \in Envs |-> visit[c].born][k] = env[n]
      BY <3>1, <3>5
    <3>7. WillServe(uids[n], env[n]) BY <1>3, <2>2, <3>3, <3>4, <3>6, ProvidesServe
    <3>. QED BY <2>1, <3>7
  <2>3. CASE UNCHANGED I!files BY <1>5, <2>1, <2>3, NothingShrinks
  <2>. QED BY <1>11, <2>2, <2>3, ProvisionTyped
<1>12. CASE I!SyncProvision(c)
  <2>1. UNCHANGED <<env, uids>> BY <1>12 DEF I!SyncProvision, I!registry
  <2>2. CASE Provides(visit[c].names, uids, env)
    <3>1. visit[c].names \in SUBSET Envs /\ \A k \in visit[c].names : uids[k] # 0
      BY <1>1, <1>12 DEF Visited, I!SyncProvision
    <3>2. \A k \in visit[c].names : uids[k] = uids[n] => env[k] = env[n]
      BY <3>1 DEF UidsOnce
    <3>3. Serves(uids[n], env[n]) BY <1>2, <2>1 DEF EachServesItsOwn
    <3>4. WillServe(uids[n], env[n]) BY <1>3, <2>2, <3>1, <3>2, <3>3, ProvidesServe
    <3>. QED BY <2>1, <3>4
  <2>3. CASE UNCHANGED I!files BY <1>5, <2>1, <2>3, NothingShrinks
  <2>. QED BY <1>12, <2>2, <2>3, ProvisionTyped
<1>13. CASE I!Retire(c)
  <2>1. env' = env /\ uids' = [uids EXCEPT ![I!Me(c)] = 0] BY <1>13 DEF I!Retire
  <2>2. Shrinks
    <3>1. ~I!Provision(c) /\ ~I!SyncProvision(c)
      BY <1>13 DEF I!Retire, I!Provision, I!SyncProvision, I!At
    <3>. QED BY <3>1, FilesSteps
  <2>3. CASE n = I!Me(c) BY <2>1, <2>3 DEF RegistryTyped, WillServe
  <2>4. CASE n # I!Me(c)
    <3>1. uids'[n] = uids[n] BY <2>1, <2>4 DEF RegistryTyped
    <3>2. Serves(uids[n], env[n]) BY <1>2, <2>1 DEF EachServesItsOwn
    <3>. QED BY <1>4, <2>1, <2>2, <3>1, <3>2
  <2>. QED BY <2>3, <2>4
<1>14. CASE I!Gone(c)
  <2>1. UNCHANGED <<uids, I!files>> /\ (env' = env \/ env' = [env EXCEPT ![I!Me(c)] = 0])
    BY <1>14 DEF I!Gone, I!registry
  <2>2. env'[n] = env[n] BY <1>2, <2>1 DEF EnvsTyped
  <2>3. Serves(uids[n], env[n]) BY <1>2, <2>2 DEF EachServesItsOwn
  <2>. QED BY <1>4, <2>1, <2>2, <2>3, NothingShrinks
<1>15. CASE I!RenameUid(c)
  <2>1. /\ UNCHANGED <<env, I!files>> /\ I!At(c, "rename_uid")
        /\ uids' = uids \/ uids' = [uids EXCEPT ![visit[c].to] = uids[I!Me(c)], ![I!Me(c)] = 0]
    BY <1>15 DEF I!RenameUid
  <2>2. n # I!Me(c) /\ n # visit[c].to BY <1>1, <1>2, <2>1 DEF OpStage, Moves, I!At
  <2>3. uids'[n] = uids[n] BY <2>1, <2>2 DEF RegistryTyped
  <2>4. Serves(uids[n], env[n]) BY <1>2, <2>1 DEF EachServesItsOwn
  <2>. QED BY <1>4, <2>1, <2>3, <2>4, NothingShrinks
<1>16. CASE I!MoveDir(c)
  <2>1. env' = [env EXCEPT ![visit[c].to] = visit[c].born] /\ uids' = uids
    BY <1>16, MoveEffect DEF I!MoveDir, I!registry
  <2>2. Shrinks BY <1>16, MoveShrinks
  <2>3. CASE n = visit[c].to
    <3>1. Serves(uids[n], visit[c].born) BY <1>1, <1>16, <2>3 DEF OpStage, I!MoveDir
    <3>2. env'[n] = visit[c].born BY <2>1, <2>3 DEF EnvsTyped
    <3>. QED BY <1>4, <2>1, <2>2, <3>1, <3>2
  <2>4. CASE n # visit[c].to
    <3>1. env'[n] = env[n] BY <2>1, <2>4 DEF EnvsTyped
    <3>2. Serves(uids[n], env[n]) BY <1>2, <3>1 DEF EachServesItsOwn
    <3>. QED BY <1>4, <2>1, <2>2, <3>1, <3>2
  <2>. QED BY <2>3, <2>4
<1>. QED
  BY <1>7, <1>8, <1>9, <1>10, <1>11, <1>12, <1>13, <1>14, <1>15, <1>16 DEF Visits

(* A uid stays with an environment, or is on its way to one.                 *)
LEMMA UidsStayWithEnvs ==
    ASSUME IdInv, Hazards \subseteq {"kept", "stayed"}, NEW c \in Workers, Visits(c)
    PROVE  UidsOfEnvs'
<1>. USE DEF IdInv
<1>1. /\ OpFits(c) /\ OpStage(c) /\ visit[c] \in Visited
      /\ \A d \in Workers \ {c} : visit'[d] = visit[d]
  BY VisitsStayTyped DEF OpsFit, OpStages, VisitsTyped, VisitStep, OthersKept
<1>2. SUFFICES ASSUME NEW n \in Envs, env'[n] = 0, uids'[n] # 0
               PROVE  \E d \in Workers : Carries(d, n)'
  BY DEF UidsOfEnvs
<1>3. ASSUME env[n] = 0, uids[n] # 0, ~Moves(c) PROVE \E d \in Workers : Carries(d, n)'
  <2>1. PICK d \in Workers : Carries(d, n) BY <1>3 DEF UidsOfEnvs
  <2>2. d # c BY <1>3, <2>1 DEF Carries, Moves, I!At
  <2>. QED BY <1>1, <2>1, <2>2 DEF Carries, I!At, I!Me
<1>4. CASE UNCHANGED <<env, uids>> /\ ~Moves(c) BY <1>2, <1>3, <1>4
<1>5. CASE \E k \in Envs : I!BeginCreate(c, k)
  <2>1. PICK k \in Envs : env' = [env EXCEPT ![k] = births + 1] /\ uids' = uids /\ I!At(c, "none")
    BY <1>5 DEF I!BeginCreate, I!registry, I!Begin
  <2>2. env[n] = 0 BY <1>2, <2>1 DEF EnvsTyped
  <2>. QED BY <1>2, <1>3, <2>1, <2>2 DEF Moves, I!At
<1>6. CASE \E k \in Envs, m \in Envs : I!BeginRename(c, k, m)
  <2>1. PICK k \in Envs, m \in Envs : I!BeginRename(c, k, m) BY <1>6
  <2>2. env' = [env EXCEPT ![k] = 0] /\ uids' = uids /\ I!At(c, "none")
    BY <2>1 DEF I!BeginRename, I!registry, I!Begin
  <2>3. CASE n = k
    <3>1. visit'[c].step = "rename_uid" /\ visit'[c].env = k
      BY <2>1 DEF I!BeginRename, I!Begin, VisitsTyped, I!Idle
    <3>. QED BY <2>3, <3>1 DEF Carries, I!At, I!Me
  <2>4. CASE n # k
    <3>1. env[n] = 0 BY <1>2, <2>2, <2>4 DEF EnvsTyped
    <3>. QED BY <1>2, <1>3, <2>2, <3>1 DEF Moves, I!At
  <2>. QED BY <2>3, <2>4
<1>7. CASE I!Allocate(c) \/ \E k \in Envs : I!SyncAllocate(c, k)
  <2>1. ~Moves(c) BY <1>7 DEF I!Allocate, I!SyncAllocate, Moves, I!At
  <2>2. env' = env /\ (uids' = uids \/ \E k \in Envs : I!AllocateUid(k) /\ env[k] # 0)
    <3>1. ASSUME I!Allocate(c) PROVE I!Me(c) \in Envs /\ env[I!Me(c)] # 0
      BY <1>1, <2>1, <3>1 DEF I!Allocate, OpFits, OpStage, I!At, Working, Adds, I!Me
    <3>2. ASSUME NEW k \in Envs, I!SyncAllocate(c, k) PROVE env[k] # 0
      BY <1>1, <3>2 DEF I!SyncAllocate, OpStage, I!At
    <3>. QED BY <1>7, <3>1, <3>2 DEF I!Allocate, I!SyncAllocate, I!registry
  <2>3. ASSUME NEW k \in Envs, I!AllocateUid(k), env[k] # 0 PROVE uids[n] # 0
    <3>1. n # k BY <1>2, <2>2, <2>3
    <3>. QED BY <1>2, <2>3, <3>1, AllocateTyped
  <2>. QED BY <1>2, <1>3, <2>1, <2>2, <2>3
<1>8. CASE I!Retire(c)
  <2>1. env' = env /\ uids' = [uids EXCEPT ![I!Me(c)] = 0] /\ ~Moves(c)
    BY <1>8 DEF I!Retire, Moves, I!At
  <2>2. uids[n] # 0 BY <1>2, <2>1 DEF RegistryTyped
  <2>. QED BY <1>2, <1>3, <2>1, <2>2
<1>9. CASE I!Gone(c)
  <2>1. /\ uids' = uids /\ ~Moves(c) /\ I!At(c, "gone")
        /\ env' = env \/ env' = [env EXCEPT ![I!Me(c)] = 0]
    BY <1>9 DEF I!Gone, Moves, I!At, I!registry
  <2>2. uids[I!Me(c)] = 0 BY <1>1, <2>1 DEF OpStage, OpFits, I!At
  <2>3. env[n] = 0 BY <1>2, <2>1, <2>2 DEF EnvsTyped
  <2>. QED BY <1>2, <1>3, <2>1, <2>3
<1>10. CASE I!RenameUid(c)
  <2>1. /\ env' = env /\ I!At(c, "rename_uid") /\ I!Go(c, "move_dir")
        /\ uids' = uids \/ uids' = [uids EXCEPT ![visit[c].to] = uids[I!Me(c)], ![I!Me(c)] = 0]
        /\ uids[I!Me(c)] = 0 => uids' = uids
        /\ uids[I!Me(c)] # 0 => uids' = [uids EXCEPT ![visit[c].to] = uids[I!Me(c)], ![I!Me(c)] = 0]
    BY <1>10 DEF I!RenameUid
  <2>2. visit'[c] = [visit[c] EXCEPT !.step = "move_dir"] BY <2>1, GoEffect
  <2>3. visit'[c].step = "move_dir" /\ visit'[c].to = visit[c].to BY <1>1, <2>2 DEF Visited
  <2>4. I!Me(c) \in Envs /\ I!Me(c) # visit[c].to /\ visit[c].to \in Envs
    BY <1>1, <2>1 DEF OpFits, I!At, Working, Moves, I!Me
  <2>5. n # I!Me(c)
    <3>1. uids'[I!Me(c)] = 0 BY <2>1, <2>4 DEF RegistryTyped
    <3>. QED BY <1>2, <3>1
  <2>6. CASE n = visit[c].to BY <2>3, <2>6 DEF Carries, I!At
  <2>7. CASE n # visit[c].to
    <3>1. uids[n] # 0 BY <1>2, <2>1, <2>5, <2>7 DEF RegistryTyped
    <3>2. PICK d \in Workers : Carries(d, n) BY <1>2, <2>1, <3>1 DEF UidsOfEnvs
    <3>3. d # c BY <2>1, <2>5, <3>2 DEF Carries, I!At
    <3>. QED BY <1>1, <3>2, <3>3 DEF Carries, I!At, I!Me
  <2>. QED BY <2>6, <2>7
<1>11. CASE I!MoveDir(c)
  <2>1. env' = [env EXCEPT ![visit[c].to] = visit[c].born] /\ uids' = uids /\ I!At(c, "move_dir")
    BY <1>11, MoveEffect DEF I!MoveDir, I!registry
  <2>2. visit[c].born # 0 /\ visit[c].to \in Envs
    BY <1>1, <2>1 DEF OpStage, OpFits, Moves, I!At, Working
  <2>3. n # visit[c].to /\ env[n] = 0 BY <1>2, <2>1, <2>2 DEF EnvsTyped
  <2>4. PICK d \in Workers : Carries(d, n) BY <1>2, <2>1, <2>3 DEF UidsOfEnvs
  <2>5. d # c BY <2>1, <2>3, <2>4 DEF Carries, I!At
  <2>. QED BY <1>1, <2>4, <2>5 DEF Carries, I!At, I!Me
<1>12. CASE \/ I!BeginSync(c) \/ I!Ensure(c) \/ I!List(c) \/ I!Purge(c) \/ I!ForgetRemoved(c)
                \/ I!Provision(c)
            \/ I!Names(c) \/ I!SyncProvision(c) \/ \E k \in Envs : I!BeginHeal(c, k)
                \/ I!BeginDelete(c, k)
  <2>1. UNCHANGED <<env, uids>> /\ ~Moves(c)
    BY <1>12 DEF I!BeginSync, I!Ensure, I!List, I!Purge, I!ForgetRemoved, I!Provision, I!Names,
       I!SyncProvision,
                 I!BeginHeal, I!BeginDelete, I!registry, Moves, I!At, I!Begin
  <2>. QED BY <1>4, <2>1
<1>. QED BY <1>5, <1>6, <1>7, <1>8, <1>9, <1>10, <1>11, <1>12 DEF Visits

(* The invariant holds at first.                                             *)
LEMMA IdInitially == I!IdInit => IdInv
<1> SUFFICES ASSUME I!IdInit PROVE IdInv OBVIOUS
<1>1. VisitsTyped BY IdleTyped DEF I!IdInit, VisitsTyped
<1>2. I!NoDir \in [uid : 0..MaxUids, born : 0..MaxClones] BY UidsAreNumbers DEF I!NoDir
<1>3. RegistryTyped /\ FilesTyped /\ EnvsTyped
  BY <1>2, UidsAreNumbers DEF I!IdInit, RegistryTyped, FilesTyped, EnvsTyped
<1>4. IdCountsTyped BY UidsAreNumbers DEF I!IdInit, IdCountsTyped
<1>5. HoldsItsNames /\ SyncAlone /\ OpsFit /\ OpStages
  BY DEF I!IdInit, HoldsItsNames, SyncAlone, OpsFit, OpFits, OpStages, OpStage, I!Idle, I!At,
     Working,
         Adds, Moves
<1>6. UidsOnce /\ PendingRetired /\ EachServesItsOwn /\ UidsOfEnvs
  BY DEF I!IdInit, UidsOnce, PendingRetired, Retired, EachServesItsOwn, Serves, UidsOfEnvs
<1>7. NewOwnsNothing BY DEF I!IdInit, NewOwnsNothing, I!NoDir
<1>. QED BY <1>1, <1>3, <1>4, <1>5, <1>6, <1>7 DEF IdInv

(* Every step of a caller keeps it.                                          *)
LEMMA CallersKeepIds ==
    ASSUME IdInv, Hazards \subseteq {"kept", "stayed"}, NEW c \in Workers, Visits(c)
    PROVE  IdInv'
<1>1. VisitStep(c) BY VisitsStayTyped DEF IdInv
<1>2. VisitsTyped' /\ RegistryTyped' /\ FilesTyped' /\ EnvsTyped' /\ IdCountsTyped'
  BY <1>1, FilesSteps, RegistryStaysTyped DEF VisitStep, IdInv
<1>3. HoldsItsNames' /\ SyncAlone' /\ OpsFit' BY <1>1, HoldersGoOn DEF IdInv
<1>4. OpStages' BY OthersStagesKept, OwnStageFits DEF OpStages
<1>. QED
  BY <1>2, <1>3, <1>4, UidsStayOnce, EnvironmentsServe, UidsStayWithEnvs DEF IdInv

(* A death forgets every operation, none of which is a rename on its way.    *)
LEMMA DeathKeepsIds == ASSUME IdInv, Hazards \subseteq {"kept", "stayed"}, I!Die PROVE IdInv'
<1>. USE DEF IdInv
<1>1. /\ visit' = [c \in Workers |-> I!Idle] /\ tenure' = [n \in Envs |-> {}]
      /\ UNCHANGED <<I!registry, I!files, env, births, up>> /\ I!Fails
          /\ \A c \in Workers : ~Moves(c)
  <2>1. "lost" \notin Hazards OBVIOUS
  <2>2. \A c \in Workers : ~Moves(c) BY <2>1 DEF I!Die, Moves, I!At
  <2>. QED BY <2>2 DEF I!Die
<1>2. VisitsTyped' BY <1>1, IdleTyped DEF VisitsTyped
<1>3. RegistryTyped' /\ FilesTyped' /\ EnvsTyped'
  BY <1>1 DEF RegistryTyped, FilesTyped, EnvsTyped, I!registry, I!files
<1>4. IdCountsTyped'
  <2>1. up' \in BOOLEAN BY <1>1 DEF IdCountsTyped
  <2>2. idOps' \in 0..IdOps /\ idFailures' \in 0..IdFailures
    BY <1>1, UidsAreNumbers DEF IdCountsTyped, I!Fails
  <2>. QED BY <2>1, <2>2 DEF IdCountsTyped
<1>5. HoldsItsNames' /\ SyncAlone' /\ OpsFit' /\ OpStages'
  BY <1>1 DEF HoldsItsNames, SyncAlone, OpsFit, OpFits, OpStages, OpStage, I!Idle, I!At, Working,
     Adds,
              Moves
<1>6. UidsOnce' /\ PendingRetired' /\ NewOwnsNothing' /\ EachServesItsOwn'
  BY <1>1 DEF UidsOnce, PendingRetired, Retired, NewOwnsNothing, EachServesItsOwn, Serves,
     I!registry,
              I!files
<1>7. UidsOfEnvs'
  BY <1>1 DEF UidsOfEnvs, Carries, Moves, I!At, I!registry
<1>. QED BY <1>2, <1>3, <1>4, <1>5, <1>6, <1>7

(* The container's stops change nothing it speaks of.                        *)
LEMMA OthersKeepIds ==
    ASSUME IdInv, UNCHANGED <<I!registry, I!files, env, births, visit, tenure>>, IdCountsTyped'
    PROVE  IdInv'
BY DEF IdInv, VisitsTyped, RegistryTyped, FilesTyped, EnvsTyped, HoldsItsNames, SyncAlone, OpsFit,
       OpFits, OpStages, OpStage, UidsOnce, PendingRetired, Retired, NewOwnsNothing,
       EachServesItsOwn, Serves, UidsOfEnvs, Carries, I!At, I!Me, Working, Adds, Moves, I!registry,
       I!files

(* So every step keeps it.                                                   *)
LEMMA IdKept ==
    ASSUME IdInv, Hazards \subseteq {"kept", "stayed"}, [I!IdNext]_(I!idVars)
    PROVE  IdInv'
<1>1. CASE \E c \in Workers : Visits(c) BY <1>1, CallersKeepIds
<1>2. CASE I!Die BY <1>2, DeathKeepsIds
<1>3. CASE I!ContainerStops
  <2>1. /\ UNCHANGED <<I!registry, I!files, env, births, visit, tenure>> /\ I!Fails /\ up' = FALSE
    BY <1>3 DEF I!ContainerStops
  <2>2. idOps' \in 0..IdOps /\ idFailures' \in 0..IdFailures
    BY <2>1, UidsAreNumbers DEF IdInv, IdCountsTyped, I!Fails
  <2>3. IdCountsTyped' BY <2>1, <2>2 DEF IdCountsTyped
  <2>. QED BY <2>1, <2>3, OthersKeepIds
<1>4. CASE UNCHANGED I!idVars
  <2>1. UNCHANGED <<I!registry, I!files, env, births, visit, tenure>>
          /\ UNCHANGED <<up, idFailures, idOps>>
    BY <1>4 DEF I!idVars
  <2>2. IdCountsTyped' BY <2>1 DEF IdInv, IdCountsTyped
  <2>. QED BY <2>1, <2>2, OthersKeepIds
<1>. QED BY <1>1, <1>2, <1>3, <1>4 DEF I!IdNext, Visits

(* What serves its environment only was not made for an earlier one.         *)
LEMMA InheritsNothing == IdInv => I!NeverInherits
BY DEF IdInv, EachServesItsOwn, Serves, I!NeverInherits

(* A uid that is retired is never given again.                               *)
LEMMA RetiredStays ==
    ASSUME IdInv, Hazards \subseteq {"kept", "stayed"}, NEW c \in Workers, Visits(c)
    PROVE  \A u \in I!Uids : Retired(u) => u < next' /\ \A n \in Envs : uids'[n] # u
<1>. USE DEF IdInv
<1>1. OpFits(c) /\ OpStage(c) BY DEF OpsFit, OpStages
<1>2. SUFFICES ASSUME NEW u \in I!Uids, Retired(u)
               PROVE  u < next' /\ \A n \in Envs : uids'[n] # u
  OBVIOUS
<1>3. u \in Nat /\ u # 0 /\ next \in Nat BY UidsAreNumbers DEF RegistryTyped
<1>4. CASE UNCHANGED <<uids, next>> BY <1>2, <1>4 DEF Retired
<1>5. ASSUME NEW k \in Envs, I!AllocateUid(k) PROVE u < next' /\ \A n \in Envs : uids'[n] # u
  BY <1>2, <1>3, <1>5, AllocateTyped DEF Retired
<1>6. CASE I!Retire(c)
  <2>1. next' = next /\ uids' = [uids EXCEPT ![I!Me(c)] = 0] BY <1>6 DEF I!Retire
  <2>. QED BY <1>2, <1>3, <2>1 DEF Retired, RegistryTyped
<1>7. CASE I!RenameUid(c)
  <2>1. I!Me(c) \in Envs BY <1>1, <1>7 DEF I!RenameUid, OpFits, I!At, Working, Moves, I!Me
  <2>2. /\ next' = next
        /\ uids' = uids \/ uids' = [uids EXCEPT ![visit[c].to] = uids[I!Me(c)], ![I!Me(c)] = 0]
    BY <1>7 DEF I!RenameUid
  <2>. QED BY <1>2, <1>3, <2>1, <2>2 DEF Retired, RegistryTyped
<1>8. I!Allocate(c) => I!Me(c) \in Envs BY <1>1 DEF I!Allocate, OpFits, I!At, Working, Adds, I!Me
<1>. QED
  BY <1>4, <1>5, <1>6, <1>7, <1>8
     DEF Visits, I!BeginCreate, I!BeginHeal, I!BeginDelete, I!BeginRename, I!BeginSync,
         I!SyncAllocate, I!Ensure,
         I!List, I!Purge, I!ForgetRemoved, I!Allocate, I!Provision, I!Gone, I!MoveDir, I!Names,
         I!SyncProvision, I!registry

(* What becomes of a pending removal.                                        *)
LEMMA PendingSteps ==
    ASSUME IdInv, NEW c \in Workers, Visits(c)
    PROVE  \A u \in I!Uids :
             \/ pending'[u] = pending[u]
             \/ I!ForgetRemoved(c) /\ u = visit[c].one /\ pending'[u] = NoEnv
             \/ I!Retire(c) /\ u = uids[I!Me(c)] /\ pending'[u] = I!Me(c)
<1>. USE DEF IdInv
<1>1. CASE I!ForgetRemoved(c) BY <1>1 DEF I!ForgetRemoved, RegistryTyped
<1>2. CASE I!Retire(c)
  <2>1. pending' = IF uids[I!Me(c)] = 0 THEN pending
          ELSE [pending EXCEPT ![uids[I!Me(c)]] = I!Me(c)]
    BY <1>2 DEF I!Retire
  <2>. QED BY <1>2, <2>1 DEF RegistryTyped
<1>3. CASE pending' = pending BY <1>3
<1>. QED
  BY <1>1, <1>2, <1>3
     DEF Visits, I!BeginCreate, I!BeginHeal, I!BeginDelete, I!BeginRename, I!BeginSync,
         I!SyncAllocate, I!Ensure,
         I!List, I!Purge, I!Allocate, I!Provision, I!Gone, I!RenameUid, I!MoveDir, I!Names,
         I!SyncProvision, I!registry,
         I!AllocateUid

(* Who provisions does so for uids that environments have.                   *)
LEMMA LiveIsNotRetired ==
    ASSUME IdInv, NEW c \in Workers
    PROVE  /\ I!Provision(c) => /\ visit[c].uid # 0 /\ uids[I!Me(c)] = visit[c].uid
               /\ I!Me(c) \in Envs
                                /\ Working(c)
           /\ I!SyncProvision(c) => visit[c].names \subseteq Envs
           /\ I!Retire(c) => I!Me(c) \in Envs /\ Working(c)
BY DEF IdInv, OpsFit, OpStages, OpStage, OpFits, I!Provision, I!SyncProvision, I!Retire, I!At,
   I!Me, Working, Adds,
       VisitsTyped, Visited

(* A retired uid that has nothing gets nothing any more.                     *)
LEMMA RetiredOwnsNoMore ==
    ASSUME IdInv, Hazards \subseteq {"kept", "stayed"}, NEW c \in Workers, Visits(c)
    PROVE  \A u \in I!Uids : Retired(u) /\ ~HasFiles(u) =>
             home'[u] = 0 /\ \A n \in Envs : dir'[n].uid # u
<1>. USE DEF IdInv
<1>1. SUFFICES ASSUME NEW u \in I!Uids, Retired(u), ~HasFiles(u)
               PROVE  home'[u] = 0 /\ \A n \in Envs : dir'[n].uid # u
  OBVIOUS
<1>2. u # 0 BY UidsAreNumbers
<1>3. CASE Shrinks BY <1>1, <1>2, <1>3 DEF Shrinks, HasFiles, I!NoDir
<1>4. CASE /\ I!Provision(c)
           /\ Provides({I!Me(c)}, [n \in Envs |-> visit[c].uid], [n \in Envs |-> visit[c].born])
  BY <1>1, <1>2, <1>4, LiveIsNotRetired DEF Provides, HasFiles, Retired
<1>5. CASE I!SyncProvision(c) /\ Provides(visit[c].names, uids, env)
  BY <1>1, <1>2, <1>5, LiveIsNotRetired DEF Provides, HasFiles, Retired
<1>. QED BY <1>3, <1>4, <1>5, FilesSteps

(* Purges remove what is retired, and confirm what is gone.                  *)
LEMMA PurgesStayRight ==
    ASSUME LeftInv, Hazards = {}, NEW c \in Workers, Visits(c)
    PROVE  PurgesRight'
<1>. USE DEF LeftInv
<1>0. Hazards \subseteq {"kept", "stayed"} OBVIOUS
<1>1. /\ \A u \in I!Uids : Retired(u) => u < next' /\ \A n \in Envs : uids'[n] # u
      /\ \A u \in I!Uids : Retired(u) /\ ~HasFiles(u) =>
           home'[u] = 0 /\ \A n \in Envs : dir'[n].uid # u
  BY <1>0, RetiredStays, RetiredOwnsNoMore
<1>2. ASSUME NEW u \in I!Uids, NEW n \in Envs, Retired(u), pending[u] \in {NoEnv, n}
      PROVE  pending'[u] \in {NoEnv, n}
  <2>1. ~(I!Retire(c) /\ u = uids[I!Me(c)]) BY <1>2, LiveIsNotRetired DEF Retired
  <2>. QED BY <1>2, <2>1, PendingSteps
<1>3. ASSUME NEW d \in Workers, NEW u \in I!Uids,
             visit'[d].todo[u] # NoEnv => visit'[d].todo[u] = visit[d].todo[u]
      PROVE  visit'[d].todo[u] # NoEnv => /\ u < next' /\ \A n \in Envs : uids'[n] # u
                                          /\ pending'[u] \in {NoEnv, visit'[d].todo[u]}
  <2> SUFFICES ASSUME visit'[d].todo[u] # NoEnv
               PROVE  /\ u < next' /\ \A n \in Envs : uids'[n] # u
                      /\ pending'[u] \in {NoEnv, visit'[d].todo[u]}
    OBVIOUS
  <2>1. visit[d].todo[u] \in Envs /\ visit[d].todo[u] # NoEnv
    BY <1>3 DEF IdInv, VisitsTyped, Visited
  <2>2. Retired(u) /\ pending[u] \in {NoEnv, visit[d].todo[u]} BY <2>1 DEF PurgesRight, Listed
  <2>. QED BY <1>1, <1>2, <1>3, <2>1, <2>2
<1>4. VisitStep(c) /\ OpFits(c) /\ visit[c] \in Visited
  BY <1>0, VisitsStayTyped DEF IdInv, OpsFit, VisitsTyped
<1>5. ASSUME NEW d \in Workers, NEW u \in I!Uids, ~I!List(c) \/ d # c
      PROVE  visit'[d].todo[u] # NoEnv => visit'[d].todo[u] = visit[d].todo[u]
  <2>1. CASE d # c
    BY <1>4, <2>1 DEF VisitStep, OthersKept
  <2>2. CASE d = c /\ EndsOp(c) BY <2>2 DEF EndsOp, I!Idle
  <2>3. CASE d = c /\ BeginsOp(c) BY <2>3 DEF BeginsOp
  <2>4. CASE d = c /\ visit'[c].todo = visit[c].todo BY <2>4
  <2>5. CASE d = c /\ I!Purge(c)
    <3>0. \/ \E v \in I!Uids : visit'[c] = [visit[c] EXCEPT !.todo = Without(c, v)]
          \/ \E v \in I!Uids :
               visit'[c] = [visit[c] EXCEPT !.one = v, !.step = "forget", !.todo = Without(c, v)]
          \/ visit'[c] = [visit[c] EXCEPT !.todo = [v \in I!Uids |-> NoEnv],
                !.step = I!AfterPurge(c)]
      BY <2>5, PurgeEffect DEF IdInv
    <3>1. \/ \E v \in I!Uids : visit'[c].todo = Without(c, v)
          \/ visit'[c].todo = [v \in I!Uids |-> NoEnv]
      BY <1>4, <3>0 DEF Visited
    <3>. QED BY <1>4, <2>5, <3>1 DEF Without, Visited
  <2>6. ASSUME d = c, ~EndsOp(c), ~BeginsOp(c), ~I!Purge(c) PROVE visit'[c].todo = visit[c].todo
    <3>1. CASE \E n \in Envs, m \in Envs :
                 I!BeginCreate(c, n) \/ I!BeginHeal(c, n) \/ I!BeginDelete(c, n)
                     \/ I!BeginRename(c, n, m)
      BY <1>0, <2>6, <3>1, BeginsTyped DEF IdInv
    <3>2. CASE I!BeginSync(c) BY <1>0, <2>6, <3>2, SyncBeginTyped DEF IdInv
    <3>3. CASE I!Ensure(c) \/ I!Retire(c) \/ I!RenameUid(c)
      <4>1. \E s \in {"list", "gone", "move_dir"} : I!Go(c, s)
        BY <2>6, <3>3, DoneEffect DEF I!Ensure, I!Retire, I!RenameUid, IdInv
      <4>2. \E s \in {"list", "gone", "move_dir"} : visit'[c] = [visit[c] EXCEPT !.step = s]
        BY <4>1, GoEffect DEF IdInv
      <4>. QED BY <1>4, <4>2 DEF Visited
    <3>4. CASE I!ForgetRemoved(c)
      <4>1. visit'[c] = [visit[c] EXCEPT !.one = 0, !.step = "purge"]
        BY <3>4, ForgetEffect DEF IdInv
      <4>. QED BY <1>4, <4>1 DEF Visited
    <3>5. CASE I!Allocate(c)
      <4>1. I!Me(c) \in Envs BY <1>4, <3>5 DEF I!Allocate, OpFits, I!At, Working, Adds, I!Me
      <4>2. visit'[c] = [visit[c] EXCEPT !.uid = I!Given(I!Me(c)), !.step = "provision"]
        BY <2>6, <3>5, <4>1, AllocateEffect DEF IdInv
      <4>. QED BY <1>4, <4>2 DEF Visited
    <3>6. CASE I!Provision(c) \/ I!Gone(c) \/ I!SyncProvision(c)
      BY <2>6, <3>6, DoneEffect DEF I!Provision, I!Gone, I!SyncProvision, IdInv
    <3>7. CASE I!MoveDir(c)
      <4>1. visit'[c] = [visit[c] EXCEPT !.env = visit[c].to, !.step = "ensure"]
        BY <1>0, <3>7, MoveEffect DEF IdInv
      <4>. QED BY <1>4, <4>1 DEF Visited
    <3>8. CASE I!Names(c)
      <4>1. visit'[c] = [visit[c] EXCEPT !.names = {n \in Envs : env[n] # 0},
                !.step = "provision_all"]
        BY <3>8, NamesEffect DEF IdInv
      <4>. QED BY <1>4, <4>1 DEF Visited
    <3>9. CASE \E n \in Envs : I!SyncAllocate(c, n) BY <3>9 DEF I!SyncAllocate
    <3>10. ~I!List(c) BY <1>5, <2>6
    <3>11. (\E n \in Envs : \/ I!BeginCreate(c, n) \/ I!BeginHeal(c, n) \/ I!BeginDelete(c, n)
                            \/ \E m \in Envs : I!BeginRename(c, n, m))
           => \E n \in Envs, m \in Envs :
                I!BeginCreate(c, n) \/ I!BeginHeal(c, n) \/ I!BeginDelete(c, n)
                    \/ I!BeginRename(c, n, m)
      OBVIOUS
    <3>. QED
      BY <2>6, <3>1, <3>2, <3>3, <3>4, <3>5, <3>6, <3>7, <3>8, <3>9, <3>10, <3>11 DEF Visits
  <2>. QED BY <2>1, <2>2, <2>3, <2>4, <2>5, <2>6
<1>6. ASSUME NEW d \in Workers PROVE Listed(d)'
  <2>1. CASE d = c /\ I!List(c)
    <3>1. visit'[c].todo = pending BY <1>4, <2>1, ListEffect DEF IdInv, Visited
    <3>2. UNCHANGED I!registry BY <2>1 DEF I!List
    <3>. QED BY <2>1, <3>1, <3>2 DEF Listed, IdInv, PendingRetired, Retired, I!registry
  <2>2. CASE ~I!List(c) \/ d # c
    <3>1. \A u \in I!Uids : visit'[d].todo[u] # NoEnv =>
             /\ u < next' /\ \A n \in Envs : uids'[n] # u
             /\ pending'[u] \in {NoEnv, visit'[d].todo[u]}
      BY <1>3, <1>5, <2>2
    <3>. QED BY <3>1 DEF Listed, Retired
  <2>. QED BY <2>1, <2>2
<1>7. ASSUME NEW d \in Workers PROVE Cleared(d)'
  <2>1. SUFFICES ASSUME visit'[d].step = "forget"
                 PROVE  /\ visit'[d].one < next' /\ \A n \in Envs : uids'[n] # visit'[d].one
                        /\ home'[visit'[d].one] = 0 /\ \A n \in Envs : dir'[n].uid # visit'[d].one
    BY DEF Cleared, Retired, HasFiles, I!At
  <2>2. CASE visit[d].step = "forget" /\ visit'[d].one = visit[d].one
    <3>1. visit[d].one \in I!Uids BY <2>2 DEF IdInv, OpsFit, OpFits, I!At
    <3>2. Retired(visit[d].one) /\ ~HasFiles(visit[d].one) BY <2>2 DEF PurgesRight, Cleared, I!At
    <3>. QED BY <1>1, <2>2, <3>1, <3>2
  <2>3. CASE d = c /\ visit[c].step # "forget"
    <3>1. I!Purge(c)
      <4>1. ~EndsOp(c) BY <2>1, <2>3 DEF EndsOp, I!Idle
      <4>2. ~I!BeginSync(c) BY <1>0, <2>1, <2>3, SyncBeginTyped DEF IdInv
      <4>3. \A n \in Envs, m \in Envs :
              ~(I!BeginCreate(c, n) \/ I!BeginHeal(c, n) \/ I!BeginDelete(c, n)
                  \/ I!BeginRename(c, n, m))
        BY <1>0, <2>1, <2>3, BeginsTyped DEF IdInv
      <4>4. \A s \in {"list", "gone", "move_dir"} : ~I!Go(c, s)
        <5> SUFFICES ASSUME NEW s \in {"list", "gone", "move_dir"}, I!Go(c, s) PROVE FALSE
          OBVIOUS
        <5>1. visit'[c] = [visit[c] EXCEPT !.step = s] BY GoEffect DEF IdInv
        <5>. QED BY <1>4, <2>1, <2>3, <5>1 DEF Visited
      <4>5. ~I!Ensure(c) /\ ~I!Retire(c) /\ ~I!RenameUid(c) /\ ~I!Provision(c) /\ ~I!Gone(c)
              /\ ~I!SyncProvision(c)
        BY <4>1, <4>4, DoneEffect
           DEF I!Ensure, I!Retire, I!RenameUid, I!Provision, I!Gone, I!SyncProvision, IdInv
      <4>6. ~I!List(c) BY <1>4, <2>1, <2>3, ListEffect DEF IdInv, Visited
      <4>7. ~I!ForgetRemoved(c) BY <2>3 DEF I!ForgetRemoved, I!At
      <4>8. ~I!Allocate(c)
        <5> SUFFICES ASSUME I!Allocate(c) PROVE FALSE OBVIOUS
        <5>1. I!Me(c) \in Envs BY <1>4 DEF I!Allocate, OpFits, I!At, Working, Adds, I!Me
        <5>2. visit'[c] = [visit[c] EXCEPT !.uid = I!Given(I!Me(c)), !.step = "provision"]
          BY <4>1, <5>1, AllocateEffect DEF IdInv
        <5>. QED BY <1>4, <2>1, <2>3, <5>2 DEF Visited
      <4>9. ~I!MoveDir(c)
        <5> SUFFICES ASSUME I!MoveDir(c) PROVE FALSE OBVIOUS
        <5>1. visit'[c] = [visit[c] EXCEPT !.env = visit[c].to, !.step = "ensure"]
          BY <1>0, MoveEffect DEF IdInv
        <5>. QED BY <1>4, <2>1, <2>3, <5>1 DEF Visited
      <4>10. ~I!Names(c)
        <5> SUFFICES ASSUME I!Names(c) PROVE FALSE OBVIOUS
        <5>1. visit'[c] = [visit[c] EXCEPT !.names = {n \in Envs : env[n] # 0},
                  !.step = "provision_all"]
          BY NamesEffect DEF IdInv
        <5>. QED BY <1>4, <2>1, <2>3, <5>1 DEF Visited
      <4>11. \A n \in Envs : ~I!SyncAllocate(c, n) BY <2>1, <2>3 DEF I!SyncAllocate
      <4>. QED
        BY <4>2, <4>3, <4>5, <4>6, <4>7, <4>8, <4>9, <4>10, <4>11 DEF Visits
    <3>2. PICK u \in I!Uids : /\ visit[c].todo[u] # NoEnv
                              /\ dir' = IF I!Owned(visit[c].todo[u], u)
                                        THEN [dir EXCEPT ![visit[c].todo[u]] = I!NoDir] ELSE dir
                              /\ home' = [home EXCEPT ![u] = 0]
                              /\ visit'[c] = [visit[c] EXCEPT !.one = u, !.step = "forget",
                                                              !.todo = Without(c, u)]
      <4>1. I!AfterPurge(c) # "forget" BY DEF I!AfterPurge
      <4>2. ~\E u \in I!Uids : visit'[c] = [visit[c] EXCEPT !.todo = Without(c, u)]
        BY <1>4, <2>1, <2>3 DEF Visited
      <4>3. visit'[c] # [visit[c] EXCEPT !.todo = [u \in I!Uids |-> NoEnv],
                !.step = I!AfterPurge(c)]
        BY <1>4, <2>1, <2>3, <4>1 DEF Visited
      <4>. QED BY <3>1, <4>2, <4>3, PurgeEffect DEF IdInv
    <3>3. visit'[c].one = u BY <1>4, <3>2 DEF Visited
    <3>4. Retired(u) /\ pending[u] \in {NoEnv, visit[c].todo[u]} /\ visit[c].todo[u] \in Envs
      BY <1>4, <3>2 DEF PurgesRight, Listed, Visited
    <3>5. home'[u] = 0 BY <3>2 DEF IdInv, FilesTyped
    <3>6. ASSUME NEW n \in Envs, dir'[n].uid = u PROVE FALSE
      <4>1. u # 0 /\ I!NoDir.uid = 0 BY UidsAreNumbers DEF I!NoDir
      <4>2. dir[n].uid = u BY <3>2, <3>4, <3>6, <4>1 DEF IdInv, FilesTyped
      <4>3. ~OnItsWay(n)
        BY <3>4, <4>2 DEF OnItsWay, IdInv, OpsFit, OpFits, Working, Moves, I!At, Retired
      <4>4. pending[u] = n BY <3>4, <4>1, <4>2, <4>3 DEF DirsOwned, Retired
      <4>5. n = visit[c].todo[u] BY <3>4, <4>4, UidsAreNumbers
      <4>. QED BY <3>2, <3>6, <4>1, <4>2, <4>5 DEF I!Owned, IdInv, FilesTyped
    <3>. QED BY <1>1, <2>3, <3>3, <3>4, <3>5, <3>6
  <2>4. CASE d = c /\ visit[c].step = "forget"
    <3>1. I!ForgetRemoved(c)
      BY <2>4, <1>0, BeginsTyped, SyncBeginTyped
         DEF Visits, I!At, I!SyncAllocate, I!Ensure, I!List, I!Purge, I!Allocate, I!Provision,
             I!Retire, I!Gone,
             I!RenameUid, I!MoveDir, I!Names, I!SyncProvision, BeginsOp, IdInv
    <3>2. visit'[c] = [visit[c] EXCEPT !.one = 0, !.step = "purge"] BY <3>1, ForgetEffect DEF IdInv
    <3>. QED BY <1>4, <2>1, <2>4, <3>2 DEF Visited
  <2>5. CASE d # c /\ visit[d].step = "forget"
    <3>1. visit'[d] = visit[d] BY <1>4, <2>5 DEF VisitStep, OthersKept
    <3>. QED BY <2>2, <2>5, <3>1
  <2>6. CASE d # c /\ visit[d].step # "forget"
    BY <1>4, <2>1, <2>6 DEF VisitStep, OthersKept
  <2>. QED BY <2>3, <2>4, <2>5, <2>6
<1>. QED BY <1>6, <1>7 DEF PurgesRight

(* A checkout that a rename is about to move waits for it.                   *)
LEMMA OnItsWayStays ==
    ASSUME LeftInv, Hazards = {}, NEW c \in Workers, Visits(c), NEW n \in Envs,
           NEW d \in Workers, d # c, I!At(d, "move_dir"), I!Me(d) = n,
           uids[visit[d].to] = dir[n].uid,
           dir'[n].uid = dir[n].uid
    PROVE  OnItsWay(n)'
<1>0. Hazards \subseteq {"kept", "stayed"} OBVIOUS
<1>1. Working(d) /\ visit[d].to \in Touches(d)
  BY DEF LeftInv, IdInv, OpsFit, OpFits, Moves, I!At, Working, Touches
<1>2. visit'[d] = visit[d] /\ uids'[visit[d].to] = uids[visit[d].to]
  BY <1>0, <1>1, AnothersNameStays DEF LeftInv
<1>. QED BY <1>2 DEF OnItsWay, I!At, I!Me

(* Only the rename of a name moves its checkout.                             *)
LEMMA OnlyOneMovesAName ==
    ASSUME IdInv, NEW c \in Workers, NEW d \in Workers, NEW n \in Envs, I!At(d, "move_dir"),
           I!Me(d) = n,
           Working(c), n \in Touches(c)
    PROVE  d = c
<1>1. Working(d) BY DEF IdInv, OpsFit, OpFits, Moves, I!At, Working
<1>. QED BY <1>1, NamesApart DEF IdInv, Touches

(* A checkout belongs to its name's uid, is pending, or is on its way.       *)
LEMMA DirsStayOwned ==
    ASSUME LeftInv, Hazards = {}, NEW c \in Workers, Visits(c)
    PROVE  DirsOwned'
<1>. USE DEF LeftInv
<1>0. /\ Hazards \subseteq {"kept", "stayed"} /\ VisitStep(c) /\ OpFits(c) /\ OpStage(c)
      /\ visit[c] \in Visited /\ FilesTyped' /\ RegistryTyped'
  <2>1. Hazards \subseteq {"kept", "stayed"} OBVIOUS
  <2>. QED
    BY <2>1, VisitsStayTyped, FilesSteps, RegistryStaysTyped
       DEF IdInv, OpsFit, OpStages, VisitsTyped
<1>a. I!NoDir.uid = 0 BY DEF I!NoDir
<1>1. SUFFICES ASSUME NEW n \in Envs, dir'[n].uid # 0
               PROVE  \/ uids'[n] = dir'[n].uid \/ pending'[dir'[n].uid] = n
                      \/ OnItsWay(n)'
  BY DEF DirsOwned
<1>2. dir[n].uid \in 0..MaxUids /\ (dir[n].uid # 0 => dir[n].uid \in I!Uids)
  BY UidsAreNumbers DEF IdInv, FilesTyped, I!Uids
<1>3. ASSUME dir'[n] = dir[n], ~Moves(c), uids'[n] = uids[n], ~I!Retire(c), ~I!ForgetRemoved(c)
      PROVE  uids'[n] = dir'[n].uid \/ pending'[dir'[n].uid] = n \/ OnItsWay(n)'
  <2>1. CASE uids[n] = dir[n].uid BY <1>3, <2>1
  <2>2. CASE pending[dir[n].uid] = n BY <1>1, <1>2, <1>3, <2>2, PendingSteps
  <2>3. CASE OnItsWay(n)
    <3>1. PICK d \in Workers : I!At(d, "move_dir") /\ I!Me(d) = n /\ uids[visit[d].to] = dir[n].uid
      BY <2>3 DEF OnItsWay
    <3>2. d # c BY <1>3, <3>1 DEF Moves, I!At
    <3>. QED BY <1>3, <3>1, <3>2, OnItsWayStays
  <2>. QED BY <1>1, <1>3, <2>1, <2>2, <2>3 DEF DirsOwned
<1>4. CASE \/ \E k \in Envs : \/ I!BeginCreate(c, k) \/ I!BeginHeal(c, k) \/ I!BeginDelete(c, k)
                              \/ \E m \in Envs : I!BeginRename(c, k, m)
           \/ I!BeginSync(c) \/ I!Ensure(c) \/ I!List(c) \/ I!Gone(c) \/ I!Names(c)
  <2>1. UNCHANGED <<dir, uids>>
          /\ visit[c].step \notin {"rename_uid", "move_dir", "retire", "forget"}
    BY <1>4 DEF I!BeginCreate, I!BeginHeal, I!BeginDelete, I!BeginRename, I!BeginSync, I!Ensure,
       I!List, I!Gone, I!Names,
                I!registry, I!files, I!Begin, I!At
  <2>. QED BY <1>3, <2>1 DEF Moves, I!Retire, I!ForgetRemoved, I!At
<1>5. CASE I!Purge(c)
  <2>1. UNCHANGED uids /\ visit[c].step = "purge" BY <1>5 DEF I!Purge, I!registry, I!At
  <2>2. UNCHANGED dir \/ \E u \in I!Uids : dir' = [dir EXCEPT ![visit[c].todo[u]] = I!NoDir]
    BY <1>5, PurgeEffect DEF IdInv, I!files
  <2>3. dir'[n] = dir[n] BY <1>1, <1>a, <2>2 DEF IdInv, FilesTyped
  <2>. QED BY <1>3, <2>1, <2>3 DEF Moves, I!Retire, I!ForgetRemoved, I!At
<1>6. CASE I!Allocate(c) \/ \E k \in Envs : I!SyncAllocate(c, k)
  <2>1. UNCHANGED dir /\ visit[c].step \in {"allocate", "provision_all"}
    BY <1>6 DEF I!Allocate, I!SyncAllocate, I!files, I!At
  <2>2. I!Allocate(c) => I!Me(c) \in Envs BY <1>0 DEF I!Allocate, OpFits, I!At, Working, Adds, I!Me
  <2>3. uids'[n] = uids[n] \/ uids[n] = 0
    <3>1. ASSUME NEW k \in Envs, I!AllocateUid(k) PROVE uids'[n] = uids[n] \/ uids[n] = 0
      BY <3>1, AllocateTyped DEF IdInv
    <3>2. UNCHANGED uids \/ \E k \in Envs : I!AllocateUid(k)
      BY <1>6, <2>2 DEF I!Allocate, I!SyncAllocate, I!registry
    <3>. QED BY <3>1, <3>2
  <2>4. CASE uids'[n] = uids[n] BY <1>3, <2>1, <2>4 DEF Moves, I!Retire, I!ForgetRemoved, I!At
  <2>5. CASE uids[n] = 0
    <3>1. CASE pending[dir[n].uid] = n
      <4>1. ~I!Retire(c) /\ ~I!ForgetRemoved(c) BY <2>1 DEF I!Retire, I!ForgetRemoved, I!At
      <4>. QED BY <1>1, <1>2, <2>1, <3>1, <4>1, PendingSteps
    <3>2. CASE OnItsWay(n)
      <4>1. PICK d \in Workers : I!At(d, "move_dir") /\ I!Me(d) = n
                   /\ uids[visit[d].to] = dir[n].uid
        BY <3>2 DEF OnItsWay
      <4>2. d # c BY <2>1, <4>1 DEF I!At
      <4>. QED BY <2>1, <4>1, <4>2, OnItsWayStays
    <3>. QED BY <1>1, <2>1, <2>5, <3>1, <3>2 DEF DirsOwned
  <2>. QED BY <2>3, <2>4, <2>5
<1>7. CASE I!ForgetRemoved(c)
  <2>1. UNCHANGED <<dir, uids>> /\ I!At(c, "forget") BY <1>7 DEF I!ForgetRemoved, I!files
  <2>2. dir[n].uid # visit[c].one BY <2>1 DEF PurgesRight, Cleared, HasFiles
  <2>3. CASE pending[dir[n].uid] = n
    <3>1. ~I!Retire(c) BY <2>1 DEF I!Retire, I!At
    <3>. QED BY <1>1, <1>2, <2>1, <2>2, <2>3, <3>1, PendingSteps
  <2>4. CASE OnItsWay(n)
    <3>1. PICK d \in Workers : I!At(d, "move_dir") /\ I!Me(d) = n /\ uids[visit[d].to] = dir[n].uid
      BY <2>4 DEF OnItsWay
    <3>2. d # c BY <2>1, <3>1 DEF I!At
    <3>. QED BY <2>1, <3>1, <3>2, OnItsWayStays
  <2>. QED BY <1>1, <2>1, <2>3, <2>4 DEF DirsOwned
<1>8. CASE I!Provision(c)
  <2>1. UNCHANGED uids /\ I!At(c, "provision") BY <1>8 DEF I!Provision, I!registry
  <2>2. CASE dir'[n] = dir[n] BY <1>3, <2>1, <2>2 DEF Moves, I!Retire, I!ForgetRemoved, I!At
  <2>3. CASE dir'[n] # dir[n]
    <3>1. Provides({I!Me(c)}, [k \in Envs |-> visit[c].uid], [k \in Envs |-> visit[c].born])
      BY <1>8, <2>3, ProvisionTyped DEF IdInv, I!files
    <3>2. n = I!Me(c) /\ dir'[n].uid = visit[c].uid BY <2>3, <3>1 DEF Provides
    <3>. QED BY <1>8, <2>1, <3>2, LiveIsNotRetired
  <2>. QED BY <2>2, <2>3
<1>9. CASE I!SyncProvision(c)
  <2>1. UNCHANGED uids /\ I!At(c, "provision_all") BY <1>9 DEF I!SyncProvision, I!registry
  <2>2. CASE dir'[n] = dir[n] BY <1>3, <2>1, <2>2 DEF Moves, I!Retire, I!ForgetRemoved, I!At
  <2>3. CASE dir'[n] # dir[n]
    <3>1. Provides(visit[c].names, uids, env)
      BY <1>9, <2>3, ProvisionTyped DEF IdInv, I!files
    <3>. QED BY <2>1, <2>3, <3>1 DEF Provides
  <2>. QED BY <2>2, <2>3
<1>10. CASE I!Retire(c)
  <2>1. /\ I!At(c, "retire") /\ uids' = [uids EXCEPT ![I!Me(c)] = 0]
        /\ dir' = dir \/ dir' = [dir EXCEPT ![I!Me(c)] = I!NoDir]
        /\ pending' = IF uids[I!Me(c)] = 0 THEN pending
            ELSE [pending EXCEPT ![uids[I!Me(c)]] = I!Me(c)]
    BY <1>10 DEF I!Retire
  <2>2. I!Me(c) \in Envs /\ Working(c) /\ ~I!ForgetRemoved(c)
    BY <1>10, <2>1, LiveIsNotRetired DEF I!ForgetRemoved, I!At
  <2>3. dir'[n] = dir[n] BY <1>1, <1>a, <2>1 DEF IdInv, FilesTyped
  <2>4. CASE uids[n] = dir[n].uid
    <3>1. CASE n = I!Me(c) BY <1>1, <1>2, <2>1, <2>3, <2>4, <3>1 DEF IdInv, RegistryTyped
    <3>2. CASE n # I!Me(c)
      <4>1. uids'[n] = uids[n] BY <2>1, <3>2 DEF IdInv, RegistryTyped
      <4>. QED BY <2>3, <2>4, <4>1
    <3>. QED BY <3>1, <3>2
  <2>5. CASE pending[dir[n].uid] = n
    <3>1. dir[n].uid \in I!Uids /\ pending[dir[n].uid] # NoEnv
      BY <1>1, <1>2, <2>3, <2>5, UidsAreNumbers
    <3>2. dir[n].uid # uids[I!Me(c)] BY <2>2, <3>1 DEF IdInv, PendingRetired, Retired
    <3>. QED BY <2>2, <2>3, <2>5, <3>1, <3>2, PendingSteps
  <2>6. CASE OnItsWay(n)
    <3>1. PICK d \in Workers : I!At(d, "move_dir") /\ I!Me(d) = n /\ uids[visit[d].to] = dir[n].uid
      BY <2>6 DEF OnItsWay
    <3>2. d # c BY <2>1, <3>1 DEF I!At
    <3>. QED BY <2>3, <3>1, <3>2, OnItsWayStays
  <2>. QED BY <1>1, <2>3, <2>4, <2>5, <2>6 DEF DirsOwned
<1>11. CASE I!RenameUid(c)
  <2>1. /\ UNCHANGED <<dir, pending>> /\ I!At(c, "rename_uid") /\ I!Go(c, "move_dir")
        /\ uids[I!Me(c)] = 0 => uids' = uids
        /\ uids[I!Me(c)] # 0 => uids' = [uids EXCEPT ![visit[c].to] = uids[I!Me(c)], ![I!Me(c)] = 0]
    BY <1>11 DEF I!RenameUid, I!files
  <2>2. /\ I!Me(c) \in Envs /\ I!Me(c) # visit[c].to /\ visit[c].to \in Envs
            /\ uids[visit[c].to] = 0
    BY <1>0, <2>1 DEF OpFits, OpStage, I!At, Working, Moves, I!Me
  <2>3. visit'[c] = [visit[c] EXCEPT !.step = "move_dir"] BY <2>1, GoEffect DEF IdInv
  <2>4. visit'[c].step = "move_dir" /\ visit'[c].env = visit[c].env /\ visit'[c].to = visit[c].to
    BY <1>0, <2>3 DEF Visited
  <2>5. CASE uids[n] = dir[n].uid
    <3>1. CASE n = I!Me(c)
      <4>1. uids'[visit[c].to] = uids[n] BY <1>1, <2>1, <2>2, <2>5, <3>1 DEF IdInv, RegistryTyped
      <4>. QED BY <2>1, <2>4, <2>5, <3>1, <4>1 DEF OnItsWay, I!At, I!Me
    <3>2. CASE n # I!Me(c)
      <4>1. n # visit[c].to BY <1>1, <2>1, <2>2, <2>5
      <4>2. uids'[n] = uids[n] BY <2>1, <3>2, <4>1 DEF IdInv, RegistryTyped
      <4>. QED BY <2>1, <2>5, <4>2
    <3>. QED BY <3>1, <3>2
  <2>6. CASE pending[dir[n].uid] = n BY <2>1, <2>6
  <2>7. CASE OnItsWay(n)
    <3>1. PICK d \in Workers : I!At(d, "move_dir") /\ I!Me(d) = n /\ uids[visit[d].to] = dir[n].uid
      BY <2>7 DEF OnItsWay
    <3>2. d # c BY <2>1, <3>1 DEF I!At
    <3>. QED BY <2>1, <3>1, <3>2, OnItsWayStays
  <2>. QED BY <1>1, <2>1, <2>5, <2>6, <2>7 DEF DirsOwned
<1>12. CASE I!MoveDir(c)
  <2>1. /\ I!At(c, "move_dir") /\ UNCHANGED I!registry
        /\ \/ dir[I!Me(c)].uid = 0 /\ dir' = dir
           \/ dir[I!Me(c)].uid # 0
               /\ dir' = [dir EXCEPT ![visit[c].to] = dir[I!Me(c)], ![I!Me(c)] = I!NoDir]
    BY <1>12 DEF I!MoveDir
  <2>2. /\ I!Me(c) \in Envs /\ I!Me(c) # visit[c].to /\ visit[c].to \in Envs /\ Working(c)
        /\ uids[I!Me(c)] = 0 /\ \A u \in I!Uids : pending[u] # I!Me(c)
    BY <1>0, <2>1 DEF OpFits, OpStage, I!At, Working, Moves, I!Me, RenamesClean, NothingPending
  <2>3. n # I!Me(c) BY <1>1, <1>a, <2>1, <2>2 DEF IdInv, FilesTyped
  <2>4. CASE dir'[n] = dir[n]
    <3>1. CASE OnItsWay(n)
      <4>1. PICK d \in Workers : I!At(d, "move_dir") /\ I!Me(d) = n
                   /\ uids[visit[d].to] = dir[n].uid
        BY <3>1 DEF OnItsWay
      <4>2. d # c BY <2>3, <4>1
      <4>. QED BY <2>4, <4>1, <4>2, OnItsWayStays
    <3>. QED BY <1>1, <2>1, <2>4, <3>1 DEF DirsOwned, I!registry
  <2>5. CASE dir'[n] # dir[n]
    <3>1. n = visit[c].to /\ dir'[n] = dir[I!Me(c)] /\ dir[I!Me(c)].uid # 0
      BY <1>1, <2>1, <2>2, <2>3, <2>5 DEF IdInv, FilesTyped
    <3>2. dir[I!Me(c)].uid \in I!Uids BY <2>2, <3>1, UidsAreNumbers DEF IdInv, FilesTyped, I!Uids
    <3>3. OnItsWay(I!Me(c)) BY <2>2, <3>1, <3>2 DEF DirsOwned
    <3>4. PICK d \in Workers : I!At(d, "move_dir") /\ I!Me(d) = I!Me(c)
                 /\ uids[visit[d].to] = dir[I!Me(c)].uid
      BY <3>3 DEF OnItsWay
    <3>5. d = c BY <2>2, <3>4, OnlyOneMovesAName DEF Touches
    <3>. QED BY <2>1, <3>1, <3>4, <3>5 DEF I!registry
  <2>. QED BY <2>4, <2>5
<1>. QED
  BY <1>4, <1>5, <1>6, <1>7, <1>8, <1>9, <1>10, <1>11, <1>12 DEF Visits

(* A HOME belongs to an environment or is pending.                           *)
LEMMA HomesStayOwned ==
    ASSUME LeftInv, Hazards = {}, NEW c \in Workers, Visits(c)
    PROVE  HomesOwned'
<1>. USE DEF LeftInv
<1>0. /\ OpFits(c) /\ OpStage(c) /\ visit[c] \in Visited
      /\ \/ Shrinks
         \/ I!Provision(c)
             /\ Provides({I!Me(c)}, [n \in Envs |-> visit[c].uid], [n \in Envs |-> visit[c].born])
         \/ I!SyncProvision(c) /\ Provides(visit[c].names, uids, env)
  BY FilesSteps DEF IdInv, OpsFit, OpStages, VisitsTyped
<1>1. SUFFICES ASSUME NEW u \in I!Uids, home'[u] # 0
               PROVE  pending'[u] # NoEnv \/ \E n \in Envs : uids'[n] = u
  BY DEF HomesOwned
<1>2. u # 0 BY UidsAreNumbers
<1>3. home[u] # 0 \/ \E n \in Envs : uids[n] = u /\ (I!Provision(c) \/ I!SyncProvision(c))
  <2>1. CASE Shrinks BY <1>1, <2>1 DEF Shrinks
  <2>2. CASE /\ I!Provision(c)
             /\ Provides({I!Me(c)}, [n \in Envs |-> visit[c].uid], [n \in Envs |-> visit[c].born])
    BY <1>1, <2>2, LiveIsNotRetired DEF Provides
  <2>3. CASE I!SyncProvision(c) /\ Provides(visit[c].names, uids, env)
    BY <1>1, <2>3, LiveIsNotRetired DEF Provides
  <2>. QED BY <1>0, <2>1, <2>2, <2>3
<1>4. CASE \E n \in Envs : uids[n] = u
  <2>1. PICK n \in Envs : uids[n] = u BY <1>4
  <2>2. CASE uids' = uids BY <2>1, <2>2
  <2>3. CASE I!Allocate(c) \/ \E k \in Envs : I!SyncAllocate(c, k)
    <3>1. I!Allocate(c) => I!Me(c) \in Envs
      BY <1>0 DEF I!Allocate, OpFits, I!At, Working, Adds, I!Me
    <3>2. UNCHANGED uids \/ \E k \in Envs : I!AllocateUid(k)
      BY <2>3, <3>1 DEF I!Allocate, I!SyncAllocate, I!registry
    <3>3. uids'[n] = uids[n] BY <1>2, <2>1, <3>2, AllocateTyped DEF IdInv
    <3>. QED BY <2>1, <3>3
  <2>4. CASE I!Retire(c)
    <3>1. /\ uids' = [uids EXCEPT ![I!Me(c)] = 0]
          /\ pending' = IF uids[I!Me(c)] = 0 THEN pending
              ELSE [pending EXCEPT ![uids[I!Me(c)]] = I!Me(c)]
      BY <2>4 DEF I!Retire
    <3>2. CASE n = I!Me(c) BY <1>2, <2>1, <3>1, <3>2, UidsAreNumbers DEF IdInv, RegistryTyped
    <3>3. CASE n # I!Me(c) BY <2>1, <3>1, <3>3 DEF IdInv, RegistryTyped
    <3>. QED BY <3>2, <3>3
  <2>5. CASE I!RenameUid(c)
    <3>1. /\ I!At(c, "rename_uid")
          /\ uids' = uids \/ uids' = [uids EXCEPT ![visit[c].to] = uids[I!Me(c)], ![I!Me(c)] = 0]
      BY <2>5 DEF I!RenameUid
    <3>2. I!Me(c) \in Envs /\ I!Me(c) # visit[c].to /\ visit[c].to \in Envs /\ uids[visit[c].to] = 0
      BY <1>0, <3>1 DEF OpFits, OpStage, I!At, Working, Moves, I!Me
    <3>3. n # visit[c].to BY <1>2, <2>1, <3>2
    <3>4. CASE uids' = uids BY <2>1, <3>4
    <3>5. CASE uids' = [uids EXCEPT ![visit[c].to] = uids[I!Me(c)], ![I!Me(c)] = 0]
      <4>1. CASE n = I!Me(c)
        <5>1. uids'[visit[c].to] = u BY <2>1, <3>2, <3>5, <4>1 DEF IdInv, RegistryTyped
        <5>. QED BY <3>2, <5>1
      <4>2. CASE n # I!Me(c)
        <5>1. uids'[n] = u BY <2>1, <3>3, <3>5, <4>2 DEF IdInv, RegistryTyped
        <5>. QED BY <5>1
      <4>. QED BY <4>1, <4>2
    <3>. QED BY <3>1, <3>4, <3>5
  <2>. QED
    BY <2>2, <2>3, <2>4, <2>5
       DEF Visits, I!BeginCreate, I!BeginHeal, I!BeginDelete, I!BeginRename, I!BeginSync, I!Ensure,
           I!List, I!Purge,
           I!ForgetRemoved, I!Provision, I!Gone, I!MoveDir, I!Names, I!SyncProvision, I!registry
<1>5. CASE home[u] # 0 /\ pending[u] # NoEnv
  <2>1. ~(I!ForgetRemoved(c) /\ u = visit[c].one)
    <3> SUFFICES ASSUME I!ForgetRemoved(c), u = visit[c].one PROVE FALSE OBVIOUS
    <3>1. ~HasFiles(u) BY DEF I!ForgetRemoved, PurgesRight, Cleared
    <3>. QED BY <1>5, <3>1 DEF HasFiles
  <2>2. I!Retire(c) => I!Me(c) # NoEnv BY LiveIsNotRetired, UidsAreNumbers
  <2>. QED BY <1>5, <2>1, <2>2, PendingSteps
<1>. QED BY <1>3, <1>4, <1>5 DEF HomesOwned

(* No removal is pending for the name of a rename.                           *)
LEMMA RenamesStayClean ==
    ASSUME LeftInv, Hazards = {}, NEW c \in Workers, Visits(c)
    PROVE  RenamesClean'
<1>. USE DEF LeftInv
<1>0. /\ Hazards \subseteq {"kept", "stayed"} /\ VisitStep(c) /\ OpFits(c)
      /\ visit[c] \in Visited
  <2>1. Hazards \subseteq {"kept", "stayed"} OBVIOUS
  <2>. QED BY <2>1, VisitsStayTyped DEF IdInv, OpsFit, VisitsTyped
<1>1. SUFFICES ASSUME NEW d \in Workers, visit'[d].step \in {"rename_uid", "move_dir"},
                      NEW u \in I!Uids,
                      pending'[u] = visit'[d].env
               PROVE  FALSE
  BY DEF RenamesClean, NothingPending, Moves, I!Me
<1>2. CASE d # c
  <2>1. visit'[d] = visit[d] BY <1>0, <1>2 DEF VisitStep, OthersKept
  <2>2. Moves(d) BY <1>1, <2>1 DEF Moves
  <2>3. pending[u] # I!Me(d) /\ Working(d) /\ I!Me(d) \in Envs
    BY <2>2 DEF RenamesClean, NothingPending, IdInv, OpsFit, OpFits, Working
  <2>4. I!Retire(c) => I!Me(c) # I!Me(d)
    BY <1>2, <2>3, LiveIsNotRetired, NamesApart DEF IdInv, Touches
  <2>. QED BY <1>1, <2>1, <2>3, <2>4, PendingSteps, UidsAreNumbers DEF I!Me
<1>3. CASE d = c
  <2>1. (\E n \in Envs, m \in Envs : I!BeginRename(c, n, m)) \/ I!RenameUid(c)
    <3>1. ~EndsOp(c) BY <1>1, <1>3 DEF EndsOp, I!Idle
    <3>2. ~I!BeginSync(c) BY <1>0, <1>1, <1>3, SyncBeginTyped DEF IdInv
    <3>3. \A n \in Envs : ~(I!BeginCreate(c, n) \/ I!BeginHeal(c, n) \/ I!BeginDelete(c, n))
      <4> SUFFICES ASSUME NEW n \in Envs,
                          I!BeginCreate(c, n) \/ I!BeginHeal(c, n) \/ I!BeginDelete(c, n)
                   PROVE  FALSE
        OBVIOUS
      <4>1. visit'[c].step \in {"ensure", "retire"} \/ I!BeginRename(c, n, n)
        BY <1>0, BeginsTyped DEF IdInv
      <4>. QED BY <1>1, <1>3, <4>1 DEF I!BeginRename
    <3>4. ~I!Ensure(c) /\ ~I!Retire(c)
      <4> SUFFICES ASSUME I!Ensure(c) \/ I!Retire(c) PROVE FALSE OBVIOUS
      <4>1. \E s \in {"list", "gone"} : I!Go(c, s) BY <3>1, DoneEffect DEF I!Ensure, I!Retire, IdInv
      <4>2. \E s \in {"list", "gone"} : visit'[c] = [visit[c] EXCEPT !.step = s]
        BY <4>1, GoEffect DEF IdInv
      <4>. QED BY <1>0, <1>1, <1>3, <4>2 DEF Visited
    <3>5. ~I!Provision(c) /\ ~I!Gone(c) /\ ~I!SyncProvision(c)
      BY <3>1, DoneEffect DEF I!Provision, I!Gone, I!SyncProvision, IdInv
    <3>6. ~I!List(c)
      <4> SUFFICES ASSUME I!List(c) PROVE FALSE OBVIOUS
      <4>1. visit'[c] = [visit[c] EXCEPT !.todo = pending, !.step = "purge"] BY ListEffect DEF IdInv
      <4>. QED BY <1>0, <1>1, <1>3, <4>1 DEF Visited
    <3>7. ~I!Purge(c)
      <4> SUFFICES ASSUME I!Purge(c) PROVE FALSE OBVIOUS
      <4>1. /\ I!At(c, "purge")
            /\ \/ \E v \in I!Uids : visit'[c] = [visit[c] EXCEPT !.todo = Without(c, v)]
               \/ \E v \in I!Uids :
                    visit'[c] = [visit[c] EXCEPT !.one = v, !.step = "forget",
                          !.todo = Without(c, v)]
               \/ visit'[c] = [visit[c] EXCEPT !.todo = [v \in I!Uids |-> NoEnv],
                     !.step = I!AfterPurge(c)]
        BY PurgeEffect DEF IdInv
      <4>2. I!AfterPurge(c) \in {"gone", "names", "allocate"} BY DEF I!AfterPurge
      <4>3. visit'[c].step \in {"purge", "forget", "gone", "names", "allocate"}
        BY <1>0, <4>1, <4>2 DEF Visited, I!At
      <4>. QED BY <1>1, <1>3, <4>3
    <3>8. ~I!ForgetRemoved(c)
      <4> SUFFICES ASSUME I!ForgetRemoved(c) PROVE FALSE OBVIOUS
      <4>1. visit'[c] = [visit[c] EXCEPT !.one = 0, !.step = "purge"] BY ForgetEffect DEF IdInv
      <4>. QED BY <1>0, <1>1, <1>3, <4>1 DEF Visited
    <3>9. ~I!Allocate(c)
      <4> SUFFICES ASSUME I!Allocate(c) PROVE FALSE OBVIOUS
      <4>1. I!Me(c) \in Envs BY <1>0 DEF I!Allocate, OpFits, I!At, Working, Adds, I!Me
      <4>2. visit'[c] = [visit[c] EXCEPT !.uid = I!Given(I!Me(c)), !.step = "provision"]
        BY <3>1, <4>1, AllocateEffect DEF IdInv
      <4>. QED BY <1>0, <1>1, <1>3, <4>2 DEF Visited
    <3>10. ~I!MoveDir(c)
      <4> SUFFICES ASSUME I!MoveDir(c) PROVE FALSE OBVIOUS
      <4>1. visit'[c] = [visit[c] EXCEPT !.env = visit[c].to, !.step = "ensure"]
        BY <1>0, MoveEffect DEF IdInv
      <4>. QED BY <1>0, <1>1, <1>3, <4>1 DEF Visited
    <3>11. ~I!Names(c)
      <4> SUFFICES ASSUME I!Names(c) PROVE FALSE OBVIOUS
      <4>1. visit'[c] = [visit[c] EXCEPT !.names = {n \in Envs : env[n] # 0},
                !.step = "provision_all"]
        BY NamesEffect DEF IdInv
      <4>. QED BY <1>0, <1>1, <1>3, <4>1 DEF Visited
    <3>12. \A n \in Envs : ~I!SyncAllocate(c, n) BY <1>1, <1>3 DEF I!SyncAllocate, I!At
    <3>. QED
      BY <3>2, <3>3, <3>4, <3>5, <3>6, <3>7, <3>8, <3>9, <3>10, <3>11, <3>12 DEF Visits
  <2>2. ASSUME NEW n \in Envs, NEW m \in Envs, I!BeginRename(c, n, m) PROVE FALSE
    <3>1. (\A v \in I!Uids : pending[v] # n) /\ pending' = pending
      BY <2>2 DEF I!BeginRename, I!registry
    <3>2. visit'[c].env = n BY <1>0, <2>2, BeginsTyped DEF IdInv
    <3>. QED BY <1>1, <1>3, <3>1, <3>2
  <2>3. CASE I!RenameUid(c)
    <3>1. I!At(c, "rename_uid") /\ I!Go(c, "move_dir") /\ pending' = pending BY <2>3 DEF I!RenameUid
    <3>2. visit'[c] = [visit[c] EXCEPT !.step = "move_dir"] BY <3>1, GoEffect DEF IdInv
    <3>3. visit'[c].env = I!Me(c) BY <1>0, <3>2 DEF Visited, I!Me
    <3>4. pending[u] # I!Me(c) BY <3>1 DEF RenamesClean, NothingPending, Moves, I!At
    <3>. QED BY <1>1, <1>3, <3>1, <3>3, <3>4
  <2>. QED BY <2>1, <2>2, <2>3
<1>. QED BY <1>2, <1>3

(* All of this holds at first.                                               *)
LEMMA LeftInitially == I!IdInit => LeftInv
<1> SUFFICES ASSUME I!IdInit PROVE LeftInv OBVIOUS
<1>1. PurgesRight /\ RenamesClean
  BY DEF I!IdInit, PurgesRight, Listed, Cleared, RenamesClean, NothingPending, I!Idle, I!At, Moves
<1>2. DirsOwned /\ HomesOwned BY DEF I!IdInit, DirsOwned, HomesOwned, I!NoDir
<1>. QED BY <1>1, <1>2, IdInitially DEF LeftInv

(* And every step keeps it.                                                  *)
LEMMA LeftKept == ASSUME LeftInv, Hazards = {}, [I!IdNext]_(I!idVars) PROVE LeftInv'
<1>0. IdInv' BY IdKept DEF LeftInv
<1>1. CASE \E c \in Workers : Visits(c)
  BY <1>0, <1>1, PurgesStayRight, DirsStayOwned, HomesStayOwned, RenamesStayClean DEF LeftInv
<1>2. CASE I!Die
  <2>1. /\ visit' = [c \in Workers |-> I!Idle] /\ UNCHANGED <<I!registry, I!files>>
        /\ \A c \in Workers : ~I!At(c, "move_dir")
    <3>1. "lost" \notin Hazards OBVIOUS
    <3>. QED BY <1>2, <3>1 DEF I!Die
  <2>2. PurgesRight' /\ RenamesClean'
    BY <2>1 DEF PurgesRight, Listed, Cleared, RenamesClean, NothingPending, I!Idle, I!At, Moves
  <2>3. DirsOwned'
    BY <2>1 DEF LeftInv, DirsOwned, OnItsWay, I!registry, I!files
  <2>4. HomesOwned' BY <2>1 DEF LeftInv, HomesOwned, I!registry, I!files
  <2>. QED BY <1>0, <2>2, <2>3, <2>4 DEF LeftInv
<1>3. CASE I!ContainerStops \/ UNCHANGED I!idVars
  <2>1. UNCHANGED <<I!registry, I!files, visit>> BY <1>3 DEF I!ContainerStops, I!idVars
  <2>2. PurgesRight' /\ RenamesClean'
    BY <2>1 DEF LeftInv, PurgesRight, Listed, Cleared, Retired, HasFiles, RenamesClean,
       NothingPending,
                I!At, Moves, I!Me, I!registry, I!files
  <2>3. DirsOwned' /\ HomesOwned'
    BY <2>1 DEF LeftInv, DirsOwned, HomesOwned, OnItsWay, I!At, I!Me, I!registry, I!files
  <2>. QED BY <1>0, <2>2, <2>3 DEF LeftInv
<1>. QED BY <1>1, <1>2, <1>3 DEF I!IdNext, Visits

(* So what is left is still to be removed.                                   *)
LEMMA LeavesNothing == LeftInv => I!NothingLeftBehind
<1> SUFFICES ASSUME LeftInv, NEW u \in I!Uids, home[u] # 0 \/ \E n \in Envs : dir[n].uid = u
             PROVE  pending[u] # NoEnv \/ \E n \in Envs : uids[n] = u
  BY DEF I!NothingLeftBehind
<1>1. CASE home[u] # 0 BY <1>1 DEF LeftInv, HomesOwned
<1>2. ASSUME NEW n \in Envs, dir[n].uid = u
      PROVE  pending[u] # NoEnv \/ \E m \in Envs : uids[m] = u
  <2>1. u # 0 /\ n # NoEnv BY UidsAreNumbers
  <2>2. CASE OnItsWay(n)
    <3>1. PICK d \in Workers : I!At(d, "move_dir") /\ uids[visit[d].to] = u
      BY <1>2, <2>2 DEF OnItsWay
    <3>2. visit[d].to \in Envs BY <3>1 DEF LeftInv, IdInv, OpsFit, OpFits, Working, Moves, I!At
    <3>. QED BY <3>1, <3>2
  <2>. QED BY <1>2, <2>1, <2>2 DEF LeftInv, DirsOwned
<1>. QED BY <1>1, <1>2

-----------------------------------------------------------------------------
(* The identities, when they are in focus.                                    *)

IdentitiesHold == focus = "identities" => IdInv
RemovalsHold == focus = "identities" => LeftInv

(* The run keeps one list of their variables, the component another.         *)
LEMMA IdentitiesStandStill == UNCHANGED idVars => UNCHANGED I!idVars
BY DEF idVars, I!idVars, I!registry, I!files

LEMMA IdentitiesKept ==
    ASSUME Hazards \subseteq {"kept", "stayed"}
    PROVE  TenantsSpec => []IdentitiesHold
<1>1. TenantsInit => IdentitiesHold BY IdInitially DEF TenantsInit, IdentitiesHold
<1>2. IdentitiesHold /\ [TenantsNext]_<<focus, envVars, addrVars, idVars>> => IdentitiesHold'
  <2>1. ASSUME IdentitiesHold, TenantsNext PROVE IdentitiesHold'
    BY <2>1, IdKept DEF IdentitiesHold, TenantsNext
  <2>2. ASSUME IdentitiesHold, UNCHANGED <<focus, envVars, addrVars, idVars>>
        PROVE  IdentitiesHold'
    BY <2>2, IdKept, IdentitiesStandStill DEF IdentitiesHold
  <2>. QED BY <2>1, <2>2
<1>. QED BY <1>1, <1>2, PTL DEF TenantsSpec

LEMMA RemovalsKept == ASSUME Hazards = {} PROVE TenantsSpec => []RemovalsHold
<1>1. TenantsInit => RemovalsHold BY LeftInitially DEF TenantsInit, RemovalsHold
<1>2. RemovalsHold /\ [TenantsNext]_<<focus, envVars, addrVars, idVars>> => RemovalsHold'
  <2>1. ASSUME RemovalsHold, TenantsNext PROVE RemovalsHold'
    BY <2>1, LeftKept DEF RemovalsHold, TenantsNext
  <2>2. ASSUME RemovalsHold, UNCHANGED <<focus, envVars, addrVars, idVars>>
        PROVE  RemovalsHold'
    BY <2>2, LeftKept, IdentitiesStandStill DEF RemovalsHold
  <2>. QED BY <2>1, <2>2
<1>. QED BY <1>1, <1>2, PTL DEF TenantsSpec

(* The registry of uids, what they own and the operations keep their types.   *)
THEOREM IdentityTypes ==
    ASSUME Hazards \subseteq {"kept", "stayed"}
    PROVE  TenantsSpec => [](focus = "identities" => I!IdTypeOK)
<1>1. IdentitiesHold => (focus = "identities" => I!IdTypeOK)
  <2> SUFFICES ASSUME IdInv PROVE I!IdTypeOK BY DEF IdentitiesHold
  <2>1. VisitsTyped /\ RegistryTyped /\ FilesTyped /\ EnvsTyped /\ IdCountsTyped BY DEF IdInv
  <2>. QED
    BY <2>1 DEF VisitsTyped, Visited, RegistryTyped, FilesTyped, EnvsTyped, IdCountsTyped, I!IdTypeOK
<1>. QED BY <1>1, IdentitiesKept, PTL

(* An environment finds nothing of an earlier one, neither in its checkout    *)
(* nor in the HOME of its uid: also when deletions stop half-way before a     *)
(* rename, and when checkouts stay behind (Hazards).                          *)
THEOREM NothingInherited ==
    ASSUME Hazards \subseteq {"kept", "stayed"}
    PROVE  TenantsSpec => []NeverInherits
<1>1. IdentitiesHold => NeverInherits
  BY InheritsNothing DEF IdentitiesHold, NeverInherits
<1>. QED BY <1>1, IdentitiesKept, PTL

(* What is left in the container belongs to an environment or is on the list  *)
(* of what has to be removed, whatever removal fails and whenever the server  *)
(* dies.                                                                      *)
THEOREM NothingIsLeftBehind == ASSUME Hazards = {} PROVE TenantsSpec => []NothingLeftBehind
<1>1. RemovalsHold => NothingLeftBehind
  BY LeavesNothing DEF RemovalsHold, NothingLeftBehind
<1>. QED BY <1>1, RemovalsKept, PTL
=============================================================================
