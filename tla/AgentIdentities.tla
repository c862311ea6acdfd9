--------------------------- MODULE AgentIdentities ---------------------------
(* The identities environments have in a team's agent container: a uid of    *)
(* its own for each, which owns its checkout and its HOME on the container's *)
(* volumes.                                                                  *)
(*                                                                           *)
(* The registry (agent_uids.json) lives on the host and the files in the     *)
(* container, which may be stopped when an environment is deleted: its uid   *)
(* then waits as a pending removal, and everybody who provisions or deletes  *)
(* clears all pending removals first, from a list read earlier. Directories  *)
(* are found by name and owned by uid. Attachments and temporary files go    *)
(* with the checkout and the HOME.                                           *)
(*                                                                           *)
(* Definitions marked "Fault:" are plausible bugs no action uses.            *)
EXTENDS Naturals

CONSTANTS
    Envs, NoEnv, Callers,
    Hazards,         \* what else happens: "unlocked" healing from consoles and syncing while an
                     \* operation holds the environment; renames that "lost" the container,
                     \* renames of "kept" ones (a deletion failed after it retired the uid), checkouts
                     \* that "stayed" (a rename could not move the directory)
    MaxUids, MaxBorn, \* bounds: uids and creations
    IdFailures,      \* bound: failed commands, stopped containers, deaths of the server
    IdOps            \* bound: operations begun

IdConstants ==
    /\ NoEnv \notin Envs /\ Hazards \subseteq {"unlocked", "lost", "kept", "stayed"}
    /\ {MaxUids, MaxBorn, IdFailures, IdOps} \subseteq Nat

VARIABLES
    uids, pending, next, \* agent_uids.json
    dir,             \* checkouts by name: the uid that owns it, the creation it was cloned for
    home,            \* HOMEs by uid: the creation whose sessions ran there first
    env, born,       \* environments by name (the creation; 0: none); creations so far
    up,              \* the agent container runs
    op, owner,       \* what each caller does; who holds the environment's lock
    idFailures, idOps

registry == <<uids, pending, next>>
files == <<dir, home>>
idVars == <<registry, files, env, born, up, op, owner, idFailures, idOps>>

Uids == 1..MaxUids
NoDir == [uid |-> 0, born |-> 0]
Idle == [kind |-> "none", env |-> NoEnv, to |-> NoEnv, step |-> "none", born |-> 0, uid |-> 0,
         todo |-> [u \in Uids |-> NoEnv], one |-> 0, names |-> {}]

IdTypeOK ==
    /\ uids \in [Envs -> 0..MaxUids] /\ pending \in [Uids -> Envs \cup {NoEnv}]
    /\ next \in 1..(MaxUids + 1)
    /\ dir \in [Envs -> [uid : 0..MaxUids, born : 0..MaxBorn]] /\ home \in [Uids -> 0..MaxBorn]
    /\ env \in [Envs -> 0..MaxBorn] /\ born \in 0..MaxBorn /\ up \in BOOLEAN
    /\ op \in [Callers -> [kind : {"none", "create", "delete", "rename", "heal", "sync"},
                           env : Envs \cup {NoEnv}, to : Envs \cup {NoEnv},
                           step : {"none", "ensure", "list", "purge", "forget", "allocate", "provision",
                                   "retire", "gone", "rename_uid", "move_dir", "names", "provision_all"},
                           born : 0..MaxBorn, uid : 0..MaxUids, todo : [Uids -> Envs \cup {NoEnv}],
                           one : 0..MaxUids, names : SUBSET Envs]]
    /\ owner \in [Envs -> SUBSET Callers]
    /\ idFailures \in 0..IdFailures /\ idOps \in 0..IdOps

IdInit ==
    /\ uids = [n \in Envs |-> 0] /\ pending = [u \in Uids |-> NoEnv] /\ next = 1
    /\ dir = [n \in Envs |-> NoDir] /\ home = [u \in Uids |-> 0]
    /\ env = [n \in Envs |-> 0] /\ born = 0 /\ up \in BOOLEAN
    /\ op = [c \in Callers |-> Idle] /\ owner = [n \in Envs |-> {}]
    /\ idFailures = 0 /\ idOps = 0

-----------------------------------------------------------------------------
At(c, step) == op[c].step = step
Me(c) == op[c].env
Go(c, step) == op' = [op EXCEPT ![c].step = step] /\ UNCHANGED owner
Done(c) ==
    /\ op' = [op EXCEPT ![c] = Idle] /\ owner' = [n \in Envs |-> owner[n] \ {c}]

Works == UNCHANGED <<idFailures, idOps>>
Fails == idFailures < IdFailures /\ idFailures' = idFailures + 1 /\ UNCHANGED idOps

Begin(c, kind, n, to, step, b) ==
    /\ At(c, "none") /\ idOps < IdOps /\ idOps' = idOps + 1 /\ UNCHANGED idFailures
    /\ "unlocked" \in Hazards \/ \A d \in Callers : op[d].kind # "sync"
    /\ op' = [op EXCEPT ![c] = [Idle EXCEPT !.kind = kind, !.env = n, !.to = to, !.step = step,
                                            !.born = b]]
Locked(c, names) ==
    /\ \A n \in names : owner[n] = {}
    /\ owner' = [n \in Envs |-> IF n \in names THEN {c} ELSE owner[n]]

-----------------------------------------------------------------------------
(* Creating, and healing what a console does not find in order.              *)

BeginCreate(c, n) ==
    /\ env[n] = 0 /\ born < MaxBorn
    /\ Begin(c, "create", n, n, "ensure", born + 1) /\ Locked(c, {n})
    /\ env' = [env EXCEPT ![n] = born + 1] /\ born' = born + 1
    /\ UNCHANGED <<registry, files, up>>

(* agent_env_uid said no; ensure_agent_env_checkout takes no lock and goes   *)
(* by the container's labels.                                                *)
BeginHeal(c, n) ==
    /\ up /\ env[n] # 0 /\ (uids[n] = 0 \/ dir[n].uid # uids[n])
    /\ Begin(c, "heal", n, n, "ensure", env[n])
    /\ IF "unlocked" \in Hazards THEN UNCHANGED owner ELSE Locked(c, {n})
    /\ UNCHANGED <<registry, files, env, born, up>>

(* _ensure_agent_container; whatever goes wrong ends _agent_add_env only.    *)
Ensure(c) ==
    /\ At(c, "ensure")
    /\ \/ up' = TRUE /\ Go(c, "list") /\ Works
       \/ UNCHANGED up /\ Done(c) /\ Fails
    /\ UNCHANGED <<registry, files, env, born>>

AfterPurge(c) ==
    CASE op[c].kind = "delete" -> "gone" [] op[c].kind = "sync" -> "names" [] OTHER -> "allocate"

(* _agent_purge_removed: the list is read once.                              *)
List(c) ==
    /\ At(c, "list")
    /\ op' = [op EXCEPT ![c].todo = pending, ![c].step = "purge"] /\ UNCHANGED owner
    /\ UNCHANGED <<registry, files, env, born, up>> /\ Works

(* remove_slug_dir keeps a directory another environment owns by now.        *)
Owned(n, u) == dir[n].uid = u

(* Fault: a removal that failed is confirmed.                                *)
AfterFailure(c, u) ==
    op' = [op EXCEPT ![c].one = u, ![c].step = "forget", ![c].todo[u] = NoEnv]

(* A removal that failed stays pending.                                      *)
NotForgotten(c, u) == op' = [op EXCEPT ![c].todo[u] = NoEnv]

(* env-user.sh remove, for one of them: the directory, the HOME, or what can *)
(* be removed of the two; without the container the list is given up.        *)
Purge(c) ==
    /\ At(c, "purge") /\ UNCHANGED owner
    /\ \/ /\ up
          /\ \E u \in Uids : LET n == op[c].todo[u] IN
               /\ n # NoEnv
               /\ \/ /\ dir' = IF Owned(n, u) THEN [dir EXCEPT ![n] = NoDir] ELSE dir
                     /\ home' = [home EXCEPT ![u] = 0]
                     /\ op' = [op EXCEPT ![c].one = u, ![c].step = "forget", ![c].todo[u] = NoEnv]
                     /\ Works
                  \/ /\ dir' \in {dir, IF Owned(n, u) THEN [dir EXCEPT ![n] = NoDir] ELSE dir}
                     /\ UNCHANGED home /\ NotForgotten(c, u) /\ Fails
       \/ /\ ~up \/ \A u \in Uids : op[c].todo[u] = NoEnv
          /\ op' = [op EXCEPT ![c].todo = [u \in Uids |-> NoEnv], ![c].step = AfterPurge(c)]
          /\ UNCHANGED files /\ Works
    /\ UNCHANGED <<registry, env, born, up>>

(* agent_uids.forget_removed                                                 *)
ForgetRemoved(c) ==
    /\ At(c, "forget")
    /\ pending' = [pending EXCEPT ![op[c].one] = NoEnv]
    /\ op' = [op EXCEPT ![c].one = 0, ![c].step = "purge"] /\ UNCHANGED owner
    /\ UNCHANGED <<uids, next, files, env, born, up>> /\ Works

(* Fault: uids are handed out again: the first one no environment has.       *)
FirstFree == CHOOSE u \in 1..(MaxUids + 1) :
                 /\ \A n \in Envs : uids[n] # u
                 /\ \A v \in 1..(u - 1) : \E n \in Envs : uids[n] = v

(* _load: next_uid, which only grows.                                        *)
NextUid == next

Given(n) == IF uids[n] # 0 THEN uids[n] ELSE NextUid

(* agent_uids.allocate_uid                                                   *)
AllocateUid(n) ==
    /\ Given(n) <= MaxUids
    /\ uids' = [uids EXCEPT ![n] = Given(n)]
    /\ next' = IF uids[n] # 0 THEN next ELSE NextUid + 1
    /\ UNCHANGED pending

Allocate(c) ==
    /\ At(c, "allocate")
    /\ \/ /\ AllocateUid(Me(c)) /\ Works
          /\ op' = [op EXCEPT ![c].uid = Given(Me(c)), ![c].step = "provision"] /\ UNCHANGED owner
       \/ UNCHANGED registry /\ Done(c) /\ Fails
    /\ UNCHANGED <<files, env, born, up>>

(* own_private_dir never hands over what another environment's uid owns.     *)
MayHave(n, u) == dir[n].uid \in {0, u}

(* env-user.sh provision, then clone-env.sh as the uid: the HOME comes first, *)
(* and a directory that belongs to another environment is refused.           *)
Provisioned(who, uid, b) ==
    /\ home' = [u \in Uids |-> IF (\E n \in who : uid[n] = u) /\ home[u] = 0
                               THEN b[CHOOSE n \in who : uid[n] = u] ELSE home[u]]
    /\ dir' = [n \in Envs |->
                 IF n \notin who \/ ~MayHave(n, uid[n]) THEN dir[n]
                 ELSE IF dir[n].uid = 0 THEN [uid |-> uid[n], born |-> b[n]]
                 ELSE [dir[n] EXCEPT !.uid = uid[n]]]

Provision(c) ==
    /\ At(c, "provision")
    /\ \/ /\ up
          /\ Provisioned({Me(c)}, [n \in Envs |-> op[c].uid], [n \in Envs |-> op[c].born]) /\ Works
       \/ UNCHANGED files /\ IF up THEN Fails ELSE Works
    /\ Done(c)
    /\ UNCHANGED <<registry, env, born, up>>

-----------------------------------------------------------------------------
(* Deleting.                                                                 *)

BeginDelete(c, n) ==
    /\ env[n] # 0
    /\ Begin(c, "delete", n, n, "retire", env[n]) /\ Locked(c, {n})
    /\ UNCHANGED <<registry, files, env, born, up>>

(* agent_uids.retire_uid, then the removal if there is a container; a name   *)
(* without a uid loses whatever lies under it.                               *)
Retire(c) ==
    /\ At(c, "retire")
    /\ LET n == Me(c)  u == uids[n] IN
         /\ uids' = [uids EXCEPT ![n] = 0]
         /\ pending' = IF u = 0 THEN pending ELSE [pending EXCEPT ![u] = n]
         /\ dir' \in IF u = 0 /\ up THEN {dir, [dir EXCEPT ![n] = NoDir]} ELSE {dir}
         /\ Go(c, IF up /\ u # 0 THEN "list" ELSE "gone")
    /\ UNCHANGED <<next, home, env, born, up>> /\ Works

(* The rest of delete_environment, which may leave the container.            *)
Gone(c) ==
    /\ At(c, "gone")
    /\ \/ env' = [env EXCEPT ![Me(c)] = 0] /\ Works
       \/ UNCHANGED env /\ Fails
    /\ Done(c)
    /\ UNCHANGED <<registry, files, born, up>>

-----------------------------------------------------------------------------
(* Renaming: the identity moves, then the directory, and the environment is  *)
(* added again under its new name.                                           *)

BeginRename(c, n, m) ==
    /\ n # m /\ env[n] # 0 /\ env[m] = 0
    /\ "kept" \in Hazards \/ \A u \in Uids : pending[u] # n
    /\ Begin(c, "rename", n, m, "rename_uid", env[n]) /\ Locked(c, {n, m})
    /\ env' = [env EXCEPT ![n] = 0]
    /\ UNCHANGED <<registry, files, born, up>>

(* agent_uids.rename_env                                                     *)
RenameUid(c) ==
    /\ At(c, "rename_uid")
    /\ LET n == Me(c)  m == op[c].to IN
         uids' = IF uids[n] = 0 THEN uids ELSE [uids EXCEPT ![m] = uids[n], ![n] = 0]
    /\ Go(c, "move_dir")
    /\ UNCHANGED <<pending, next, files, env, born, up>> /\ Works

(* rm -rf new; mv old new, as root; errors, a container that does not run    *)
(* among them, are suppressed. The environment runs again under its new      *)
(* name, or is lost.                                                         *)
MoveDir(c) ==
    /\ At(c, "move_dir")
    /\ LET n == Me(c)  m == op[c].to
           moved == [dir EXCEPT ![m] = dir[n], ![n] = NoDir] IN
         /\ \/ dir[n].uid = 0 /\ UNCHANGED dir /\ Works
            \/ dir[n].uid # 0 /\ up /\ dir' = moved /\ Works
            \/ /\ "stayed" \in Hazards /\ dir[n].uid # 0
               /\ \/ ~up /\ UNCHANGED dir /\ Works
                  \/ up /\ dir' \in {dir, [dir EXCEPT ![m] = NoDir]} /\ Fails
         /\ \/ env' = [env EXCEPT ![m] = op[c].born]
               /\ op' = [op EXCEPT ![c].env = m, ![c].step = "ensure"] /\ UNCHANGED owner
            \/ "lost" \in Hazards /\ UNCHANGED env /\ Done(c)
    /\ UNCHANGED <<registry, home, born, up>>

-----------------------------------------------------------------------------
(* _agent_sync_identities, when the container is made anew: at the start of  *)
(* the server, or whenever _ensure_agent_container finds it changed.         *)

BeginSync(c) ==
    /\ up /\ ("unlocked" \in Hazards \/ \A d \in Callers : At(d, "none"))
    /\ Begin(c, "sync", NoEnv, NoEnv, "list", 0)
    /\ UNCHANGED <<registry, files, env, born, up, owner>>

(* The team's environments are listed, and given uids one by one.            *)
Names(c) ==
    /\ At(c, "names")
    /\ op' = [op EXCEPT ![c].names = {n \in Envs : env[n] # 0}, ![c].step = "provision_all"]
    /\ UNCHANGED <<registry, files, env, born, up, owner>> /\ Works

SyncAllocate(c, n) ==
    /\ At(c, "provision_all") /\ n \in op[c].names /\ uids[n] = 0
    /\ AllocateUid(n)
    /\ UNCHANGED <<files, env, born, up, op, owner>> /\ Works

SyncProvision(c) ==
    /\ At(c, "provision_all") /\ \A n \in op[c].names : uids[n] # 0
    /\ \/ up /\ Provisioned(op[c].names, uids, env) /\ Works
       \/ UNCHANGED files /\ IF up THEN Fails ELSE Works
    /\ Done(c)
    /\ UNCHANGED <<registry, env, born, up>>

-----------------------------------------------------------------------------
(* The container stops; the server dies in an operation (a rename it dies in *)
(* has lost the environment).                                                *)

ContainerStops ==
    /\ up /\ up' = FALSE /\ Fails
    /\ UNCHANGED <<registry, files, env, born, op, owner>>

Die ==
    /\ \E c \in Callers : ~At(c, "none")
    /\ \A c \in Callers : At(c, "rename_uid") \/ At(c, "move_dir") => "lost" \in Hazards
    /\ op' = [c \in Callers |-> Idle] /\ owner' = [n \in Envs |-> {}] /\ Fails
    /\ UNCHANGED <<registry, files, env, born, up>>

IdNext ==
    \/ \E c \in Callers :
         \/ \E n \in Envs : \/ BeginCreate(c, n) \/ BeginHeal(c, n) \/ BeginDelete(c, n)
                            \/ SyncAllocate(c, n) \/ \E m \in Envs : BeginRename(c, n, m)
         \/ Ensure(c) \/ List(c) \/ Purge(c) \/ ForgetRemoved(c) \/ Allocate(c) \/ Provision(c)
         \/ Retire(c) \/ Gone(c) \/ RenameUid(c) \/ MoveDir(c)
         \/ BeginSync(c) \/ Names(c) \/ SyncProvision(c)
    \/ ContainerStops \/ Die

IdSpec == IdInit /\ [][IdNext]_idVars

-----------------------------------------------------------------------------
(* An environment finds nothing of an earlier one of its name: neither in    *)
(* its checkout nor in the HOME of the uid it was given.                     *)
NeverInherits ==
    \A n \in Envs : env[n] # 0 /\ uids[n] # 0 =>
      /\ dir[n].uid = uids[n] => dir[n].born = env[n]
      /\ home[uids[n]] \in {0, env[n]}

(* What is left in the container belongs to an environment or is still on    *)
(* the list of what has to be removed.                                       *)
NothingLeftBehind ==
    \A u \in Uids :
      home[u] # 0 \/ (\E n \in Envs : dir[n].uid = u) =>
        pending[u] # NoEnv \/ \E n \in Envs : uids[n] = u
=============================================================================
