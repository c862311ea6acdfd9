------------------------------ MODULE ExtraAddons -------------------------------
(* An extra-addons repository of a team (extra_addons.py): the bare clone    *)
(* with the branches downloaded so far, and the cache of checkouts, one per  *)
(* commit, that environments mount (env_ops.py).                             *)
(*                                                                           *)
(* Everything done to the clone and the cache holds the repository's lock.   *)
(* Containers do not: they are the record of what is in use, and the one     *)
(* that will mount a checkout exists only some time after it was handed out. *)
(* Histories are lines and branches share no commit; productions, which have *)
(* a worktree of their own, and repositories without a remote are left out.  *)
(* Definitions marked "Fault:" are plausible bugs no action uses.            *)
EXTENDS Naturals

CONSTANTS
    Branches, Consumers, \* of the remote repository; environments
    Nobody, None,
    Overlap,         \* whether a container may be away while a removal looks for users
    MaxCommits,      \* bound: commits of a branch
    MaxFailures      \* bound: fetches, checkouts and starts that fail, deaths of the server

AddonsConstants ==
    /\ Consumers \cap {Nobody, "task"} = {} /\ Nobody # "task"
    /\ None \notin Branches \cup (Branches \X (1..MaxCommits)) /\ Overlap \in BOOLEAN
    /\ MaxCommits \in Nat \ {0} /\ MaxFailures \in Nat

VARIABLES
    tip,             \* the remote branches, 0: deleted
    repo,            \* the repository is registered
    refs,            \* downloaded branches, 0: not downloaded
    specs, wildcard, \* fetch refspecs: of one branch each; of all branches
    onDemand,        \* the marker .on-demand
    cache,           \* the checkouts: "none", "half", "whole"
    recent,          \* those handed out within the grace period
    box,             \* the commit each container mounts, or None
    at, goal,        \* an operation on an environment: its step; branch, then commit, it wants
    lock, task,      \* who holds the repository's lock; the removal or update that does
    pinned,          \* commits a removal found in use
    removed, torn,   \* history: branches removed and not asked for since; checkouts a death cut
    failures

clone == <<repo, refs, specs, wildcard, onDemand>>
envs == <<box, at, goal>>
addonVars == <<tip, clone, cache, recent, envs, lock, task, pinned, removed, torn, failures>>

Commits == Branches \X (1..MaxCommits)
NoTask == [do |-> "none", branch |-> None]

AddonsTypeOK ==
    /\ {tip, refs} \subseteq [Branches -> 0..MaxCommits]
    /\ {repo, wildcard, onDemand} \subseteq BOOLEAN
    /\ specs \subseteq Branches /\ removed \subseteq Branches
    /\ cache \in [Commits -> {"none", "half", "whole"}]
    /\ recent \subseteq Commits /\ pinned \subseteq Commits /\ torn \subseteq Commits
    /\ box \in [Consumers -> Commits \cup {None}]
    /\ at \in [Consumers -> {"idle", "fetch", "checkout", "adding", "held", "bare"}]
    /\ \A e \in Consumers : goal[e] \in Branches \cup Commits \cup {None}
    /\ lock \in Consumers \cup {"task", Nobody}
    /\ task \in [do : {"none", "convert", "narrow", "forget", "detach", "fetch"},
                 branch : Branches \cup {None}]
    /\ failures \in 0..MaxFailures

(* A clone of all branches from before branches were downloaded on demand:   *)
(* git may have left it without a refspec.                                   *)
AddonsInit ==
    /\ tip = [b \in Branches |-> 1] /\ repo = TRUE
    /\ refs = tip /\ specs = {} /\ wildcard \in BOOLEAN /\ onDemand = FALSE
    /\ cache = [c \in Commits |-> "none"] /\ recent = {}
    /\ box = [e \in Consumers |-> None] /\ at = [e \in Consumers |-> "idle"] /\ goal = box
    /\ lock = Nobody /\ task = NoTask /\ pinned = {} /\ removed = {} /\ torn = {} /\ failures = 0

-----------------------------------------------------------------------------
Fails == failures < MaxFailures /\ failures' = failures + 1
Fine == UNCHANGED failures
Goes(e, place) == at' = [at EXCEPT ![e] = place]
Ends(e) == Goes(e, "idle") /\ goal' = [goal EXCEPT ![e] = None]
Free == lock = Nobody
Releases == lock' = Nobody /\ task' = NoTask /\ pinned' = {}
History == <<removed, torn>>
Downloaded == {b \in Branches : refs[b] # 0}

(* The refspec a clone of all branches may lack is restored.                 *)
Repaired == wildcard \/ (~onDemand /\ specs = {})

(* _fetch_branches_unlocked: one branch, which is tracked from then on.      *)
FetchBranch(b, all) ==
    /\ repo /\ tip[b] # 0
    /\ refs' = [refs EXCEPT ![b] = tip[b]]
    /\ wildcard' = all /\ specs' = IF all THEN specs ELSE specs \cup {b}
    /\ removed' = removed \ {b} /\ UNCHANGED <<repo, onDemand, torn>>

-----------------------------------------------------------------------------
(* create_environment and pull_and_apply: ensure_shared_checkout under the   *)
(* lock, the container without it.                                           *)
Begin(e) ==
    /\ at[e] = "idle" /\ Free
    /\ \E b \in Branches :
         /\ box[e] # None => box[e][1] = b
         /\ goal' = [goal EXCEPT ![e] = b]
    /\ lock' = e /\ Goes(e, "fetch")
    /\ UNCHANGED <<tip, clone, cache, recent, box, task, pinned, History, failures>>

Fetch(e) ==
    /\ at[e] = "fetch"
    /\ \/ FetchBranch(goal[e], Repaired) /\ Goes(e, "checkout") /\ Fine /\ UNCHANGED <<goal, lock, task, pinned>>
       \/ (~repo \/ tip[goal[e]] = 0) /\ Ends(e) /\ Releases /\ Fine /\ UNCHANGED <<clone, History>>
       \/ Fails /\ Ends(e) /\ Releases /\ UNCHANGED <<clone, History>>
    /\ UNCHANGED <<tip, cache, recent, box>>

(* A container that has the commit already stays as it is.                   *)
HandOut(e, c) ==
    /\ Releases
    /\ IF c = box[e] THEN Ends(e) ELSE (Goes(e, "held") /\ goal' = [goal EXCEPT ![e] = c])

(* Fault: only a new directory counts as just handed out.                    *)
Untouched(c) == recent

Touched(c) == recent \cup {c}

(* A directory whose HEAD is the commit is taken for its checkout.           *)
Checkout(e) ==
    /\ at[e] = "checkout"
    /\ LET c == <<goal[e], refs[goal[e]]>> IN
         \/ /\ cache[c] # "none" /\ HandOut(e, c)
            /\ recent' = Touched(c) /\ UNCHANGED cache
         \/ /\ cache[c] = "none" /\ cache' = [cache EXCEPT ![c] = "half"]
            /\ Goes(e, "adding") /\ goal' = [goal EXCEPT ![e] = c]
            /\ UNCHANGED <<recent, lock, task, pinned>>
    /\ UNCHANGED <<tip, clone, box, History, failures>>

AddWorktree(e) ==
    /\ at[e] = "adding"
    /\ LET c == goal[e] IN
         \/ /\ cache' = [cache EXCEPT ![c] = "whole"] /\ recent' = recent \cup {c}
            /\ HandOut(e, c) /\ Fine
         \/ /\ cache' = [cache EXCEPT ![c] = "none"] /\ UNCHANGED recent
            /\ Ends(e) /\ Releases /\ Fails
    /\ UNCHANGED <<tip, clone, box, History>>

(* update_environment; for another setting, it keeps the commit it has.      *)
RemoveContainer(e) ==
    /\ \/ at[e] = "held" /\ UNCHANGED goal
       \/ at[e] = "idle" /\ box[e] # None /\ goal' = [goal EXCEPT ![e] = box[e]]
    /\ box' = [box EXCEPT ![e] = None] /\ Goes(e, "bare")
    /\ UNCHANGED <<tip, clone, cache, recent, lock, task, pinned, History, failures>>

RunContainer(e) ==
    /\ at[e] = "bare"
    /\ \/ box' = [box EXCEPT ![e] = goal[e]] /\ Fine
       \/ UNCHANGED box /\ Fails
    /\ Ends(e)
    /\ UNCHANGED <<tip, clone, cache, recent, lock, task, pinned, History>>

DeleteEnvironment(e) ==
    /\ at[e] = "idle" /\ box[e] # None /\ box' = [box EXCEPT ![e] = None]
    /\ UNCHANGED <<tip, clone, cache, recent, at, goal, lock, task, pinned, History, failures>>

(* An operation is over within the grace period of what it was handed, and   *)
(* a removal takes less than that.                                           *)
GraceEnds(c) ==
    /\ c \in recent /\ lock # "task" /\ \A e \in Consumers : at[e] \in {"held", "bare"} => goal[e] # c
    /\ recent' = recent \ {c}
    /\ UNCHANGED <<tip, clone, cache, envs, lock, task, pinned, History, failures>>

-----------------------------------------------------------------------------
(* The repository's own operations.                                          *)
Away == \E e \in Consumers : at[e] = "bare"
Users(b) == {e \in Consumers : box[e] # None /\ box[e][1] = b}       \* _branch_usage
Others == UNCHANGED <<tip, envs, failures>>
Then(do) == task' = [task EXCEPT !.do = do] /\ UNCHANGED <<lock, pinned>>

Pinned == {box[e] : e \in {x \in Consumers : box[x] # None}}

(* untrack_branch, to the end of which it holds the lock.                    *)
FindUsers(b) ==
    /\ Free /\ repo /\ refs[b] # 0 /\ Users(b) = {} /\ (Away => Overlap)
    /\ lock' = "task" /\ task' = [do |-> IF wildcard THEN "convert" ELSE "forget", branch |-> b]
    /\ pinned' = Pinned
    /\ Others /\ UNCHANGED <<clone, cache, recent, History>>

Convert ==
    /\ task.do = "convert"
    /\ onDemand' = TRUE /\ specs' = Downloaded \ {task.branch} /\ Then("narrow")
    /\ Others /\ UNCHANGED <<repo, refs, wildcard, cache, recent, History>>

Narrow ==
    /\ task.do = "narrow"
    /\ wildcard' = FALSE /\ Then("forget")
    /\ Others /\ UNCHANGED <<repo, refs, specs, onDemand, cache, recent, History>>

(* Fault: only the conversion leaves the marker.                             *)
Unmarked == onDemand

Marked == TRUE

Forget ==
    /\ task.do = "forget"
    /\ onDemand' = Marked /\ specs' = specs \ {task.branch}
    /\ refs' = [refs EXCEPT ![task.branch] = 0] /\ Then("detach")
    /\ Others /\ UNCHANGED <<repo, wildcard, cache, recent, History>>

Reachable(c) == refs[c[1]] >= c[2]

Detach ==
    /\ task.do = "detach"
    /\ cache' = [c \in Commits |-> IF c \in pinned \cup recent \/ Reachable(c) THEN cache[c] ELSE "none"]
    /\ removed' = removed \cup {task.branch} /\ Releases
    /\ Others /\ UNCHANGED <<clone, recent, torn>>

(* track_branches.                                                           *)
TrackBranch(b) ==
    /\ Free /\ FetchBranch(b, wildcard)
    /\ Others /\ UNCHANGED <<cache, recent, lock, task, pinned>>

(* fetch_extra_repo without a branch: the remote's list, then a fetch.       *)
UpdateRepo ==
    /\ Free /\ repo
    /\ LET gone == {b \in specs : tip[b] = 0} IN
         /\ wildcard' = Repaired /\ specs' = specs \ gone
         /\ onDemand' = (onDemand \/ gone # {})
         /\ refs' = [b \in Branches |-> IF b \in gone THEN 0 ELSE refs[b]]
    /\ lock' = "task" /\ task' = [NoTask EXCEPT !.do = "fetch"]
    /\ Others /\ UNCHANGED <<repo, cache, recent, pinned, History>>

FetchTracked ==
    /\ task.do = "fetch"
    /\ \/ refs' = [b \in Branches |-> IF wildcard \/ b \in specs THEN tip[b] ELSE refs[b]] /\ Fine
       \/ UNCHANGED refs /\ Fails
    /\ Releases
    /\ UNCHANGED <<tip, envs, repo, specs, wildcard, onDemand, cache, recent, History>>

(* register_extra_repo, of which nothing is left if it fails.                *)
RegisterRepo ==
    /\ ~repo /\ repo' = TRUE /\ onDemand' = TRUE
    /\ UNCHANGED <<refs, specs, wildcard, cache, recent, lock, task, pinned, History>> /\ Others

(* delete_extra_repo; its checkouts go with it. An operation that was handed *)
(* one is expected to be over.                                               *)
DeleteRepo ==
    /\ Free /\ repo /\ Pinned = {} /\ \A e \in Consumers : at[e] \notin {"held", "bare"}
    /\ repo' = FALSE /\ refs' = [b \in Branches |-> 0]
    /\ specs' = {} /\ wildcard' = FALSE /\ onDemand' = FALSE
    /\ cache' = [c \in Commits |-> "none"] /\ recent' = {} /\ removed' = {} /\ torn' = {}
    /\ Others /\ UNCHANGED <<lock, task, pinned>>

Push(b) ==
    /\ \/ tip[b] \in 1..(MaxCommits - 1) /\ tip' = [tip EXCEPT ![b] = @ + 1]
       \/ tip[b] = MaxCommits /\ tip' = [tip EXCEPT ![b] = 0]
    /\ UNCHANGED <<clone, cache, recent, envs, lock, task, pinned, History, failures>>

ServerDies ==
    /\ lock # Nobody \/ \E e \in Consumers : at[e] # "idle"
    /\ Fails
    /\ torn' = torn \cup {goal[e] : e \in {x \in Consumers : at[x] = "adding"}}
    /\ at' = [e \in Consumers |-> "idle"] /\ goal' = [e \in Consumers |-> None] /\ Releases
    /\ UNCHANGED <<tip, clone, cache, recent, box, removed>>

AddonsNext ==
    \/ \E e \in Consumers :
         \/ Begin(e) \/ Fetch(e) \/ Checkout(e) \/ AddWorktree(e)
         \/ RemoveContainer(e) \/ RunContainer(e) \/ DeleteEnvironment(e)
    \/ \E c \in Commits : GraceEnds(c)
    \/ \E b \in Branches : FindUsers(b) \/ TrackBranch(b) \/ Push(b)
    \/ Convert \/ Narrow \/ Forget \/ Detach \/ UpdateRepo \/ FetchTracked
    \/ RegisterRepo \/ DeleteRepo \/ ServerDies
AddonsSpec == AddonsInit /\ [][AddonsNext]_addonVars

-----------------------------------------------------------------------------
(* What a container mounts is a whole checkout: no removal of a branch takes *)
(* it, however long ago it was handed out, nor one whose container is still  *)
(* to come (_detach_unused_checkouts). A death in the middle of a checkout   *)
(* and a container that is away for a moment are exempt: README.             *)
MountedIsThere ==
    \A e \in Consumers : box[e] # None =>
        \/ cache[box[e]] = "whole"
        \/ cache[box[e]] = "half" /\ box[e] \in torn

(* A branch that was removed comes back only when it is asked for: no update *)
(* of the repository downloads it again, also in one that tracked every      *)
(* branch and after a removal that died half-way (untrack_branch).           *)
RemovedStaysRemoved == \A b \in removed : refs[b] = 0

=============================================================================
