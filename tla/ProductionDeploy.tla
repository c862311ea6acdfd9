-------------------------- MODULE ProductionDeploy ---------------------------
(* Deploys and rollbacks of one production: what they do to the checkout, to  *)
(* the code the running Odoo has loaded, to the migrations its database went  *)
(* through, to the registry's flags and to the deploy history.                *)
(*                                                                            *)
(* The production runs a main repository and extra-addon worktrees. A commit  *)
(* is its number on its branch; Kind says what a commit asks for: a module    *)
(* upgrade (a migration of the database), a restart, a refresh, or nothing.   *)
(* The production's lock admits one operation at a time; the server may die   *)
(* in the middle of one, the container it manages runs on.                    *)
(*                                                                            *)
(* Definitions marked "Fault:" are plausible bugs; no action uses them.       *)
(* They are put in place of the definition that follows them to see that      *)
(* a property notices.                                                        *)
EXTENDS Naturals, Sequences

CONSTANTS
    Repos, Main,    \* the repositories, and the main one
    MaxCommit,      \* bound: commits of a branch
    Kind,           \* what the commits of each repository ask for
    Hooks,          \* TRUE iff a pre-update snapshot is configured
    Explicit,       \* TRUE iff operators also deploy with restart=True only
    RollForward,    \* TRUE iff operators "roll back" to newer commits too
    ResetFails,     \* TRUE iff the reset of an extra worktree may be skipped
    MaxFailures,    \* bound: steps that raise or checks that fail
    MaxCrashes,     \* bound: deaths of the server
    MaxEntries      \* bound: entries of the deploy history

Kinds == {"upgrade", "restart", "refresh", "none"}

DeployConstants ==
    /\ Main \in Repos
    /\ {MaxCommit, MaxFailures, MaxCrashes} \subseteq Nat /\ MaxEntries \in Nat \ {0}
    /\ Kind \in [Repos -> [1..MaxCommit -> Kinds]]
    /\ {Hooks, Explicit, RollForward, ResetFails} \subseteq BOOLEAN

VARIABLES
    tip,          \* tips of the branches
    head,         \* commits checked out on disk
    loaded,       \* commits the running Odoo loaded
    schema,       \* migrations the database went through
    flags,        \* the registry's deploy_in_progress and unhealthy
    deploys,      \* deploys.json
    op,           \* the operation that holds the production's lock
    up,           \* the server runs
    failures, crashes

vars == <<tip, head, loaded, schema, flags, deploys, op, up, failures, crashes>>

Code == [Repos -> 0..MaxCommit]
Migrations == Repos \X (1..MaxCommit)
Extras == Repos \ {Main}
NoHeads == <<>>

Entry == [status : {"success", "rolled_back", "rollback_failed", "error"},
          from : 0..MaxCommit, to : 0..MaxCommit, heads : Code \cup {NoHeads}]

Steps == {"idle", "pull_main", "pull_extras", "decide", "rewound", "apply", "refresh",
          "verify", "rollback", "reset", "restart_to"}

TypeOK ==
    /\ tip \in Code /\ head \in Code /\ loaded \in Code
    /\ schema \subseteq Migrations
    /\ flags \in [deploying : BOOLEAN, unhealthy : BOOLEAN]
    /\ deploys \in Seq(Entry) /\ Len(deploys) <= MaxEntries
    /\ op \in [step : Steps, old : Code, new : Code, explicit : BOOLEAN]
    /\ up \in BOOLEAN
    /\ failures \in 0..MaxFailures /\ crashes \in 0..MaxCrashes

Zero == [r \in Repos |-> 0]

Init ==
    /\ tip = Zero /\ head = Zero /\ loaded = Zero
    /\ schema = {}
    /\ flags = [deploying |-> FALSE, unhealthy |-> FALSE]
    /\ deploys = <<[status |-> "success", from |-> 0, to |-> 0, heads |-> Zero]>>
    /\ op = [step |-> "idle", old |-> Zero, new |-> Zero, explicit |-> FALSE]
    /\ up = TRUE
    /\ failures = 0 /\ crashes = 0

-----------------------------------------------------------------------------
(* What a pull changed, and what has to be done about it.                    *)

Pulled(old, new) == {m \in Migrations : old[m[1]] < m[2] /\ m[2] <= new[m[1]]}

Asked(old, new) == {Kind[m[1]][m[2]] : m \in Pulled(old, new)}

Strength == [none |-> 0, refresh |-> 1, restart |-> 2, upgrade |-> 3]

(* classify_changes, merged over the repositories: the strongest request.    *)
Plan(old, new) ==
    CHOOSE k \in Asked(old, new) \cup {"none"} : \A j \in Asked(old, new) : Strength[j] <= Strength[k]

Action == IF op.explicit THEN "restart" ELSE Plan(op.old, head)

ToMigrate(old, new) == {m \in Pulled(old, new) : Kind[m[1]][m[2]] = "upgrade"}

(* Migrations that code asks for and the database has not seen.              *)
Missing(code) == ToMigrate(Zero, code) \ schema

Goto(here, there) == op.step = here /\ op' = [op EXCEPT !.step = there]
Fails == failures < MaxFailures /\ failures' = failures + 1 /\ UNCHANGED crashes
Works == UNCHANGED <<failures, crashes>>

Flag(deploying, unhealthy) == flags' = [deploying |-> deploying, unhealthy |-> unhealthy]

Record(status, from, to, heads) ==
    deploys' = Append(deploys, [status |-> status, from |-> from, to |-> to, heads |-> heads])

-----------------------------------------------------------------------------
(* update_production.                                                        *)

Push(r) ==
    /\ tip[r] < MaxCommit
    /\ tip' = [tip EXCEPT ![r] = tip[r] + 1]
    /\ UNCHANGED <<head, loaded, schema, flags, deploys, op, up>> /\ Works

StartDeploy(explicit) ==
    /\ up /\ op.step = "idle" /\ Len(deploys) < MaxEntries
    /\ explicit => Explicit
    /\ op' = [step |-> "pull_main", old |-> head, new |-> head, explicit |-> explicit]
    /\ Flag(TRUE, flags.unhealthy)
    /\ UNCHANGED <<tip, head, loaded, schema, deploys, up>> /\ Works

PullMain ==
    /\ Goto("pull_main", "pull_extras")
    /\ head' = [head EXCEPT ![Main] = tip[Main]]
    /\ UNCHANGED <<tip, loaded, schema, flags, deploys, up>> /\ Works

PullExtras ==
    /\ Goto("pull_extras", "decide")
    /\ head' = [r \in Repos |-> IF r = Main THEN head[r] ELSE tip[r]]
    /\ UNCHANGED <<tip, loaded, schema, flags, deploys, up>> /\ Works

(* A fetch that fails after Git advanced some checkouts is a failed deploy.  *)
PullFails ==
    /\ Fails
    /\ \/ Goto("pull_main", "rollback") /\ UNCHANGED head
       \/ /\ Goto("pull_extras", "rollback")
          /\ \E S \in SUBSET Extras : head' = [r \in Repos |-> IF r \in S THEN tip[r] ELSE head[r]]
    /\ UNCHANGED <<tip, loaded, schema, flags, deploys, up>>

(* Nothing pulled in the main repository, nothing to apply: not a deploy.    *)
NothingToDo ==
    /\ op.step = "decide" /\ Action = "none" /\ head[Main] = op.old[Main]
    /\ op' = [op EXCEPT !.step = "idle"]
    /\ Flag(FALSE, flags.unhealthy)
    /\ UNCHANGED <<tip, head, loaded, schema, deploys, up>> /\ Works

NothingToApply ==
    /\ Goto("decide", "verify") /\ Action = "none" /\ head[Main] # op.old[Main]
    /\ UNCHANGED <<tip, head, loaded, schema, flags, deploys, up>> /\ Works

(* Fault: the snapshot is taken on the code just pulled.                     *)
RewindNot ==
    /\ op.step = "decide" /\ Action # "none"
    /\ op' = [op EXCEPT !.step = "rewound", !.new = head]
    /\ UNCHANGED <<tip, head, loaded, schema, flags, deploys, up>> /\ Works

(* before_apply: rewind the checkouts to the commits the database ran        *)
(* against; the snapshot is taken in this state.                             *)
Rewind ==
    /\ op.step = "decide" /\ Action # "none"
    /\ op' = [op EXCEPT !.step = "rewound", !.new = head]
    /\ head' = IF Hooks THEN op.old ELSE head
    /\ UNCHANGED <<tip, loaded, schema, flags, deploys, up>> /\ Works

(* The hooks ran, well or not; move the checkouts forward again.             *)
Forward ==
    /\ Goto("rewound", IF op.explicit \/ Plan(op.old, op.new) # "refresh" THEN "apply" ELSE "refresh")
    /\ head' = op.new
    /\ UNCHANGED <<tip, loaded, schema, flags, deploys, up>> /\ Works

(* Fault: only the main repository's modules are upgraded.                   *)
ApplyMain ==
    /\ Goto("apply", "verify")
    /\ schema' = IF op.explicit THEN schema
                 ELSE schema \cup {m \in ToMigrate(op.old, op.new) : m[1] = Main}
    /\ loaded' = head
    /\ UNCHANGED <<tip, head, flags, deploys, up>> /\ Works

(* _apply_actions: odoo -u of the changed modules, then a restart.           *)
Apply ==
    /\ Goto("apply", "verify")
    /\ schema' = IF op.explicit THEN schema ELSE schema \cup ToMigrate(op.old, op.new)
    /\ loaded' = head
    /\ UNCHANGED <<tip, head, flags, deploys, up>> /\ Works

(* The upgrade fails after some of it took effect; the container is          *)
(* restarted anyway, unless the call itself raised.                          *)
ApplyFails ==
    /\ Fails
    /\ Goto("apply", "rollback")
    /\ \E some \in SUBSET ToMigrate(op.old, op.new) :
         schema' = IF op.explicit THEN schema ELSE schema \cup some
    /\ loaded' \in {loaded, head}
    /\ UNCHANGED <<tip, head, flags, deploys, up>>

(* A refresh is promoted to a restart in production.                         *)
Refresh ==
    /\ Goto("refresh", "verify")
    /\ loaded' = head
    /\ UNCHANGED <<tip, head, schema, flags, deploys, up>> /\ Works

Verified ==
    /\ Goto("verify", "idle")
    /\ Flag(FALSE, FALSE)
    /\ Record("success", op.old[Main], head[Main], head)
    /\ UNCHANGED <<tip, head, loaded, schema, up>> /\ Works

VerifyFails ==
    /\ Fails
    /\ Goto("verify", "rollback")
    /\ UNCHANGED <<tip, head, loaded, schema, flags, deploys, up>>

(* An exception outside the apply step: recorded, nothing is rolled back.    *)
DeployRaises ==
    /\ Fails
    /\ \/ Goto("refresh", "idle") \/ Goto("verify", "idle")
    /\ \E serving \in BOOLEAN : Flag(FALSE, ~serving)
    /\ Record("error", op.old[Main], head[Main], NoHeads)
    /\ UNCHANGED <<tip, head, loaded, schema, up>>

-----------------------------------------------------------------------------
(* The automatic code rollback of a failed deploy.                           *)

(* _reset_code: the main repository, then the worktrees; a worktree that     *)
(* cannot be reset is only logged.                                           *)
ResetTo(code, kept) == [r \in Repos |-> IF r \in kept THEN head[r] ELSE code[r]]
Kept == IF ResetFails THEN SUBSET Extras ELSE {{}}

ResetCode ==
    /\ op.step = "rollback"
    /\ op' = [op EXCEPT !.step = "reset", !.new = head]
    /\ \E kept \in Kept : head' = ResetTo(op.old, kept)
    /\ UNCHANGED <<tip, loaded, schema, flags, deploys, up>> /\ Works

RolledBack ==
    /\ Goto("reset", "idle")
    /\ loaded' = head
    /\ Flag(FALSE, FALSE)
    /\ Record("rolled_back", op.old[Main], op.new[Main], NoHeads)
    /\ UNCHANGED <<tip, head, schema, up>> /\ Works

(* The reset or the restart raises, or the old code does not serve either.   *)
RollbackFails ==
    /\ Fails
    /\ \/ /\ Goto("rollback", "idle") /\ UNCHANGED loaded
          /\ Record("rollback_failed", op.old[Main], head[Main], NoHeads)
       \/ /\ Goto("reset", "idle") /\ loaded' \in {loaded, head}
          /\ Record("rollback_failed", op.old[Main], op.new[Main], NoHeads)
    /\ Flag(FALSE, TRUE)
    /\ UNCHANGED <<tip, head, schema, up>>

-----------------------------------------------------------------------------
(* rollback_production: code only, to a commit or to the default target.     *)

(* The newest entry that started from another commit; the first entry is the *)
(* production's creation, which started from none.                           *)
Candidates == {i \in 2..Len(deploys) : deploys[i].from # head[Main]}
DefaultTarget == deploys[CHOOSE i \in Candidates : \A j \in Candidates : j <= i].from

(* The worktrees of the newest deploy that produced the commit, if recorded. *)
Recorded(commit) == {i \in DOMAIN deploys : deploys[i].to = commit /\ deploys[i].heads # NoHeads}
CodeFor(commit) ==
    IF Recorded(commit) = {} THEN [head EXCEPT ![Main] = commit]
    ELSE [deploys[CHOOSE i \in Recorded(commit) : \A j \in Recorded(commit) : j <= i].heads
            EXCEPT ![Main] = commit]

RollbackTo(commit) ==
    /\ up /\ op.step = "idle" /\ Len(deploys) < MaxEntries
    /\ op' = [step |-> "restart_to", old |-> head, new |-> [head EXCEPT ![Main] = commit],
              explicit |-> FALSE]
    /\ \E kept \in Kept : head' = ResetTo(CodeFor(commit), kept)
    /\ UNCHANGED <<tip, loaded, schema, flags, deploys, up>> /\ Works

RollbackToDefault == Candidates # {} /\ RollbackTo(DefaultTarget)

RollbackDone ==
    /\ Goto("restart_to", "idle")
    /\ loaded' = head
    /\ \E healthy \in BOOLEAN :
         /\ IF healthy THEN Works ELSE Fails
         /\ Flag(flags.deploying, ~healthy)
         /\ Record(IF healthy THEN "success" ELSE "rollback_failed",
                    op.old[Main], op.new[Main], NoHeads)
    /\ UNCHANGED <<tip, head, schema, up>>

(* The conf or the restart raises: nothing is recorded.                      *)
RollbackRaises ==
    /\ Fails
    /\ Goto("restart_to", "idle")
    /\ UNCHANGED <<tip, head, loaded, schema, flags, deploys, up>>

-----------------------------------------------------------------------------
(* Everything else.                                                          *)

(* start_production and restart_production re-judge a flagged production.    *)
RestartProduction ==
    /\ up /\ op.step = "idle"
    /\ loaded' = head
    /\ \E healthy \in BOOLEAN :
         Flag(flags.deploying, IF flags.unhealthy THEN ~healthy ELSE FALSE)
    /\ UNCHANGED <<tip, head, schema, deploys, op, up>> /\ Works

(* Docker restarts the container, or a recycled worker imports from disk.    *)
OdooReloads ==
    /\ loaded' = head
    /\ UNCHANGED <<tip, head, schema, flags, deploys, op, up>> /\ Works

Die ==
    /\ up /\ crashes < MaxCrashes /\ crashes' = crashes + 1
    /\ up' = FALSE
    /\ op' = [op EXCEPT !.step = "idle"]
    /\ UNCHANGED <<tip, head, loaded, schema, flags, deploys, failures>>

(* init_system: clear_stale_deploy_flags.                                    *)
Startup ==
    /\ ~up /\ up' = TRUE
    /\ Flag(FALSE, flags.unhealthy)
    /\ UNCHANGED <<tip, head, loaded, schema, deploys, op>> /\ Works

DeployStep ==
    \/ PullMain \/ PullExtras \/ PullFails
    \/ NothingToDo \/ NothingToApply
    \/ Rewind \/ Forward
    \/ Apply \/ ApplyFails \/ Refresh
    \/ Verified \/ VerifyFails \/ DeployRaises
    \/ ResetCode \/ RolledBack \/ RollbackFails

Next ==
    \/ \E r \in Repos : Push(r)
    \/ \E explicit \in BOOLEAN : StartDeploy(explicit)
    \/ DeployStep
    \/ \E commit \in 0..tip[Main] : (RollForward \/ commit <= head[Main]) /\ RollbackTo(commit)
    \/ RollbackToDefault
    \/ RollbackDone \/ RollbackRaises
    \/ RestartProduction \/ OdooReloads
    \/ Die \/ Startup

Spec == Init /\ [][Next]_vars

-----------------------------------------------------------------------------
(* The properties.                                                           *)

LastStatus == deploys[Len(deploys)].status

(* While the pre-update snapshot is taken, the checkout is code whose        *)
(* migrations the database has been through: the snapshot records a commit   *)
(* that can run on its data, and a worker recycled meanwhile does not import *)
(* new code on the old schema (_run_pre_update_hooks).                       *)
SnapshotMatchesData == Hooks /\ op.step = "rewound" => Missing(head) = {}

(* The operator has to step in: the server died, or a rollback failed, and   *)
(* what the checkout holds is no longer what the database ran against.       *)
Undisturbed == crashes = 0 /\ \A i \in DOMAIN deploys : deploys[i].status # "rollback_failed"

(* Snapshots record code that runs on their data as long as neither the      *)
(* server died nor a rollback failed, whatever else failed before.           *)
SnapshotMatchesDataIfUndisturbed == Undisturbed => SnapshotMatchesData

(* Between operations, a production whose last deploy succeeded or was       *)
(* rolled back never holds or runs code whose migrations the database has    *)
(* not seen, whatever deploys failed before (update_production).             *)
MigratedWhenSettled ==
    Undisturbed /\ op.step = "idle" /\ LastStatus \in {"success", "rolled_back"}
        => Missing(head) = {} /\ Missing(loaded) = {}

(* No operation leaves deploy_in_progress set: the flag is up only while a   *)
(* deploy runs or until the server that died in one starts again             *)
(* (clear_stale_deploy_flags).                                               *)
FlagsSettled == up /\ op.step = "idle" => ~flags.deploying

(* A deploy that is recorded as rolled back left the production as it found  *)
(* it: the checkout and every extra worktree are back on the pre-update      *)
(* commits, and Odoo runs them (update_production).                          *)
RolledBackIsOldCode ==
    [][deploys' # deploys /\ deploys'[Len(deploys')].status = "rolled_back"
        => head' = op.old /\ loaded' = op.old]_vars

(* What the comment in rollback_production says of the default target: it    *)
(* starts the latest deploy that moved the code forward, so a rollback to it *)
(* goes back.                                                                *)
DefaultRollbackGoesBack == [][RollbackToDefault => head'[Main] < head[Main]]_vars
=============================================================================
