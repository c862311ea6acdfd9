# Oduflow in TLA+

Oduflow runs Odoo for teams: development environments made from templates, one
per Git branch, and production instances with deploys, snapshots and restores.
One server process per host serves MCP tools, a dashboard and GitHub webhooks;
cron jobs, the CLI and further stdio servers may run beside it on the same
data directory, and everything they manage (containers, databases,
filestores, an S3 bucket) outlives them.

This directory models the parts where that is hard to get right: what several
processes and threads do to shared files and containers, and what is left when
one of them dies half way. TLC checks the modules on small instances; TLAPS
proves what matters most for every instance. The inventory of the whole system,
with what is left out and why, is at the end.

Paths without a directory are in `src/src/oduflow/`.

## Modules

| module | models | what it is |
|---|---|---|
| `LockGrants` | the promise of `locking.py` | abstract: a set of grants of which no two conflict |
| `LockManager` | `locking.py` | threads, dictionaries under `_map_lock`, lock files between processes |
| `Phases`, `EnvFootprints`, `TemplateFootprints`, `Footprints`, `Tools`, `Routes` | `server.py`, `web_ui.py`, the functions they call | tables: what every operation locks, reads and changes, phase by phase |
| `Handlers` | all operations side by side | runs any of those tables in any interleaving over `LockGrants` |
| `SnapshotVault` | the promise of `backup_ops.py` | abstract: snapshots that can be restored, taken and expired |
| `BackupStore` | `backup_ops.py`, `chunkstore/` | snapshots and retention over a content-addressed S3 store |
| `DeployQueue` | `webhooks.py`, `web_ui.py` | pushes and clicks that become background deploys |
| `ProductionRestore` | `backup_ops.py` | the swap of a restored database and filestore |
| `ProductionDeploy` | `docker_ops/production_ops.py`, `docker_ops/env_ops.py` | deploy, automatic rollback, rollback to a commit |
| `ProductionLifecycle` | `docker_ops/production_ops.py` | create, promote, reconfigure, delete, purge |
| `Environments` | `docker_ops/env_ops.py`, `reaper.py`, `activity.py` | the five places an environment lies in, and who idles |
| `Addresses` | `port_registry.py`, `hostname_registry.py`, `env_ops.py` | ports, hostnames, slots |
| `AgentIdentities` | `agent_uids.py`, `env_ops.py` | uids and what they own in the agent container |
| `Generations` | `template_sync.py`, `template_generations.py` | new template data under environments that use the old |
| `ExtraAddons` | `extra_addons.py`, `env_ops.py` | a shared clone and its cache of checkouts |
| `Services` | `docker_ops/service_ops.py`, `docker_ops/volume_ops.py`, `service_presets.py` | services, a volume, presets, staging images |
| `ImageBuilds` | `image_builds.py`, `docker_ops/build_ops.py` | build jobs, cancellation, publication, retention |
| `PostgresUpgrade` | `postgres_migration.py`, `instance_lock.py` | the major upgrade of both clusters at a start |
| `Migrations` | `migrations.py` | one-shot steps and their ledger |
| `BundledFiles` | `bundled_upgrade.py` | three-way reconciliation of files a team may edit |
| `MC...` | | TLC's instances: constants, and the choice described next |
| `..._proofs` | | theorems about the module of that name; `Startup_proofs`: `Migrations`, `PostgresUpgrade` and `BundledFiles`; `Tenants_proofs`: the components of `MCTenants`; `Productions_proofs`: those of `MCProductions`; `Background_proofs`: those of `MCFocus` but `Migrations` |

How they fit. Every operation of the server runs between an acquire and a
release of `LockManager`, which implements `LockGrants`; `Handlers` runs all
operations over `LockGrants` and asks whether the locks they take suffice. So
the other modules may take an operation to be alone on what its lock protects,
and are about what locks do not settle: steps that fail, deaths, what was read
before the lock was taken, and files that several operations share under a
mutex of their own. `DeployQueue` sees the lock from one production and
abstracts a deploy to its fetch; `ProductionDeploy`, `ProductionRestore` and
`ProductionLifecycle` are what happens inside that lock. A deploy takes a
snapshot before it changes anything: `PreUpdateSnapshot` of `BackupStore`, the
one that does not take the store's lock. `Environments` leaves the addresses of
an environment to `Addresses` and its agent identity to `AgentIdentities`, since
these registries share nothing but its name. `Services` and `ImageBuilds` are
two users of staging images, each under the same mutex.

Components that share no state are checked in one run: the module has a
variable `focus`, the first state chooses which of them moves, and the others
stay where they begin. The states of such a run are those of its components
one after the other. `MCFiles` holds `BackupStore` and `BundledFiles`;
`MCTenants` `Environments`, `Addresses` and `AgentIdentities`; `MCProductions`
the restore, the deploy and the life cycle; `MCFocus` `Migrations`, `Generations`,
`Services`, `ImageBuilds` and `ExtraAddons`.

`PROJECT.json` names the source lines of every definition. Definitions marked
"Fault:" are plausible bugs next to the definition they would replace; no
specification uses them, they only show that each property can fail.

### LockManager

State: per process, the `threading.Lock`s that are locked (`keyMutex`) and
every dictionary of the class (`envTeam`, `envCount`, `envHolders`,
`activeProd`, `activeTeams`, `sysHolder`), the thread inside `_map_lock`, the
open lock files of all processes; per thread, where it is inside which call;
and, as history, the grants callers believe they have.

Each acquire is split where another thread or process can come in: waiting for
a key's mutex outside `_map_lock`, taking each gate file, backing out when one
is busy, recording the grant. A crash closes the files of a process, which is
what the kernel does. `Conflict` of `LockGrants` says which locks exclude each
other: the same one, a team and its environments, the system and productions.

Abstracted: a gate file is named by the lock that takes it exclusively; a
refused non-blocking acquire changes nothing and is no step; holders'
descriptions and ages are left out.

### Phases, the footprints, Tools, Routes, Handlers

A phase is a stretch of code with the locks held in it, whether its thread
waited for the last of them, the resources it reads and those it changes. A
resource is a kind and a name: an environment's container, data and code, a
template, the chunks of the store, a service, a volume, a staging image.
Three modules give the phases of the functions in `docker_ops/`, in the order in
which they run, with their own mutexes: `EnvFootprints` what creating, updating,
pulling and switching an environment are made of, `TemplateFootprints` how
templates are published, imported, refreshed and removed (with the remount of
every environment built on them), `Footprints` productions, services, the
store, repositories and what the host has one of. `Tools` and `Routes` wrap
them in the locks the entry points take, one operator per tool, route, job and
command, with the code's name. Read-only operations, and registries whose every
change is one read-modify-write under its own mutex, are not listed.

State of `Handlers`: each thread's plan and the phase it is in. A call may end
in any phase (early return, refusal, exception, timeout, death), and holds
nothing then. A phase is entered when its locks are granted. A mutex between
threads is named with its process, since it excludes nobody else.

Left out of the tables TLC runs (`MCHandlers`), because the code does not keep
them apart: presets of services, the staging directories of imports and the
database `init_template` works in (`Unkept`), and the plans in `Unkeyed`, each of which makes TLC find `Isolated` violated when it is added.
All of them are in the section on words below.

### BackupStore

State: the registry's productions, the lock `prod-backups:<team>`, and the
objects of the bucket: chunks, fossils (`.fsl`), revision files, manifests,
fossil collections; the snapshot in progress of each production and the prune
in progress. Each request that changes the store is a step. A filestore
content is its set of data and metadata chunks, so contents share chunks.

The two-step prune is modelled in full: the sweep of matured collections
(delete or resurrect), the fossilization of unreferenced chunks, the
collection, the deletion of revisions, and dying between any two.

Abstracted: the database dump beside each manifest, productions without a
filestore, corrupt JSON. Reads of one phase are one step.

### DeployQueue

State: commits on the branch, deliveries not handled yet, the newest commit
fetched, the slot `webhooks._pending`, each background thread's position and
trigger, the holder of the production's lock, the kinds of non-success entries
in `deploys.json`. Actions: a push and its webhook (dispatched or coalesced), a
dashboard click, and the thread's queueing, timeout, deploy and clean-up, up to
the `finally` that frees the slot again.

### ProductionRestore

State: what the databases `{db}`, `{db}__restore` and `{db}__old` hold, what the
live, the staged and the set-aside filestore hold, directories left behind by
crashes, the container, and the local variables of `_commit_restored_pair`
that decide what happens next (`wasRunning`, `stopped`, `safe`, `committed`).
Every statement has an action for its success and one for its failure, which
may come before or after the statement took effect. `mishaps` is history: the
two situations in which the code itself gives no guarantee.

`Repair` is the operator: the code logs that an uncertain pair must be
inspected and leaves it stopped. `Careful` says that operators do that before
they restore again or start Odoo.

### ProductionDeploy

State: tips of the branches, commits checked out, commits Odoo loaded,
migrations the database went through, the registry's flags, `deploys.json`, the
operation in progress. A commit asks for a module upgrade, a restart, a
refresh or nothing; `Plan` merges the requests as `merge_recommendations` does.
The model follows `_update_production` from the pull through the rewind for
the pre-update snapshot, the apply, the health check and the code rollback;
`rollback_production` with any target or the default one; a restart; a worker
that reloads code from disk; a server that dies and starts again.

### ProductionLifecycle

State: one name's record in `productions.json`, its database, workspace
(checkout, worktree, the data copied in), tombstone and container, the
environment a promotion copies from, the operation in progress and a purge.
Databases, workspaces and containers carry the attempt that made them, and a
record's field has the setting 1 or 2. A creation is followed step by step
with its roll-back, a deletion up to its tombstone, a purge from its listing
to its late lock, a reconfiguration from the record to the container.

### Environments

State: for each name, the container, the database, the workspace, the
`.protected` marker, the creation its token and share link were made for, and
its record in `activity.json`; the lock of each name; what each thread does;
the reaper's listing. Each creation has a number, and a recreation remembers
what it continues. The actions are the steps of create, delete, recreate,
rename, update, stop, start, the wake-up on a request, protection, and the
reaper's sweep: read everything, then stop and delete one by one under the
name's lock. Each step may fail, and the server may die in it. Time passes as
`Grow`: a record becomes older.

### Addresses

State: the two registry files, what each container holds, what each caller has
seen, and how traffic is routed (by port, by name, by hostname slots), which
the operator may change while the server is down. `bare` is history: names
whose container survived a failed deletion that had released its address.
Each operation looks at the containers in one step and decides under the
registry's lock in another.

### AgentIdentities

State: `agent_uids.json` (uids, pending removals, the next uid), the checkouts
by name and the HOMEs by uid on the container's volumes, whether the container
runs, environments, and each caller's operation with the list it read. `Hazards`
switches on situations the code gives no guarantee for; the passing run has
none of them, `identities_stayed` has one.

### Generations

State: the remote side's newest backup, the file `pending`, the template, the
generations on disk, and for each environment its database, upper layer, mount,
pin and journal entry; the run in progress. A run fetches, pins, publishes,
refreshes those who opted in, and collects; a refresh has a step for each swap
and each step back. The worker may die and the host restart, and Docker then
starts containers before the overlays are mounted.

### ExtraAddons

State: the remote branches, the bare clone (registered, downloaded branches,
refspecs, the `.on-demand` marker), the cache of checkouts with those handed
out within the grace period, the containers and what they mount, the repository's
lock and the removal or update that holds it.

### Services, ImageBuilds

`Services`: containers, the presets file, one volume and one staging tag, the
operation on each service, the registry mutex. `ImageBuilds`: each build's
thread, its status in memory and in `job.json`, its context, its staging image,
publications, a tool's lookup, and what the retention after each build is still
to remove.

### PostgresUpgrade

State: `[database].image` and what each server read of it, and of each cluster its volume, container, data,
dump and applications; the template's database and dump; the WAL-G archive and
a requested base backup; the journal; what each server does, who holds the
instance lock alone and where it is; a command that may overlap. Every phase is
followed statement by statement; a server may die at each of them.

### Migrations

State: the ledger, and for each step the form of every object it is responsible
for; the process that holds the file lock, its step and what it has dealt with.
Ten steps with the shape of each in the code: strict ones and those that only
report what they could not change, and two that pass an intermediate state.

### BundledFiles

State: the installed package, the live file, baseline, backup, pending
baseline and the three sidecars, the reconciliation in progress as a plan and
the writes left of it. A content is a set of lines. Planning has a case for
each kind of `ReconcilePlan`; applying is write by write and may stop after
any; the operator edits in between.

## What the runs check

`PROJECT.json` lists twelve runs. Ten pass, and between them every action fires.

| run | properties | what it shows |
|---|---|---|
| `lock_procs` | `Exclusion`, `BooksMatchHolders`, `ImplementsGrants` | two processes, three threads, two locks per thread, one crash: conflicting grants never coexist, the dictionaries say exactly who holds what, the manager implements `LockGrants` |
| `lock_calls_return` | `CallsReturn` | every call returns, however long others keep their locks |
| `handlers` | `Isolated` | any two of some 150 operations, in any interleaving: nobody reads or changes what somebody else is changing |
| `files` | `SnapshotsRestorable`, `ImplementsVault`, `EditsKept`, `NothingSkipped` | snapshots that hold the store's lock and prunes that die half way: every snapshot with a manifest can be restored until retention expires it. Reconciliations that die between two writes: no line the operator wrote is lost, no change of a bundle is skipped |
| `queue` | `NoPushVanishes`, `EveryPushFetched` | a quiet queue has fetched everything or left a record, and every push is fetched in the end unless something failed |
| `env_idle` | `ServesOwnData`, `AbandonedIsDeleted` | an environment never serves data of an earlier one of its name; what nobody uses any more is stopped and deleted in the end |
| `tenants` | `PairUnderOneName`, `ReaperActsOnIdle`, `AddressesDistinct`, `CapHolds`, `NeverInherits`, `NothingLeftBehind` | database and workspace of a creation stay under one name, the reaper acts on what was idle, addresses are distinct and capped, no uid and no directory reaches a later environment |
| `productions` | `ServesCoherentPair`, `PreviousSurvives`, `SnapshotMatchesDataIfUndisturbed`, `MigratedWhenSettled`, `OwnData`, `KeptUntilPurged`, `PromotedPair`, `Converged` | Odoo serves only the pair whose swap completed, the replaced data survives; snapshots record code that fits their data, a settled production is migrated; no purge takes a live production's data, a promotion copies one moment |
| `upgrade` | `NothingLost`, `ServesWhole`, `ApplicationsReturn` | two servers, a failure, edits of the configuration: every write is in a cluster or a verified dump, a server that serves has everything back, stopped applications return |
| `background` | `AppliedIsDone`, `ServesOnePiece`, `Recoverable`, `RequestKept`, `UsesWhatExists`, `WithinSlots`, `LiveBuildsKeepTheirContext`, `PublishableIsThere`, `MountedIsThere`, `RemovedStaysRemoved` | a recorded migration is complete; a refreshed environment runs on one piece and can be put back, no request for new data is lost; what a service runs from stays; no live build is taken for a dead one, no image goes while it is published; a mounted checkout stays |
| `restore_retry` | `PreviousSurvives` (violated) | a restore tried again after a death drops the only copy of the live data first |
| `identities_stayed` | `GoneWhenForgotten` (violated) | a uid is forgotten while files it owns are still in the container |

Every property has a mutant in `PROJECT.json`: a plausible bug in one definition
under which TLC finds the property violated in the same run.

Type invariants are `TypeOK` of each module (`EnvTypeOK`, `AddrTypeOK` and so
on), gathered as `TenantsTypeOK`, `ProductionsTypeOK` and `FocusTypeOK`. All of
them are theorems; to check them, add them to a run's cfg.

### Bounds

Every bound is a constant named in a guard.

- `lock_procs`: one environment, one production, one team and the system lock
  have between them every kind of conflict; a second process with one thread is
  enough for a file held elsewhere, two threads of the first for everything
  in memory. Two locks per thread covers the nested acquisitions of the code
  (a team and a production, two names of a rename). With one crash a process
  can die at any point of a call.
- `handlers`: two threads, since interference is between two calls; two names
  of each kind that operations take two of. The theorem removes the bound.
- `files`: two contents that share a data chunk, three revisions (one kept, one
  expired, the newest), one failure at any request; three packages, each of which
  drops a line and adds one, two edits, one interruption.
- `queue`: two pushes and three threads are one deploy running, one waiting and
  a push that has nobody; two failures.
- `env_idle`, `tenants`: two names, two creations and two or three operations
  are a name's end and its next life, and a rename between them; the addresses
  have three environments for two slots and ports, so the cap and the range are
  reached; three uids and creations, since a uid must have an earlier owner and a
  name an earlier life.
- `productions`: three versions tell the live, the staged and the lost data
  apart; three failures are a failing step, its failing compensation and one
  more in the next restore. Two commits in each of two repositories with
  different requests; four entries of history are the creation, two deploys and
  a rollback. Two creations and two reconfigurations of one name.
- `upgrade`: two servers (one that upgrades, one that starts beside it), one
  write and two edits, so that the image is changed and changed back.
- `background`: two objects per migration and two deaths, one of them in the
  rerun; two environments, backups and generations; two services for one slot;
  two builds with one kept image; two branches of two commits with one consumer,
  since what a removal can take from a consumer does not depend on others.

Five instances turn a situation off that the code gives no guarantee for, each
described in the next section: `PreUpdate` (a deploy's snapshot), `Overlap` (a
container that is away while users are looked for), `CommandsOverlap`,
`Hazards`, and purges by the command (`Sweepers`). In `ProductionDeploy`,
`RollForward` is off, since an operator who "rolls back" to a commit newer than
the database asks for code that was never migrated, which the code documents as
code-only; so are `ResetFails` and `Explicit`.

Deadlock is checked in every run except `env_idle`, `tenants`, `upgrade`,
`background` and `identities_stayed`, whose components come to an end when their
bounds are used up and no operation is under way.

### Fairness

- `LockManager!Fairness`: a thread inside `_map_lock` goes on (weak), a wait
  ends at its deadline (weak for the thread blocked on a mutex, strong for the
  steps of a retry loop, which is entered again and again); nobody is obliged to
  release a lock.
- `DeployQueue!FairSpec`: GitHub's delivery is handled, a thread takes its own
  steps, whoever else holds the lock releases it, and a waiter gets a lock that
  is free again and again (strong: `threading.Lock` wakes one of its waiters,
  and the flock is retried in a loop). Nothing assumes that pushes arrive
  or that failures stop.
- `Environments!EnvFairness`: an operation that was begun goes on or fails
  (`Work`), the reaper's thread sweeps again (`reaper.py` loops for ever), and
  records age. Nobody is obliged to begin or to use anything.
- `PostgresUpgrade!UpFairness`: the service is started again after a death
  (systemd), an upgrade and a server take their steps, the operator who is told
  that an upgrade was refused sets the image back, and a command ends.

## What is proved

TLAPS checks every proof to its leaves. The assumptions are on constants. TLC
evaluates those on the instances of the runs; `PreUpdate` and `Careful` are
constants that a run sets, and `OrdinaryUse` and `OnlyReaper` say of such
constants what the run `productions` sets them to: deploys follow the plan,
rollbacks go to older commits and `git reset` of a worktree works; and only the
reaper purges, under the lock of the name. `~Overlap` says of the add-ons that no
container is away for a moment while a removal looks for users. Else the
assumptions are that names are distinct from the values for "nobody" and
"nothing", and that bounds are numbers (`FocusConstants` and those of the
components).

| theorem | statement |
|---|---|
| `LockManager_proofs!TypeCorrect` | `Spec => []TypeOK` |
| `LockManager_proofs!MutualExclusion` | `Spec => []Exclusion` |
| `LockManager_proofs!BooksAreExact` | `Spec => []BooksMatchHolders` |
| `LockManager_proofs!NoFileLeaks` | `Spec => []NoStaleFile` |
| `LockManager_proofs!GrantsAreBacked` | `Spec => []GrantsHoldGates` |
| `LockManager_proofs!Refinement` | `Spec => ImplementsGrants` |
| `Handlers_proofs!HandlersTyped` | tables are sequences of phases: `HSpec => []HTypeOK` |
| `Handlers_proofs!HandlersApart` | the same: `HSpec => []Apart` |
| `Handlers_proofs!HandlersIsolated` | and the tables are `Disciplined`: `HSpec => []Isolated` |
| `BackupStore_proofs!TypeCorrect` | `Spec => []TypeOK` |
| `BackupStore_proofs!Restorable` | `~PreUpdate` implies `Spec => []SnapshotsRestorable` |
| `BackupStore_proofs!SplicedExist` | `~PreUpdate` implies `Spec => []SplicedChunksExist` |
| `BackupStore_proofs!Refinement` | `~PreUpdate` implies `Spec => ImplementsVault` |
| `DeployQueue_proofs!TypeCorrect` | `Spec => []TypeOK` |
| `DeployQueue_proofs!SlotIsSafe` | `Spec => []SlotNeverLeaks` |
| `DeployQueue_proofs!PushesAccountedFor` | `Spec => []NoPushVanishes` |
| `Productions_proofs!TypeCorrect` | `Spec => []TypeOK` |
| `Productions_proofs!ServesCoherent` | `Careful` implies `Spec => []ServesCoherentPair` |
| `Productions_proofs!DataSurvives` | `Careful` implies `Spec => []PreviousSurvives` |
| `Productions_proofs!SwapsWhileDown` | `Careful` implies `Spec => SwapsOnlyWhileDown` |
| `Productions_proofs!DeployTypes` | `OrdinaryUse` implies `ProductionsSpec => [](focus = "deploy" => Deploy!TypeOK)` |
| `Productions_proofs!SnapshotsMatch` | `OrdinaryUse` implies `ProductionsSpec => []SnapshotMatchesDataIfUndisturbed` |
| `Productions_proofs!SettledRunsMigrated` | `OrdinaryUse` implies `ProductionsSpec => []MigratedWhenSettled` |
| `Productions_proofs!NoFlagIsLeft` | `OrdinaryUse` implies `ProductionsSpec => [](focus = "deploy" => Deploy!FlagsSettled)` |
| `Productions_proofs!RolledBackToOldCode` | `OrdinaryUse` implies `ProductionsSpec => Deploy!RolledBackIsOldCode` |
| `Productions_proofs!LifeTypes` | `OnlyReaper` implies `ProductionsSpec => [](focus = "life" => Life!PLTypeOK)` |
| `Productions_proofs!OwnDataOnly` | `OnlyReaper` implies `ProductionsSpec => []OwnData` |
| `Productions_proofs!KeptIsThere` | `OnlyReaper` implies `ProductionsSpec => []KeptUntilPurged` |
| `Productions_proofs!PromotionsArePairs` | `OnlyReaper` implies `ProductionsSpec => []PromotedPair` |
| `Productions_proofs!ReconfiguredConverged` | `OnlyReaper` implies `ProductionsSpec => []Converged` |
| `Startup_proofs!TypeCorrect` | `MigSpec => []MigTypeOK` |
| `Startup_proofs!RecordedIsDone` | `MigSpec => []AppliedIsDone` |
| `Startup_proofs!UpgradeTypes` | `UpSpec => []UpTypeOK` |
| `Startup_proofs!NoWriteIsLost` | `~CommandsOverlap` implies `UpSpec => []NothingLost` |
| `Startup_proofs!ServedIsWhole` | `~CommandsOverlap` implies `UpSpec => []ServesWhole` |
| `Background_proofs!BuildTypes` | `BuildSpec => []BuildTypeOK` |
| `Background_proofs!LiveBuildsAreLeftAlone` | `BuildSpec => []LiveBuildsKeepTheirContext` |
| `Background_proofs!PublishableStays` | `BuildSpec => []PublishableIsThere` |
| `Background_proofs!ServiceTypes` | `FocusSpec => [](focus = "services" => Service!SvcTypeOK)` |
| `Background_proofs!NothingUsedIsTaken` | `FocusSpec => []UsesWhatExists` |
| `Background_proofs!SlotsStand` | `FocusSpec => []WithinSlots` |
| `Background_proofs!AddonTypes` | `FocusSpec => [](focus = "addons" => Addons!AddonsTypeOK)` |
| `Background_proofs!MountsStand` | `~Overlap` implies `FocusSpec => []MountedIsThere` |
| `Background_proofs!RemovalsLast` | `FocusSpec => []RemovedStaysRemoved` |
| `Background_proofs!GenerationTypes` | `FocusSpec => [](focus = "templates" => Template!GenTypeOK)` |
| `Background_proofs!OnePieceServed` | `FocusSpec => []ServesOnePiece` |
| `Background_proofs!RecoveryIsPossible` | `FocusSpec => []Recoverable` |
| `Background_proofs!RequestsLast` | `FocusSpec => []RequestKept` |
| `Startup_proofs!BundledTypes` | `BundledSpec => []BundledTypeOK` |
| `Startup_proofs!EditsSurvive` | `BundledSpec => []EditsKept` |
| `Startup_proofs!NoneSkipped` | `BundledSpec => []NothingSkipped` |
| `Tenants_proofs!EnvironmentTypes` | `EnvSpec => []EnvTypeOK` |
| `Tenants_proofs!OwnDataServed` | `EnvSpec => []ServesOwnData` |
| `Tenants_proofs!PairsStayTogether` | `EnvSpec => []PairUnderOneName` |
| `Tenants_proofs!ReaperSparesUsed` | `EnvSpec => ReaperActsOnIdle` |
| `Tenants_proofs!AddressTypes` | `TenantsSpec => [](focus = "addresses" => A!AddrTypeOK)` |
| `Tenants_proofs!AddressesStayDistinct` | `TenantsSpec => []AddressesDistinct` |
| `Tenants_proofs!CapStands` | `TenantsSpec => []CapHolds` |
| `Tenants_proofs!IdentityTypes` | `Hazards \subseteq {"kept", "stayed"}` implies `TenantsSpec => [](focus = "identities" => I!IdTypeOK)` |
| `Tenants_proofs!NothingInherited` | `Hazards \subseteq {"kept", "stayed"}` implies `TenantsSpec => []NeverInherits` |
| `Tenants_proofs!NothingIsLeftBehind` | `Hazards = {}` implies `TenantsSpec => []NothingLeftBehind` |

`NoStaleFile`, `GrantsHoldGates`, `SplicedChunksExist`, `SlotNeverLeaks`,
`SwapsOnlyWhileDown`, `FlagsSettled` and `RolledBackIsOldCode` are proved and in
no run.

The arguments.

- Locks. Exclusion within a process and between processes have different
  reasons. Within one, a grant was checked against dictionaries that are exact
  (`ExactBooks`), and what was checked stays true until the grant is recorded
  because the thread stays inside `_map_lock` (`GateChecks`). Between two,
  both grants hold their gate files (`GrantsHoldGates`), some gate is exclusive
  for one of them, and a file has one exclusive holder (`FilesInv`). Both rest
  on `Ownership`: each key, team and wide lock has at most one owner among the
  threads of a process, the owner holding it or being about to.
- Handlers. The locks two calls hold never conflict (`Apart`), since a phase is
  entered only when its locks are granted. In disciplined tables two phases that
  interfere hold conflicting locks, so they are never entered together. That the
  tables of this code are disciplined is for TLC, by their number; the run checks
  `Isolated` itself.
- Store. What retention must not touch is `Protected`: revisions with a
  manifest, and the newest of each production, which the next backup splices
  from. `Inv` says that protected revisions are whole, that a running backup
  only counts on chunks the store has (`BackupInv`), and that what a prune has
  decided to move or delete is disjoint from both (`PruneInv`), which is so as
  long as the two exclude each other (`LockInv`). Hence `~PreUpdate`: the
  snapshot of a deploy breaks `LockInv`.
- Queue. `SlotNeverLeaks` is inductive. `NoPushVanishes` speaks of quiet states
  only; what every step keeps is that, unless something went wrong and is or
  will be recorded, the slot is taken only while a webhook run is still to
  deploy, and every handled push that was not fetched has such a run.
- Restore. `Survives` (the current version is in the live or the set-aside
  database, and in a filestore) holds because the names of the staged, live and
  set-aside data at each step are known (`Layout`) and `safe` tells the truth
  (`Knowledge`); Odoo is down wherever they may be mixed (`Downtime`). `Careful`
  is needed: `restore_retry` is the counterexample without it.
- Deploys. Every code is compared with the migrations the database went through:
  what a settled deploy left, what is loaded, and what an entry of the history
  offers as a target needs no other (`EntriesMigrated`), or it is what the operation
  under way is about to migrate (`StepMigrated`). What is checked
  out at each step is known (`CheckedOut`), and nothing is newer than the branches
  (`Behind`), so a rollback never needs a migration. All this holds as long as
  `Undisturbed` does, which a death or a failed rollback ends; `FlagsSettled` and
  `RolledBackIsOldCode` do without it. `OrdinaryUse` is needed: an explicit plan
  may leave out a migration, a rollback to a newer commit may skip one, and a
  worktree that is not reset stays on the new code.
- Life of a production. What exists under the name at each step is known, for a
  creation (`CreateStage`) and its roll-back (`UndoStage`), a promotion
  (`CopyStage`), a reconfiguration (`ChangeStage`) and a deletion (`DeleteStage`);
  between them, what was kept is all there is (`KeptAlone`), its mark is there
  (`MarkedThere`), and a record has its parts (`SettledWhole`). A purge that read
  the registry early looks again once it has the lock (`SweepStage`). Hence
  `OnlyReaper`: the purge of the command line takes no lock, and a production may
  be created between its look and its DROP.
- Migrations. What a run has dealt with is in the new form (`Dealt`), because an
  object it passes over is new, or moved by the change this run is making
  (`Moving`), and the shared container is away only while this run replaces it
  (`Away`). So a step that is recorded is complete, and the ledger grows by one
  (`InOrder`). `torn` marks the two deaths for which it is not so.
- Image builds. While a build lives it is in memory (`InMemoryWhileLive`), so no
  tool looks for it on disk; and no earlier lookup is still under way
  (`NoLookupYet`), since its file did not say that it runs before it was in
  memory (`NotOnDiskYet`). Fewer than `Keep` builds ended after one of the newest,
  each once (`EndedOnce`), so a retention that counts them does not remove it, and
  none that is under way has it on its list (`NewestSpared`).
- Services. Who starts or replaces a container has the registry's mutex
  (`HoldsRegistry`), and so has who found a volume or an image unused and is about
  to remove it (`FoundUnused`): nothing comes to use it in between, and what
  runs, or is about to start, keeps what it uses. A container that an update
  replaces runs until it is removed (`Replaces`) and is gone only under the
  mutex, so nobody takes its slot.
- Extra add-ons. A checkout that somebody mounts, or was handed to mount, is there
  (`Kept`): what is handed out is recent until its container mounts it, and a
  removal knows of everything that is mounted or recent (`Spared`). A branch that was removed has no ref, and a fetch asks for what is
  tracked, which it is not (`Tracked`). `~Overlap` is needed: a container that is
  away for a moment is not seen.
- Template generations. Outside a refresh an environment is of one piece (`AsOne`):
  its database, its attachments and the generation it is pinned to belong
  together, and what runs has that generation mounted (`Mounts`). During a
  refresh each of its parts is old or new as the step says (`Midway`), and it
  does not run while they are mixed. One that was left in between keeps its journal, and under the
  journal's names all of the old data (`Left`, `Returnable`); a collection deletes
  no generation that a pin or a journal names (`OnDisk`). That a request is
  not lost follows from what a run read when it took the marker off the queue.
- Upgrade. Whatever is about to go is in the journal or in a dump first, and
  leaves the journal only when it is back: the last write is in its cluster until
  the removal is committed and in the verified dump from then on (`Data`), which
  holds because the applications are down from before the dump; an application
  that is down and wanted is on the list (`Applications`), a template whose
  database went with the old cluster is listed (`Templates`), an archive that is
  being deleted is on record (`Archived`). `Progress` says where each of these can
  be, and that an upgrade is cancelled only while every old cluster is whole. What
  concerns data needs `~CommandsOverlap`; the types do not.
- Bundled files. A merge only takes away what the base has, and no base has a
  line of the operator's (`NothingOfHis`); so what is to be written over the live
  file has the lines he had when it was planned (`KeepsHis`), and the run makes
  sure that it still is that file. A forced run copies it first (`CopiedFirst`,
  `Copied`). For `NothingSkipped`: what is kept of a bundle is that of a package so
  far, and a line the newest one still has was never dropped; a run accounts for
  every base it finds, a sidecar it removes is not newer than what is pending
  (`Covers`, `Offered`), and each write leaves the ones after it valid (`Left`).
- Environments. A thread owns the names it changes (`Locked`), so what it has
  found or done there stays true while it works: `Stage` says what that is at
  each step of each operation, `Yields` and `OthersWait` that the others leave it
  alone. Data only goes, is made with a number nobody has had (`Fresh`, `Single`),
  or moves to the other name of a rename; so a container that starts does so over
  what its operation made or carried (`Carried`), and workspace and database lie
  apart only while a rename is between its two steps (`Paired`, `Moving`). The
  reaper acts on what was idle when its sweep read it, and whoever uses it
  later is on record as late (`Swept`).
- Addresses. What the containers show is registered (`PortsRegistered`,
  `HostsRegistered`), and the registries name everything once (`OnePortEach`,
  `OneHostEach`). Between the two an operation carries what it will give its
  container, registered for its name since it reserved it (`GivesOwn`), and the
  lock of the name keeps others from releasing it (`OthersFit`). A hostname that
  was asked for is registered while the container still shows the old one
  (`Waits`), which nobody has registered then; so before a container runs, its
  operation has seen that no other shows its hostname (`HostsSure`). For the cap:
  every container that was not left over has a slot (`SlotsTaken`), and a step
  gives a slot only when those it counted are fewer than there are
  (`WithinSlots`). The names that failed deletions left (`bare`) are exempt
  throughout, as in the two properties.
- Identities. A uid is given once (`UidsOnce`), and what it owns was made for one
  creation of one environment (`Serves`); who holds a uid whose environment is gone
  is an operation that still carries it (`UidsOfEnvs`), a rename included. Hence
  nothing is inherited, also when checkouts stay behind or a rename follows a
  deletion that failed ("kept", "stayed"). For what is left behind: what a purge has
  on its list is retired for good (`Listed`), it confirms a removal only when
  nothing is left (`Cleared`), a checkout is of the uid its name has, or pending, or
  of an environment a rename is moving (`DirsOwned`), a HOME of a uid that is given
  or pending (`HomesOwned`), and a rename finds nothing pending under its names
  (`RenamesClean`). This needs `Hazards = {}`: each of the four breaks it alone, and
  TLC finds a counterexample for each.

Only model-checked: liveness (`CallsReturn`, `EveryPushFetched`,
`AbandonedIsDeleted`, `ApplicationsReturn`), which is beyond the prover, and that
the tables are `Disciplined`. Every invariant and every action property of the
passing runs is a theorem, and so are both refinements and every type invariant.

## Where code and words differ

What the code, its comments or its documents say and the code does not do, and
situations in which it gives no guarantee. Two are runs with expectation
"violation". Where a row names a run and a formula, TLC refutes the formula in
that run's instance, with the constant in parentheses changed; the formula is in
the component's module.

Locks

| where | what happens |
|---|---|
| `handlers`, `Isolated` with `Unkeyed`: `apply_stack` | a stack is applied under the team's and the production's lock without the keys of the services, volumes and databases it creates (`stack_ops.py`), though `specs/0050-granular-resource-locks.md:31` says every operation takes the narrowest key that names what it mutates: a dashboard operation on the same service may overlap |
| the same: `run_cleanup` | `oduflow cleanup` takes no lock and removes what it takes for the orphans of an environment that is just being created |
| the same: `run_destroy` | `destroy_system` refuses while environments, services or productions exist, and holds no lock while it looks and removes: an environment that is being created and has no container yet loses its database and template |
| the same: `api_import_finalize` with add-ons | `_wire_imported_addons` registers repositories without their RLock: if another call registers the same name after the check, the registration fails, and the handler removes the repository as one "that belongs to this import attempt" (`docker_ops/system_ops.py`) |
| the same: `template_from_env`, `cli_delete_template`, `cli_import_template` | a template that remembers the key of a bucket keeps it in the team's `secrets.json`, whose read-modify-write is guarded by a mutex of one process: a command beside the server can undo the server's change of another secret, or lose its own |
| the same: `ws_terminal`, `ws_sql_terminal` | the dashboard's shells take no lock, and change what any other operation works on |
| the same: `retune_postgres`, `run_server` | retuning writes the `odoo.conf` of productions, and a start reconciles networks, clusters and productions, without their locks; commands may run beside |
| `Unkept`: `BuildDatabase` | `init_template` works in a database and a container with fixed names, one per host, under the template's key only: two calls for different templates drop each other's (`docker_ops/system_ops.py`) |
| `ensure_production_template` | the template of a production is published again under the template's key alone; other publications take the team's lock, since they remount environments |
| `attach_filestore` | holds the template's key while it takes others |
| `Unkept`: staging | `api_import_finalize` reads the staging directory without the mutex of its uploads, and uploads hold no lock of the template, though imports from a bucket use the same directory |
| `api_production_auto_update`, `api_production_backup_schedule` | change a production's record without the production's key (`protect`, `unprotect` and `set_note` of environments likewise take none); each is one write of a registry |
| domains of productions | that no two productions share a domain is checked before it is recorded, under different keys |

Backups

| where | what happens |
|---|---|
| `files`, `PruneNeverMidSnapshot` (`PreUpdate`); `handlers`, `Isolated` with `Unkeyed` | `server.py` says of the locks of a snapshot that a prune "can never run mid-snapshot"; the snapshot a deploy takes does not hold the store's key |
| `files`, `NothingLost` (`PreUpdate`, `MaxRev = 4`) | `chunkstore/prune.py` says the scheme "keeps the store correct even if that serialization is ever lost"; a prune that overlaps a deploy's snapshot can delete chunks of a snapshot that finished |
| `files`, `ManifestsHaveRevisions` (`PreUpdate`) | "no dangling references": the same overlap leaves manifests whose revision is pruned |
| `files`, `NeverWedged` (`PreUpdate`) | an unreadable kept revision must not wedge every future prune; one with readable JSON and a missing metadata chunk does |
| `files`, `OrphansReclaimed` | orphaned chunks of a failed backup are said to be reclaimed; only chunks that a collected revision names are looked at |

Deploys and restores

| where | what happens |
|---|---|
| `queue`, `CoalescedPushIsPulled` | `webhooks.py`: "One deploy is already waiting; it will pull this push too." A run that gave up on the lock keeps the slot until its last line, and pushes in between are dropped (the history then says that a deploy was skipped) |
| `queue`, `OneQueuedRun` (`MaxPushes = 3`) | at most one queued run is kept; a run's clean-up frees the slot of the next run, and a further push queues a second one |
| `queue`, `OneQueuedClick` | `docs/production.md` says that a second click while one is queued is refused; two clicks before the first thread is on the list both queue |
| run `restore_retry` | `backup_ops.py`: "Old database dropped only after everything else succeeded." The first statement of a restore drops `{db}__old`, which after a death between the renames is the only copy |
| `productions`, `FailedRestoreUntouched` | `docs/production.md`: a failed restore leaves the previous state untouched; when the last DROP fails, the restored data is live and the restore is reported as failed |
| `productions`, `AlwaysServesCoherentPair` | if putting the old filestore back fails, Odoo is started without one |
| `productions`, `AlwaysSwapsWhileDown` | a container that Docker is restarting counts as not running and comes up in the middle |
| `productions`, `SnapshotMatchesData` | after a death between pull and upgrade the next deploy starts from the pulled commit: its migrations never run, and the snapshot records that commit |
| `productions`, `RolledBackIsOldCode` (`ResetFails`) | a worktree that cannot be reset is logged, and the deploy recorded as rolled back |
| `productions`, `DefaultRollbackGoesBack` | the default target started the latest deploy that moved forward; a rollback is such an entry, so a second default rollback goes forward |

Productions

| where | what happens |
|---|---|
| `productions`, `ResumesAll` | "on a mid-way failure re-running the same call resumes the convergence" (`reconfigure_production`): a rerun finds no change in the record and does nothing for the image, variables, extra add-ons and the repository; a worktree that exists keeps its old branch |
| `productions`, `OwnData`, `KeptUntilPurged` (`Sweepers = {"command"}`) | the purge of the command line takes no lock, and can purge a production registered again under the name |
| purge | it clears the tombstone of a production that is being deleted; a deletion whose DROP fails leaves a database nobody knows |
| delete | one whose container cannot be removed leaves a container that refuses the name for ever |

Environments

| where | what happens |
|---|---|
| `tenants`, `ReaperDeletesStopped` | `reaper.py` says the reaper never races agents; it deletes or stops an environment that was started or used during its sweep, after it was listed. `ReaperActsOnIdle` exempts those (`sweep.late`) |
| `update_environment` | one whose `containers.run` fails leaves no container; a creation of that name then silently drops its data (`stranded`) |
| rename | a registry that cannot be written after `ALTER DATABASE` reports the wrong place of the data |
| `api_modules_apply` | restarts the container without `mark_started` |
| delete, addresses (`bare`) | port, hostname and slot are released before the container is removed (`env_ops.py`): a container that survives has no reservation, and the "hard cap" of `hostname_registry.py` can be exceeded |
| recreate, addresses | releases slot and hostname before it reserves them again, so another may take them; with a hostname and the routing changed to ports it deletes and then refuses |
| update, addresses | the checks of hostname and port come after the container is gone |
| requested hostnames | equality with another environment's name is checked before it is recorded; a creation that fails between port and container leaks the port |
| run `identities_stayed` | `agent_uids.py`: a uid waits "until its checkout, attachments and HOME are actually gone"; a rename that cannot move the checkout leaves it under the old name, and a deletion forgets the uid |
| `tenants`, `NothingLeftBehind` (`Hazards`) | "unlocked": consoles heal a checkout without the environment's lock; "lost": a rename while the container is away; "kept": a rename after a deletion that failed once its uid was retired |
| `agent_uids.json` | has a lock between threads only; callers swallow failed writes |

Templates, services, builds, add-ons

| where | what happens |
|---|---|
| publication | a process killed while it publishes or imports a template leaves the new database with the old filestore and metadata (`docker_ops/system_ops.py`) |
| refresh | after an interrupted refresh and a restart of the host, Docker starts the environment on a bare directory (`stale`); Ctrl-C in `oduflow sync-template` skips the roll-back |
| `background`, `PresetIsCurrent` (`Slots = 2`) | the presets file is read and rewritten under no lock: two writers lose one |
| update of a service | a volume that it adds and that is deleted meanwhile: the running container is removed and none started; likewise when the pull inside the mutex fails after the removal |
| `background`, `OutcomeKept` | a lookup that read `job.json` before the build ended marks a finished build as interrupted |
| publication of a build | two to different destinations lose one in the record; images of cancelled and timed out builds are never pruned |
| `background`, `MountedIsThere` (`Overlap`) | a branch is removed while an update has its consumer's container away: the checkout goes |
| torn checkouts (`torn`) | a death in the middle of a checkout leaves half a checkout that is taken for a whole one, contrary to a comment of `extra_addons.py`; a death while a repository is deleted leaves part of it |

Startup

| where | what happens |
|---|---|
| `AppliedIsDone` exempts `torn` | the second migration has two places (the shared container recreated, a database moved and its container not) whose rerun does not look again |
| `upgrade`, `NothingLost` (`CommandsOverlap`) | a command that began before the upgrade, or that begins during one with settings that ask for none, writes after the dump; converting the shared lock is not atomic |
| upgrade | a stopped cluster that was started for its dump is left running by a death; two servers that start at once refuse each other |
| bundled files | a death between live file and baseline followed by a newer package leaves lines of the bundle that no later run removes, and, if a bundle brings a line back (excluded by `BundlesConstants`), may lose it; a sidecar that was refreshed after it was merged by hand accepts changes he has not seen (`seen`); an edit between the check and the write is lost; after `--force` the only copy is the one backup, which the next update overwrites |

Statements in no run's list that TLC finds true of the same instances:
`RevisionNumbersGrow` (with `PreUpdate` too), `FlagsSettled`,
`RolledBackIsOldCode`, `AccessIsInherited`, `UsesGrants`, and `Disciplined`, the
premise of `HandlersIsolated`, of the tables of `MCHandlers`.

## Inventory

State in brackets; then what is hard, and what makes it correct. `PROJECT.json`
says of each component which operations are modelled.

Locking and scheduling

- **LockManager** (`locking.py`) [dictionaries per process, lock files]:
  exclusion across threads and processes, no leak, every call returns.
- **Server, dashboard, CLI** (`server.py`, `web_ui.py`, `admin_ui.py`): entry
  points, which take the locks. Hard: more than a hundred operations with keys of
  their own. Correct: operations that interfere hold conflicting locks.
- **Deploy queue** (`webhooks.py`, `web_ui.py`) [`_pending`, waiters]: no push
  vanishes, no slot leaks.
- **Backup scheduler** (`backup_scheduler.py`) [`backup` of each production,
  `prod/backup_state.json`]: every minute a tick takes what is due. Hard: the
  cluster's state is read before and written whole after a base backup; retry
  budgets per slot. Its jobs are plans of `Tools`.
- **Reaper** (`reaper.py`, `activity.py`) [`activity.json`]: decides at the
  start of a sweep and acts later. Correct: nothing in use is stopped, what is
  abandoned goes.
- **PostgreSQL upgrade** (`instance_lock.py`, `postgres_migration.py`)
  [`server.lock`, a journal]: replaces both clusters; a crash in any phase.
- **Startup** (`migrations.py`, `bundled_upgrade.py`, `startup_watchdog.py`,
  `self_update.py`) [ledger, baselines]: one-shot steps that a crash may repeat;
  three-way reconciliation; a heartbeat.

Productions

- **Deploy and rollback**, **restore**, **life cycle** (`docker_ops/production_ops.py`,
  `backup_ops.py`, `production_registry.py`, `stack_production.py`)
  [`productions.json`, databases, worktrees, container, tombstones]: one step of
  several fails, the server dies in the middle, a purge is late.
- **Snapshots and retention** (`backup_ops.py`, `chunkstore/`,
  `s3_client.py`) [objects of a bucket]: retention against snapshots.
- **WAL guard** (`wal_monitor.py`) [guard and fence on disk, samples in
  memory]: stops productions before the WAL fills the disk. Hard: the state cannot
  be saved on a full disk, a crash between fence and start.
- **WAL-G and point-in-time restore** (`walg.py`, `backup_ops.py`) [data
  volumes, archive]: the whole cluster is replaced under the system lock.

Environments

- **Lifecycle** (`docker_ops/env_ops.py`, `docker_ops/odoo_ops.py`)
  [container, database, checkout, overlay, an entry in each registry]: the
  places are changed one by one and any step may fail; a rename needs two
  locks. Correct: what lies under a name was born together.
- **Registries** (`port_registry.py`, `hostname_registry.py`, `agent_uids.py`,
  `env_tokens.py`, `env_share.py`) [a JSON file with a lock each]: ports in
  use are collected before the lock is taken; reservations count towards a cap; a
  uid is never used again.
- **Templates** (`template_generations.py`, `template_sync.py`,
  `template_import.py`) [generations, pins, recovery and pending markers]:
  a new generation under environments that use the old one.
- **Extra addons** (`extra_addons.py`, `oca_import.py`) [clones, shared
  checkouts]: removal against containers that will mount.
- **Services, volumes, image builds** (`docker_ops/service_ops.py`,
  `docker_ops/volume_ops.py`, `image_builds.py`, `docker_ops/build_ops.py`)
  [containers, presets, jobs]: replacement against deletion and retention; a
  build can be cancelled at any time.
- **Stacks** (`stack_ops.py`) [labels, fingerprints]: a plan applied under
  the team lock.

Credentials and configuration

- **OAuth tokens** (`oauth_token_store.py`) [a file, a cache per process]: an
  access token is answered from a cache another process made stale.
- **One-time credentials** (`connect_tokens.py`, `artifact_tokens.py`,
  `ui_totp.py`, `import_tokens.py`): at most one use.
- **Secrets and configuration** (`secret_store.py`, `config_store.py`,
  `settings.py`) [files with history].

How they interact: the tools and routes call the components under
`LockManager`; the scheduler, the reaper, the WAL monitor and webhook threads
call the same components from threads of their own under the same locks; the
registries and state files are shared with cron jobs and the CLI, under an
flock each; Docker, PostgreSQL and S3 hold everything else.

## Not modelled

- The WAL guard, WAL-G and the point-in-time restore: what matters there is what
  PostgreSQL and wal-g do with a data directory, and rates of WAL and free disk;
  a model would have to invent it.
- The backup scheduler's decisions: due slots and retry budgets are arithmetic on
  the clock. The overwritten state file is a listed hazard.
- OAuth tokens: a cache over one file whose staleness is by design; one-time
  credentials and configuration: one read-modify-write of a file under one lock
  each. (Changes of secrets are a footprint.)
- The chunker and codec, text tools, module versions, change classification,
  manifests of stacks: functions of bytes or text, without state.
- Scoped access: decisions per request, without state.
- Network, Traefik, tuning and quotas (`docker_ops/system_ops.py` in part,
  `pg_tune.py`, `resource_plan.py`, `quotas.py`): idempotent set-up and arithmetic;
  what they change is a footprint each (`SystemInitialized`, `SystemDestroyed`,
  `PostgresRetuned`).
- The agent container's sessions and uploads, licences, telemetry, health,
  branding, watchdog and self-update: calls to other programs and look-ups.
- Within modelled components: ordinary re-imports of templates and environments
  that copy a filestore (`Generations` has overlays only), legacy environments
  without an entry in the registries (`Addresses`), local add-on repositories and
  productions' worktrees (`ExtraAddons`), logs and ownership of builds, two
  reconciliations of bundled files at once, disk-space checks of the upgrade.
