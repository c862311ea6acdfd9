---------------------------- MODULE EnvFootprints ----------------------------
(***************************************************************************)
(* env_ops and odoo_ops: what the functions that work on environments read *)
(* and change, in which order.  The locks are taken by the entry points.   *)
(*                                                                         *)
(* A function that undoes its work when a step fails touches, in doing so, *)
(* only what the phases before changed.                                    *)
(***************************************************************************)
EXTENDS Phases

Environment(n) == {Box(n), Data(n), Code(n)}

-----------------------------------------------------------------------------
(* odoo_ops: inside an environment.                                        *)
TestsRun(n)       == Does({Box(n), Code(n)}, {Data(n)})
ModulesApplied(n) == Does({Box(n), Code(n)}, {Data(n)})
CommandRun(n)     == Does({Box(n)}, {Code(n), Data(n)})
FileWritten(n)    == Does({Box(n)}, {Code(n)})
PasswordReset(n)  == Does({Box(n)}, {Data(n)})
QueryRun(n)       == Changes({Data(n)})
ShellRun(n)       == Does({Box(n), Code(n)}, {Data(n)})
ConnectedAs(n)    == Does({Box(n)}, {Data(n)})
TranslationsExported(n) == Does({Box(n), Data(n)}, {}) \o Changes({Code(n)})
TranslationsCompared(n) == Reads({Box(n), Data(n), Code(n)})

-----------------------------------------------------------------------------
(* The parts that creating, updating and pulling are made of.              *)

BoxChanged(n)       == Changes({Box(n)}) \* stopped, started, restarted, removed
RepositoryCloned(n) == Changes({Code(n)})

(* origin lacks the branch: it is started from its base, and pushed.       *)
BranchStarted(n)    == Changes({Code(n)}) \o Reads({Code(n)})
CodeCompared(n, t)  == Reads({Code(n), Template(t)}) \* _template_code_lineage

(* The clone, whose objects then become the environment's role's own.      *)
OwnershipPassed(n)   == Changes({Data(n)})
DatabaseCloned(n, t) == Does({Template(t)}, {Data(n)}) \o OwnershipPassed(n)

(* An empty database is filled before its serving container exists.        *)
DatabaseInitialised(n) == Does({Code(n)}, {Data(n)})
UpgradesSought(n)      == Reads({Code(n), Data(n)})
FilestoreMounted(n, t) == Does({Template(t)}, {Data(n)})
BoxRun(n)              == Does({Code(n), Data(n)}, {Box(n)})
DependenciesInstalled(n)   == Does({Code(n)}, {Box(n)})
TemplateModulesUpgraded(n) == Does({Box(n), Code(n)}, {Data(n)})
ModulesAutoInstalled(n)    == Does({Box(n), Code(n)}, {Data(n)})
BecameReady(n)         == Reads({Box(n), Data(n)})
Neutralized(n)         == Does({Box(n)}, {Data(n)})
Sanitized(n)           == Does({Box(n), Code(n)}, {Data(n)}) \* the scripts of team and project
ConfCopied(n)          == Does({Code(n)}, {Box(n)})

(* One restart picks up the conf and the packages; then the upgrades, the  *)
(* gate, the modules asked for, the sanitizer and, after it, the reload.   *)
ServingConfigured(n) ==
    ConfCopied(n) \o DependenciesInstalled(n) \o BoxChanged(n)
      \o TemplateModulesUpgraded(n) \o BoxChanged(n) \o BecameReady(n)
      \o ModulesAutoInstalled(n) \o Neutralized(n) \o Sanitized(n) \o BoxChanged(n)
      \o BecameReady(n)

(* What a failed create leaves, before it is tried again.                  *)
LeftoversCleaned(n) == Changes(Environment(n))

-----------------------------------------------------------------------------
(* env_ops: the operations on environments.                                *)

EnvCreated(n, t) ==
    LeftoversCleaned(n) \o BranchStarted(n) \o CodeCompared(n, t) \o DatabaseCloned(n, t)
      \o UpgradesSought(n) \o FilestoreMounted(n, t) \o BoxRun(n) \o ServingConfigured(n)
EnvCreatedEmpty(n) ==
    LeftoversCleaned(n) \o RepositoryCloned(n) \o Changes({Data(n)})
      \o DatabaseInitialised(n) \o BoxRun(n) \o ServingConfigured(n)

(* The environment is there, on the branch asked for: it is started.       *)
EnvAdopted(n)   == Reads({Code(n)}) \o BoxChanged(n)

EnvDeleted(n)   == BoxChanged(n) \o Changes({Data(n)}) \o Changes({Code(n)})
EnvRecreated(n, t) == EnvDeleted(n) \o EnvCreated(n, t)

(* A renamed environment's database, checkout and filestore move to m.     *)
Relocated(n, m) == Changes({Data(n), Code(n), Data(m), Code(m)})
FilestoreRemounted(m) == Changes({Data(m)})
BoxRunAgain(m)  == Does({Code(m), Data(m)}, {Box(m)})
ConfReapplied(n) == Changes({Code(n), Box(n)}) \* merged in the workspace, then copied
EnvUpdated(n, m) ==
    Reads({Box(n)}) \o BoxChanged(n) \o Relocated(n, m) \o FilestoreRemounted(m)
      \o BoxRunAgain(m) \o ConfReapplied(m) \o DependenciesInstalled(m) \o BoxChanged(m)

(* The commits pulled are narrowed to the modules that are installed.      *)
CodePulled(n)   == Changes({Code(n)})
PlanNarrowed(n) == Reads({Code(n), Data(n)})
ActionsApplied(n) ==
    DependenciesInstalled(n) \o ModulesApplied(n) \o ConfReapplied(n) \o BoxChanged(n)
EnvPulled(n)    ==
    CodePulled(n) \o PlanNarrowed(n) \o EnvUpdated(n, n) \o ActionsApplied(n)

(* The branch is fetched, the environment made anew, perhaps renamed, and  *)
(* only then checked out; what the checkout changed is applied as a pull.  *)
BranchSwitched(n, m) ==
    Changes({Code(n)}) \o EnvUpdated(n, m) \o CodePulled(m) \o PlanNarrowed(m)
      \o ActionsApplied(m)
=============================================================================
