-------------------------------- MODULE MCFocus --------------------------------
(* Instances of the components that share no state, checked in one run: the  *)
(* first state chooses which of them moves, and the others stay where they   *)
(* begin.                                                                    *)
EXTENDS Migrations, ImageBuilds, TLC

CONSTANTS
    Boxes, Nothing, MaxBackups, MaxCopies, MaxMishaps, MaxReboots,
    Names, Nobody, None, Slots, MaxVersions, MaxFailures,
    Branches, Consumers, Overlap, MaxCommits

VARIABLES
    focus,
    remote, queued, asked, live, copies, db, deltas, lower, pin, snap, on, opted, note,
    newDb, newUp, stage, inbox, gen, moving, stale, mishaps, reboots,
    unit, presets, disk, tag, at, cfg, fresh, draft, mutex, versions, failures,
    tip, repo, refs, specs, wildcard, onDemand, cache, recent, box, step, goal, holder, task,
    pinned, removed, cut, addonFailures

Template == INSTANCE Generations
Service == INSTANCE Services
Addons == INSTANCE ExtraAddons
              WITH at <- step, lock <- holder, torn <- cut, failures <- addonFailures

genVars == <<remote, queued, asked, live, copies, db, deltas, lower, pin, snap, on, opted, note,
             newDb, newUp, stage, inbox, gen, moving, stale, mishaps, reboots>>
svcVars == <<unit, presets, disk, tag, at, cfg, fresh, draft, mutex, versions, failures>>
addonVars == <<tip, repo, refs, specs, wildcard, onDemand, cache, recent, box, step, goal, holder,
               task, pinned, removed, cut, addonFailures>>

ASSUME FocusConstants ==
    MigConstants /\ Template!GenConstants /\ Service!SvcConstants /\ Addons!AddonsConstants

Begun ==
    /\ MigInit /\ (focus # "migrations" => ledger = 5 /\ teams)
    /\ Template!GenInit /\ (focus # "templates" => opted = {} /\ \A e \in Boxes : ~on[e])
    /\ Service!SvcInit /\ BuildInit
    /\ Addons!AddonsInit /\ (focus # "addons" => wildcard)

FocusInit == focus \in {"migrations", "templates", "services", "builds", "addons"} /\ Begun

(* All but one of the components stand still.                                *)
FocusNext ==
    /\ UNCHANGED focus
    /\ \/ focus = "migrations" /\ MigNext
       \/ focus # "migrations" /\ UNCHANGED migVars
    /\ \/ focus = "templates" /\ Template!GenNext
       \/ focus # "templates" /\ UNCHANGED genVars
    /\ \/ focus = "services" /\ Service!SvcNext
       \/ focus # "services" /\ UNCHANGED svcVars
    /\ \/ focus = "builds" /\ BuildNext
       \/ focus # "builds" /\ UNCHANGED buildVars
    /\ \/ focus = "addons" /\ Addons!AddonsNext
       \/ focus # "addons" /\ UNCHANGED addonVars

FocusSpec ==
    FocusInit /\ [][FocusNext]_<<focus, migVars, genVars, svcVars, buildVars, addonVars>>

-----------------------------------------------------------------------------
(* Environments of a template are alike, and so are an add-on's branches.     *)
Alike == Permutations(Boxes) \cup Permutations(Branches)

(* Each component's variables have their types.                              *)
FocusTypeOK ==
    /\ focus = "migrations" => MigTypeOK
    /\ focus = "templates" => Template!GenTypeOK
    /\ focus = "services" => Service!SvcTypeOK
    /\ focus = "builds" => BuildTypeOK
    /\ focus = "addons" => Addons!AddonsTypeOK

(* Generations.tla: no container runs on half of two data sets.              *)
ServesOnePiece == focus = "templates" => Template!ServesOnePiece

(* Generations.tla: an interrupted refresh can be put back as a whole.       *)
Recoverable == focus = "templates" => Template!Recoverable

(* Generations.tla: a request for new data is not forgotten.                 *)
RequestKept == focus = "templates" => Template!RequestKept

(* Services.tla: nothing a service runs from, or is about to, is taken.      *)
UsesWhatExists == focus = "services" => Service!UsesWhatExists

(* Services.tla: a team has no more services than slots.                     *)
WithinSlots == focus = "services" => Service!WithinSlots

(* ExtraAddons.tla: what a container mounts is a whole checkout.             *)
MountedIsThere == focus = "addons" => Addons!MountedIsThere

(* ExtraAddons.tla: a removed branch comes back only when it is asked for.   *)
RemovedStaysRemoved == focus = "addons" => Addons!RemovedStaysRemoved
=============================================================================
