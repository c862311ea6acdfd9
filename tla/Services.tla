------------------------------- MODULE Services --------------------------------
(* Services of a team (docker_ops/service_ops.py), their volumes            *)
(* (volume_ops.py), their saved presets (service_presets.py), and the        *)
(* retention of staging images (build_ops.py) that services run from.        *)
(*                                                                           *)
(* Operations on one service exclude each other by its key. Between services *)
(* only the team's registry mutex does: around admission and the start of a  *)
(* container, a replacement, the deletion of a volume, and retention. The    *)
(* file of all presets is read and rewritten under no lock of its own.       *)
(*                                                                           *)
(* One volume and one staging tag stand for all; a configuration is the      *)
(* image, whether the volume is mounted, and a version of the rest.          *)
(* Definitions marked "Fault:" are plausible bugs no action uses.            *)
EXTENDS Naturals, FiniteSets

CONSTANTS
    Names,         \* the services a team knows
    Nobody, None,
    Slots,         \* service_slots
    MaxVersions,   \* bound: configurations asked for
    MaxFailures    \* bound: pulls and starts that fail, deaths of the server

SvcConstants ==
    /\ IsFiniteSet(Names) /\ Names \cap {Nobody, None, "volume", "retention"} = {}
    /\ Nobody \notin {"volume", "retention"}
    /\ None \notin [image : {"hub", "staged"}, volume : BOOLEAN, version : 1..MaxVersions]
    /\ Slots \in Nat \ {0} /\ {MaxVersions, MaxFailures} \subseteq Nat

VARIABLES
    unit,          \* each service's container: its configuration, or None
    presets,       \* service_presets.json
    disk,          \* the volume: "none", "managed", or "stray", made by Docker itself
    tag,           \* the staging image: "none", "there"
    at, cfg,       \* where the operation on each service is; the configuration it works with
    fresh,         \* services being created, not replaced
    draft,         \* what a writer of presets has read
    mutex,         \* the registry mutex: a service's operation, "volume", "retention", Nobody
    versions, failures

svcVars == <<unit, presets, disk, tag, at, cfg, fresh, draft, mutex, versions, failures>>

Configs == [image : {"hub", "staged"}, volume : BOOLEAN, version : 1..MaxVersions]
Files == [Names -> Configs \cup {None}]

SvcTypeOK ==
    /\ unit \in Files /\ presets \in Files
    /\ disk \in {"none", "managed", "stray"} /\ tag \in {"none", "there"}
    /\ at \in [Names -> {"idle", "pull", "enter", "remove", "start", "save", "write", "forget"}]
    /\ cfg \in Files /\ fresh \subseteq Names
    /\ draft \in [Names -> Files \cup {None}]
    /\ mutex \in Names \cup {"volume", "retention", Nobody}
    /\ versions \in 0..MaxVersions /\ failures \in 0..MaxFailures

SvcInit ==
    /\ unit = [s \in Names |-> None] /\ presets = unit
    /\ disk = "none" /\ tag = "none"
    /\ at = [s \in Names |-> "idle"] /\ cfg = unit /\ fresh = {}
    /\ draft = [s \in Names |-> None] /\ mutex = Nobody
    /\ versions = 0 /\ failures = 0

-----------------------------------------------------------------------------
Move(s, place) == at' = [at EXCEPT ![s] = place]
Works(s, c, new) == cfg' = [cfg EXCEPT ![s] = c] /\ fresh' = IF new THEN fresh \cup {s} ELSE fresh \ {s}
Lasting == <<unit, presets, disk, tag>>
Fails == failures < MaxFailures /\ failures' = failures + 1
Here(image) == image = "staged" => tag = "there"          \* _pull_service_image, staging
Mountable(c) == c.volume => disk # "none"                 \* resolve_volume_binds
HasSlot == Cardinality({s \in Names : unit[s] # None}) < Slots

(* The caller's operation ends, in whichever way.                            *)
Release(s) ==
    /\ at' = [at EXCEPT ![s] = "idle"] /\ cfg' = [cfg EXCEPT ![s] = None]
    /\ fresh' = fresh \ {s} /\ draft' = [draft EXCEPT ![s] = None]
    /\ mutex' = IF mutex = s THEN Nobody ELSE mutex

-----------------------------------------------------------------------------
(* create_service and update_service.                                        *)

(* A new service; a restored one takes its preset's configuration.           *)
BeginCreate(s) ==
    /\ at[s] = "idle" /\ unit[s] = None /\ HasSlot
    /\ \/ /\ versions < MaxVersions /\ versions' = versions + 1
          /\ \E image \in {"hub", "staged"}, v \in BOOLEAN :
               Works(s, [image |-> image, volume |-> v, version |-> versions + 1], TRUE)
       \/ /\ presets[s] # None /\ Works(s, presets[s], TRUE)
          /\ UNCHANGED versions
    /\ Mountable(cfg'[s])
    /\ Move(s, "pull")
    /\ UNCHANGED <<Lasting, draft, mutex, failures>>

(* _effective_service_config: the preset, or what the container shows.       *)
Current(s) == IF presets[s] # None THEN presets[s] ELSE unit[s]

(* One setting is overridden, the others stay as they are.                   *)
BeginUpdate(s) ==
    /\ at[s] = "idle" /\ unit[s] # None /\ versions < MaxVersions
    /\ \E image \in {"hub", "staged"}, v \in BOOLEAN :
         LET c == [Current(s) EXCEPT !.image = image, !.volume = v] IN
           \/ Works(s, [c EXCEPT !.version = versions + 1], FALSE) /\ versions' = versions + 1
           \/ c # Current(s) /\ Works(s, c, FALSE) /\ UNCHANGED versions
    /\ Mountable(cfg'[s])
    /\ Move(s, "pull")
    /\ UNCHANGED <<Lasting, draft, mutex, failures>>

Pull(s) ==
    /\ at[s] = "pull"
    /\ \/ Here(cfg[s].image) /\ Move(s, "enter") /\ UNCHANGED <<cfg, fresh, draft, mutex, failures>>
       \/ (Fails \/ (~Here(cfg[s].image) /\ UNCHANGED failures)) /\ Release(s)
    /\ UNCHANGED <<Lasting, versions>>

(* Staging images are looked up again inside.                                *)
EnterRegistry(s) ==
    /\ at[s] = "enter" /\ mutex = Nobody
    /\ IF Here(cfg[s].image)
         THEN /\ mutex' = s /\ Move(s, IF s \in fresh THEN "start" ELSE "remove")
              /\ UNCHANGED <<cfg, fresh, draft>>
         ELSE Release(s)
    /\ UNCHANGED <<Lasting, versions, failures>>

(* Fault: the registry is free while the old container is gone.              *)
GivenUp(s) == Nobody

HeldOver(s) == mutex

RemoveOld(s) ==
    /\ at[s] = "remove"
    /\ unit' = [unit EXCEPT ![s] = None]
    /\ Move(s, "start") /\ mutex' = HeldOver(s)
    /\ UNCHANGED <<presets, disk, tag, cfg, fresh, draft, versions, failures>>

(* Fault: the slot was there when the request came.                          *)
AdmittedBefore == TRUE

Admitted == HasSlot

(* Admission and binds are read and used with nothing in between; Docker     *)
(* makes a volume it does not know. The container of a failed start goes.    *)
StartContainer(s) ==
    /\ at[s] = "start"
    /\ IF ~(Admitted /\ Mountable(cfg[s]))
         THEN Release(s) /\ UNCHANGED <<unit, disk, failures>>
         ELSE \/ /\ unit' = [unit EXCEPT ![s] = cfg[s]]
                 /\ disk' = IF cfg[s].volume /\ disk = "none" THEN "stray" ELSE disk
                 /\ Move(s, "save")
                 /\ mutex' = IF s \in fresh /\ mutex = s THEN Nobody ELSE mutex
                 /\ UNCHANGED <<cfg, fresh, draft, failures>>
              \/ Fails /\ Release(s) /\ UNCHANGED <<unit, disk>>
    /\ UNCHANGED <<presets, tag, versions>>

(* save_preset: read all, change one, write all.                             *)
ReadPresets(s) ==
    /\ at[s] \in {"save", "forget"}
    /\ draft' = [draft EXCEPT ![s] = [presets EXCEPT ![s] = cfg[s]]]
    /\ Move(s, "write")
    /\ UNCHANGED <<Lasting, cfg, fresh, mutex, versions, failures>>

WritePresets(s) ==
    /\ at[s] = "write"
    /\ \/ presets' = draft[s] /\ UNCHANGED failures
       \/ Fails /\ UNCHANGED presets
    /\ Release(s)
    /\ UNCHANGED <<unit, disk, tag, versions>>

(* delete_service; its preset goes too if the caller says so.                *)
Delete(s) ==
    /\ at[s] = "idle" /\ unit[s] # None
    /\ unit' = [unit EXCEPT ![s] = None]
    /\ Works(s, None, FALSE)
    /\ Move(s, "idle") \/ (presets[s] # None /\ Move(s, "forget"))
    /\ UNCHANGED <<presets, disk, tag, draft, mutex, versions, failures>>

(* The server dies: its operations and mutexes are gone.                     *)
ServerDies ==
    /\ \E s \in Names : at[s] # "idle"
    /\ Fails
    /\ at' = [s \in Names |-> "idle"] /\ cfg' = [s \in Names |-> None] /\ fresh' = {}
    /\ draft' = [s \in Names |-> None] /\ mutex' = Nobody
    /\ UNCHANGED <<Lasting, versions>>

-----------------------------------------------------------------------------
(* Volumes and staging images.                                               *)
Elsewhere == UNCHANGED <<unit, presets, at, cfg, fresh, draft, versions, failures>>
Mounted == \E s \in Names : unit[s] # None /\ unit[s].volume       \* _find_all_volume_usage
RunsStaged == \E s \in Names : unit[s] # None /\ unit[s].image = "staged"

CreateVolume ==
    /\ disk = "none" /\ disk' = "managed"
    /\ Elsewhere /\ UNCHANGED <<tag, mutex>>

(* Usage is read under the mutex, in which the removal follows.              *)
ReadUsage ==
    /\ disk = "managed" /\ mutex = Nobody /\ ~Mounted
    /\ mutex' = "volume" /\ Elsewhere /\ UNCHANGED <<disk, tag>>

RemoveVolume ==
    /\ mutex = "volume"
    /\ disk' = IF Mounted THEN disk ELSE "none"
    /\ mutex' = Nobody /\ Elsewhere /\ UNCHANGED tag

StageImage ==
    /\ tag = "none" /\ tag' = "there"
    /\ Elsewhere /\ UNCHANGED <<disk, mutex>>

(* _prune_staging_images: no container is of this reference.                 *)
FindUnused ==
    /\ tag = "there" /\ mutex = Nobody /\ ~RunsStaged
    /\ mutex' = "retention" /\ Elsewhere /\ UNCHANGED <<disk, tag>>

PruneImage ==
    /\ mutex = "retention"
    /\ tag' = "none" /\ mutex' = Nobody
    /\ Elsewhere /\ UNCHANGED disk

SvcNext ==
    \/ \E s \in Names :
         \/ BeginCreate(s) \/ BeginUpdate(s) \/ Pull(s) \/ EnterRegistry(s) \/ RemoveOld(s)
         \/ StartContainer(s) \/ ReadPresets(s) \/ WritePresets(s) \/ Delete(s)
    \/ ServerDies \/ CreateVolume \/ ReadUsage \/ RemoveVolume
    \/ StageImage \/ FindUnused \/ PruneImage
SvcSpec == SvcInit /\ [][SvcNext]_svcVars

-----------------------------------------------------------------------------
(* No deletion or retention takes what a service runs from or is about to:   *)
(* its volume was made by the team, never by Docker in place of one that was *)
(* deleted, and its staging image is there, also for a container that was    *)
(* removed to be replaced (comments in create_service and update_service).   *)
(* A volume that an update adds is not held that way: README.                *)
UsesWhatExists ==
    /\ disk # "stray"
    /\ \A s \in Names :
         /\ unit[s] # None => Here(unit[s].image) /\ Mountable(unit[s])
         /\ at[s] = "start" => Here(cfg[s].image)

(* Two creations at once do not overshoot the team's slots, and an update    *)
(* whose container is away for a moment does not lose its slot.              *)
WithinSlots ==
    /\ Cardinality({s \in Names : unit[s] # None}) <= Slots
    /\ \A s \in Names : at[s] = "start" /\ s \notin fresh => HasSlot

(* What a later update keeps of a service is what the service runs with      *)
(* ("the saved preset is authoritative", _effective_service_config). Two     *)
(* writers of the one file break it: README.                                 *)
PresetIsCurrent ==
    \A s \in Names : at[s] = "idle" /\ unit[s] # None /\ presets[s] # None /\ failures = 0 =>
                        presets[s] = unit[s]

=============================================================================
