----------------------------- MODULE Footprints -----------------------------
(***************************************************************************)
(* What the functions behind the entry points read and change, in which    *)
(* order and under which mutexes of their own.  The locks of LockManager   *)
(* are taken by the entry points (Tools, Routes).                          *)
(*                                                                         *)
(* A function that undoes its work when a step fails touches, in doing so, *)
(* only what the phases before changed.  `in' is the process it runs in:   *)
(* keyed_mutex and the RLock of an extra repository exclude the threads of *)
(* one process only.                                                       *)
(***************************************************************************)
EXTENDS TemplateFootprints

-----------------------------------------------------------------------------
(* production_ops and backup_ops.                                          *)

ProdChanged(p)        == Changes({Prod(p)})
McpTakenOver(p)       == Changes({Prod(p)}) \* onto its own copy of odumcp
ProdConfSet(p)        == Reads({Prod(p)}) \o Changes({Prod(p)}) \o Changes({Prod(p)})
ProdCreatedFrom(p, n) == Does({Data(n), Code(n)}, {Prod(p)})

Snapshotted(p)         == Does({Prod(p)}, {Chunks})

(* A deploy takes a snapshot first, where backups are configured.          *)
ProdUpdated(p)         == ProdChanged(p) \o McpTakenOver(p)
ProdDeployed(p, backup) == (IF backup THEN Snapshotted(p) ELSE <<>>) \o ProdUpdated(p)
Restored(p)            == Does({Chunks}, {Prod(p)})
RestoredFrom(p, n)     == Does({Data(n)}, {Prod(p)})
BackupsPruned          == Changes({Chunks})
BaseBackedUp           == Reads({Cluster})
ClusterRestored(ps)    == Changes({Cluster} \cup {Prod(p) : p \in ps})
WalControlled(ps)      == Changes({Cluster} \cup {Prod(p) : p \in ps})

-----------------------------------------------------------------------------
(* system_ops and server: what the whole host shares -- networks, Traefik, *)
(* the PostgreSQL containers and their configuration.                      *)

Infrastructure == <<"infrastructure", "host">>

ProductionsReconciled(ps) == Changes({Prod(p) : p \in ps})
SystemInitialized(ps) == Changes({Infrastructure, Cluster}) \o ProductionsReconciled(ps)

(* Refused while environments, services or productions exist.              *)
SystemDestroyed(ns, ts, ps) ==
    Reads({Box(n) : n \in ns} \cup {Prod(p) : p \in ps})
      \o Changes({Infrastructure, Cluster} \cup {Data(n) : n \in ns}
                    \cup {Template(t) : t \in ts})
PostgresRetuned(ps) ==
    Reads({Prod(p) : p \in ps}) \o Changes({Infrastructure})
      \o Changes({Prod(p) : p \in ps})

-----------------------------------------------------------------------------
(* service_ops, service_presets, volume_ops, service_database_ops.         *)

(* Fault: the container is started outside the registry mutex.             *)
ContainerRunUnchecked(in, s, v) == Does({Volume(v), Staged}, {Service(s), Slots})

(* The slot and the mounts are looked at again under the registry mutex,   *)
(* in which the container is started.                                      *)
ContainerRun(in, s, v) ==
    Inside(Mutex(in, "svc-registry"), Does({Volume(v), Staged}, {Service(s), Slots}))

ServiceCreated(in, s, v)  == ContainerRun(in, s, v) \o Changes({<<"preset", s>>})
ServiceUpdated(in, s, v) ==
    Inside(Mutex(in, "svc-registry"),
           Changes({Service(s)}) \o Does({Volume(v), Staged}, {Service(s), Slots})
             \o Changes({<<"preset", s>>}))
ServiceRestarted(s)       == Changes({Service(s)})
ServiceDeleted(s)         == Changes({Service(s)}) \o Changes({<<"preset", s>>})
ProtectionSet(in, s) == Inside(Mutex(in, "svc-registry"), Changes({Protection}))
ServiceCommandRun(s)      == Reads({Service(s)})
PresetDeleted(s)          == Changes({<<"preset", s>>})

VolumeCreated(v)          == Changes({<<"new volume", v>>}) \* one call of Docker
VolumeDeleted(in, v) ==
    Inside(Mutex(in, "svc-registry"), Changes({Volume(v), Files(v)}))
VolumeFileChanged(v)      == Changes({Files(v)})

DatabaseCreated(in, d) ==
    Inside(Mutex(in, "svcdb-registry"), Changes({Database(d), Catalogue}))
DatabaseLooked(d)         == Reads({Database(d)})
DatabaseChanged(d)        == Changes({Database(d)})

-----------------------------------------------------------------------------
(* git_ops, extra_addons, build_ops.                                       *)

CredentialStored    == Changes({Credentials}) \o Reads({Credentials})
CredentialsChanged  == Changes({Credentials})

(* Each changes the bare repository r under its RLock.                     *)
RepoChanged(in, r)  == Inside(Mutex(in, r), Changes({<<"repo", r>>}))

(* A build works on a copy of the checkout made under the environment's    *)
(* lock; the build itself runs in a thread of its own, under no lock.      *)
BuildStarted(n) == Reads({Code(n)})

BuildsPruned(in) ==
    Inside(Mutex(in, "imgbuild"), Inside(Mutex(in, "svc-registry"), Changes({Staged})))
ImagePublished(in, d) == Inside(Mutex(in, "imgbuild"), Does({Staged}, {Image(d)}))
ImagesCleaned         == Changes({<<"unused images", "host">>})
=============================================================================
