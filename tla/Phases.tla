------------------------------- MODULE Phases -------------------------------
(***************************************************************************)
(* The language the tables of oduflow's operations are written in.  A      *)
(* phase is a stretch of code: the locks held in it, whether its thread    *)
(* waited for the last of them ("no": BusyError, "deadline": polls until   *)
(* a deadline, "forever": a mutex or an flock), the resources it reads and *)
(* those it changes.                                                       *)
(*                                                                         *)
(* A resource is <<kind, name>>.  Resources whose every change is one      *)
(* short read-modify-write inside the registry's own mutex (activity,      *)
(* tokens, ports, hostnames, the production registry) are not listed: such *)
(* a change is a single step of the modules that are about them.           *)
(***************************************************************************)
EXTENDS Sequences, FiniteSets

CONSTANTS Team,     \* the team of every plan, as the lock of that name
          Unscoped, \* the team_id of a key that belongs to no team
          Envs      \* the environments of the team

Does(r, w) == <<[holds |-> {}, waits |-> "no", reads |-> r, writes |-> w]>>
Changes(w) == Does({}, w)
Reads(r) == Does(r, {})

(* with lock: body -- taken, held throughout, given back.                  *)
Holding(g, how, body) ==
    <<[holds |-> {g}, waits |-> how, reads |-> {}, writes |-> {}]>>
      \o [i \in DOMAIN body |-> [body[i] EXCEPT !.holds = body[i].holds \cup {g}]]
      \o <<[holds |-> {}, waits |-> "no", reads |-> {}, writes |-> {}]>>

With(g, body)     == Holding(g, "no", body)
Awaiting(g, body) == Holding(g, "deadline", body)
Inside(g, body)   == Holding(g, "forever", body)

Key(kind, name) == [lock |-> <<kind, name>>, team |-> Unscoped]

(* The locks of locking.py and the keys of its *_lock_key functions.       *)
EnvLock(n)        == [lock |-> <<"env", n>>, team |-> Team]
TeamLock          == [lock |-> Team, team |-> Unscoped]
SystemLock        == [lock |-> <<"system", "all">>, team |-> Unscoped]
ProdLock(p)       == Key("prod", p)
BackupsLock       == Key("prod-backups", "team")
TemplateLock(t)   == Key("tpl", t)
ServiceLock(s)    == Key("svc", s)
DatabaseLock(d)   == Key("svcdb", d)
VolumeLock(v)     == Key("vol", v)
PresetLock        == Key("svcpreset", "team")
CredentialsLock   == Key("creds", "team")
PublishLock(dest) == Key("imgpublish", dest)
ImagesLock        == Key("images", "cleanup")

(* keyed_mutex and the module-level locks: one per process, `in'.          *)
Mutex(in, name) == Key(in, name)

(* What the operations work on.                                            *)
Box(n)      == <<"container", n>>       \* the environment's Odoo container
Data(n)     == <<"database", n>>        \* its database and filestore
Code(n)     == <<"workspace", n>>       \* its checkout
Template(t) == <<"template", t>>        \* template database, filestore, metadata
Incoming(t) == <<"incoming", t>>        \* a template that does not exist yet
Metadata(t) == <<"metadata", t>>        \* the editable fields of metadata.json
Sync(t)     == <<"template_sync", t>>   \* its synchronisation settings and job
Staging(t)  == <<"staging", t>>         \* files uploaded for an import
Prod(p)     == <<"production", p>>      \* container, database, filestore, checkout
Chunks      == <<"chunks", "store">>    \* the team's snapshots and their chunks
Cluster     == <<"cluster", "prod">>    \* the production PostgreSQL cluster
Service(s)  == <<"service", s>>         \* its container and labels
Slots       == <<"slots", "team">>      \* the number of services the team runs
Volume(v)   == <<"volume", v>>
Files(v)    == <<"files", v>>
Database(d) == <<"servicedb", d>>
Catalogue   == <<"servicedbs", "team">> \* the credentials file and the quota
Protection  == <<"protected", "team">>  \* the set of protected services
Credentials == <<"credentials", "team">>
Image(d)    == <<"image", d>>           \* a published tag
Staged      == <<"staged", "build">>    \* the local image of a finished build

(* Every environment of the team: a template operation remounts them.      *)
AllBoxes == {Box(n) : n \in Envs}
=============================================================================
