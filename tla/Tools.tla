------------------------------- MODULE Tools --------------------------------
(***************************************************************************)
(* The entry points of server.py: MCP tools, CLI commands, and the         *)
(* background jobs, as the locks they take and the functions they call     *)
(* under them.  Tools that only show something, and those that talk to a   *)
(* running Odoo as its users do (odoo_*, read_file_in_odoo, ...), take no  *)
(* lock and are not listed.                                                *)
(***************************************************************************)
EXTENDS Footprints

(* with_env_lock and with_prod_lock: refused at once if busy.              *)
OnEnv(n, body)  == With(EnvLock(n), body)
OnProd(p, body) == With(ProdLock(p), body)

(* with_team_lock outside, with_key_lock(template_lock_key) inside.        *)
TeamWide(t, body) == With(TeamLock, With(TemplateLock(t), body))

-----------------------------------------------------------------------------
(* Environments.                                                           *)

(* The production's lock and the template's are given back before the      *)
(* environment is created from the template.                               *)
ensure_production_template(p, t) ==
    OnProd(p, With(TemplateLock(t), ProdPublishedFirst(p, t)))

create_environment(n, t)           == OnEnv(n, EnvCreated(n, t))
create_environment_empty(n)        == OnEnv(n, EnvCreatedEmpty(n))
create_environment_again(n)        == OnEnv(n, EnvAdopted(n))
create_environment_from(n, p, t)   ==
    OnEnv(n, ensure_production_template(p, t) \o EnvCreated(n, t))
delete_environment(n)              == OnEnv(n, EnvDeleted(n))
recreate_environment(n, t)         == OnEnv(n, EnvRecreated(n, t))
restart_environment(n)             == OnEnv(n, BoxChanged(n))
stop_environment(n)                == OnEnv(n, BoxChanged(n))
start_environment(n)               == OnEnv(n, BoxChanged(n))

update_environment(n, m)           == OnEnv(n, OnEnv(m, EnvUpdated(n, m)))
switch_branch(n, m)                == OnEnv(n, OnEnv(m, BranchSwitched(n, m)))
pull_and_apply(n)                  == OnEnv(n, EnvPulled(n))
run_odoo_tests(n)                  == OnEnv(n, TestsRun(n))
install_odoo_modules(n)            == OnEnv(n, ModulesApplied(n) \o BoxChanged(n))
upgrade_odoo_modules(n)            == OnEnv(n, ModulesApplied(n) \o BoxChanged(n))
write_file_in_odoo(n)              == OnEnv(n, FileWritten(n))
run_odoo_shell(n)                  == OnEnv(n, ShellRun(n))
run_odoo_command(n)                == OnEnv(n, CommandRun(n))
reset_admin_password(n)            == OnEnv(n, PasswordReset(n))
connect_as_user(n)                 == OnEnv(n, ConnectedAs(n))
run_db_query(n)                    == OnEnv(n, QueryRun(n))
export_module_translations(n)      == OnEnv(n, TranslationsExported(n))
translation_status(n)              == OnEnv(n, TranslationsCompared(n))
start_image_build(n)               == OnEnv(n, BuildStarted(n))
publish_image_build(in, d)         == With(PublishLock(d), ImagePublished(in, d))

-----------------------------------------------------------------------------
(* Templates.                                                              *)

save_as_template(in, n, t)         == TeamWide(t, EnvPublished(in, n, t))
save_production_as_template(in, p, t) == TeamWide(t, OnProd(p, ProdPublished(in, p, t)))

(* The key of the template, and inside it, where an existing template's    *)
(* files are replaced, the team's lock.                                    *)
import_template(t)                 == With(TemplateLock(t), TemplateImported(t))
import_template_s3(in, t)          == With(TemplateLock(t), PrefixImported(in, t))
ImportAgain(t, body)               == With(TemplateLock(t), With(TeamLock, body))
import_template_prefix(in, t)      == ImportAgain(t, PrefixImportedAgain(in, t))
import_template_archive(in, t)     == ImportAgain(t, ArchiveImportedAgain(in, t))
import_template_files(t)           == ImportAgain(t, FilesImportedAgain(t))
import_template_refresh(t)         == ImportAgain(t, OwnFilesApplied(t))

refresh_template(t)                == TeamWide(t, TemplateRefreshed(t))
attach_filestore(t)                == With(TemplateLock(t), FilestoreAttached(t))
delete_template(in, t)             == TeamWide(t, TemplateDeleted(in, t))
rename_template(t, u)              ==
    TeamWide(t, With(TemplateLock(u), TemplateRenamed(t, u)))

(* _cli_template_lock: the template's key, then the team, waited for.      *)
CliTeamWide(t, body) == With(TemplateLock(t), Awaiting(TeamLock, body))

init_template(t)           == With(TemplateLock(t), TemplateInitialised(Incoming(t)))
init_template_again(t)     == CliTeamWide(t, TemplateInitialised(Template(t)))
template_from_env(in, n, t) == CliTeamWide(t, EnvPublished(in, n, t))
cli_refresh_template(t)    == CliTeamWide(t, TemplateRefreshed(t))
cli_attach_filestore(t)    == With(TemplateLock(t), FilestoreAttached(t))
cli_delete_template(in, t) == CliTeamWide(t, TemplateDeleted(in, t))
cli_import_template(in, t) == CliTeamWide(t, PrefixImportedAgain(in, t))
template_sync_run(t)       == With(TemplateLock(t), SyncRun(t))

(* At startup: the team's lock is tried, or waited for in a thread.        *)
reconcile_overlay_mounts           == Inside(TeamLock, OverlaysMounted)

-----------------------------------------------------------------------------
(* Productions.                                                            *)

create_production(p)               == OnProd(p, ProdChanged(p))
create_production_from(p, n)       == OnProd(p, OnEnv(n, ProdCreatedFrom(p, n)))
sync_production_mcp(p, q)          == OnProd(p, ProdChanged(p)) \o OnProd(q, ProdChanged(q))
production_odoo_execute_change(p)  == OnProd(p, ProdChanged(p))
start_production(p)                == OnProd(p, ProdChanged(p))
stop_production(p)                 == OnProd(p, ProdChanged(p))
restart_production(p)              == OnProd(p, ProdChanged(p))
reconfigure_production(p)          == OnProd(p, ProdChanged(p))
set_production_odoo_conf(p)        == OnProd(p, ProdConfSet(p))
update_production(p, backup)       == OnProd(p, ProdDeployed(p, backup))
rollback_production(p)             == OnProd(p, ProdChanged(p))
delete_production(p)               == OnProd(p, ProdChanged(p))

snapshot_production(p)             == OnProd(p, With(BackupsLock, Snapshotted(p)))
restore_production(p)              == OnProd(p, With(BackupsLock, Restored(p)))
restore_production_from(p, n)      ==
    OnProd(p, With(BackupsLock, OnEnv(n, RestoredFrom(p, n))))
prune_production_backups           == With(BackupsLock, BackupsPruned)

webhook_deploy(p, backup) == Awaiting(ProdLock(p), ProdDeployed(p, backup))
scheduled_snapshot(p)   == OnProd(p, With(BackupsLock, Snapshotted(p)))
scheduled_prune         == With(BackupsLock, BackupsPruned)
base_backup             == OnProd("__cluster__", BaseBackedUp)
run_restore_cluster(ps) == With(SystemLock, ClusterRestored(ps))
run_wal(ps)             == With(SystemLock, WalControlled(ps))
purge_deleted(p)        == OnProd(p, ProdChanged(p))

(* The reaper stops or deletes what has been idle.                         *)
auto_stop(n)            == OnEnv(n, BoxChanged(n))
auto_delete(n)          == OnEnv(n, EnvDeleted(n))

-----------------------------------------------------------------------------
(* Services, volumes, databases, credentials, extra repositories.          *)

OnService(s, body)                 == With(ServiceLock(s), body)
OnVolume(v, body)                  == With(VolumeLock(v), body)
OnDatabase(d, body)                == With(DatabaseLock(d), body)

create_service(in, s, v)           == OnService(s, ServiceCreated(in, s, v))
update_service(in, s, v)           == OnService(s, ServiceUpdated(in, s, v))
restore_service(in, s, v)          == OnService(s, ServiceCreated(in, s, v))
restart_service(s)                 == OnService(s, ServiceRestarted(s))
delete_service(s)                  == OnService(s, ServiceDeleted(s))
run_service_command(s)             == OnService(s, ServiceCommandRun(s))
delete_service_preset(s)           == With(PresetLock, PresetDeleted(s))
create_volume(v)                   == OnVolume(v, VolumeCreated(v))
delete_volume(in, v)               == OnVolume(v, VolumeDeleted(in, v))
write_file_in_volume(v)            == OnVolume(v, VolumeFileChanged(v))
delete_file_in_volume(v)           == OnVolume(v, VolumeFileChanged(v))
create_service_database(in, d)     == OnDatabase(d, DatabaseCreated(in, d))
get_service_database(d)            == OnDatabase(d, DatabaseLooked(d))
rotate_service_database_password(d) == OnDatabase(d, DatabaseChanged(d))
delete_service_database(d)         == OnDatabase(d, DatabaseChanged(d))
setup_repo_auth                    == With(CredentialsLock, CredentialStored)
get_ssh_public_key                 == With(CredentialsLock, CredentialsChanged)
add_extra_repo(in, r)              == RepoChanged(in, r)
update_extra_repo(in, r)           == RepoChanged(in, r)
delete_extra_repo(in, r)           == RepoChanged(in, r)

(* These commands, and a server that starts, take no lock at all.          *)
run_cleanup(ns)                    == OrphansCleaned(ns)
run_destroy(ns, ts, ps)            == SystemDestroyed(ns, ts, ps)
retune_postgres(ps)                == PostgresRetuned(ps)
run_server(ps)                     == SystemInitialized(ps)

(* apply_stack holds the team's lock and its production's, and works on    *)
(* services, volumes and databases without theirs.                         *)
apply_stack(in, p, n, t, s, v, d, r) ==
    With(TeamLock, OnProd(p,
      RepoChanged(in, r) \o VolumeCreated(v) \o DatabaseCreated(in, d)
        \o EnvCreated(n, t) \o EnvUpdated(n, n) \o ProdChanged(p)
        \o VolumeFileChanged(v) \o ServiceCreated(in, s, v) \o ServiceUpdated(in, s, v)))
=============================================================================
