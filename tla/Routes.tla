------------------------------- MODULE Routes -------------------------------
(***************************************************************************)
(* The routes of the dashboard (web_ui.py) that change something.  Routes  *)
(* that protect, unprotect, annotate or share take no lock: each is one    *)
(* write of a small registry.                                              *)
(***************************************************************************)
EXTENDS Tools

-----------------------------------------------------------------------------
(* Environments.                                                           *)

api_start(n)             == OnEnv(n, BoxChanged(n))
api_stop(n)              == OnEnv(n, BoxChanged(n))
api_restart(n)           == OnEnv(n, BoxChanged(n))
api_sync(n)              == OnEnv(n, EnvPulled(n))
api_modules_apply(n)     == OnEnv(n, ModulesApplied(n) \o BoxChanged(n))
api_switch_branch(n, m)  == OnEnv(n, OnEnv(m, BranchSwitched(n, m)))
api_update(n, m)         == OnEnv(n, OnEnv(m, EnvUpdated(n, m)))
api_delete(n)            == OnEnv(n, EnvDeleted(n))
api_recreate(n, t)       == OnEnv(n, EnvRecreated(n, t))
api_create(n, t)         == OnEnv(n, EnvCreated(n, t))
api_create_from(n, p, t) == OnEnv(n, ensure_production_template(p, t) \o EnvCreated(n, t))
api_connect_as(n)        == OnEnv(n, ConnectedAs(n))
api_connect_open(n)      == OnEnv(n, ConnectedAs(n))

(* A shell of Odoo and one of psql, in the browser: no lock.               *)
ws_terminal(n)           == ShellRun(n)
ws_sql_terminal(n)       == QueryRun(n)
attachment_upload(n)     == OnEnv(n, Changes({Code(n)}))
attachment_delete(n)     == OnEnv(n, Changes({Code(n)}))

-----------------------------------------------------------------------------
(* Templates.                                                              *)

(* _template_locks: the team's lock first, if the operation is team wide.  *)
TemplateLocks(team_wide, t, body) ==
    IF team_wide THEN With(TeamLock, With(TemplateLock(t), body))
    ELSE With(TemplateLock(t), body)

api_save_as_template(in, n, t)     == TemplateLocks(TRUE, t, EnvPublished(in, n, t))
api_template_delete(in, t)         == TemplateLocks(TRUE, t, TemplateDeleted(in, t))
api_template_rename(t, u)          ==
    TemplateLocks(TRUE, t, With(TemplateLock(u), TemplateRenamed(t, u)))
api_template_metadata_update(t)    == TemplateLocks(FALSE, t, Changes({Metadata(t)}))
api_template_sync(t)               == With(TemplateLock(t), SyncConfigured(t))
api_env_template_sync(n)           == OnEnv(n, Changes({Code(n)}))
api_import_template_from_odoo(t)   == TemplateLocks(FALSE, t, TemplateImported(t))
api_import_template_overwriting(in, t) ==
    TemplateLocks(TRUE, t, PrefixImportedAgain(in, t))
api_import_filestore(in, t)        == ChunkUploaded(in, t)
api_import_addon(in, t)            == ChunkUploaded(in, t)
api_import_addon_remote(in, t)     == ChunkUploaded(in, t)
api_import_finalize(t, rs)         == TemplateLocks(TRUE, t, ImportFinalized(t, rs))
api_production_save_as_template(in, p, t) ==
    TemplateLocks(TRUE, t, OnProd(p, ProdPublished(in, p, t)))
api_cleanup(ns)                    ==
    With(ImagesLock, With(TeamLock, OrphansCleaned(ns)) \o ImagesCleaned)

-----------------------------------------------------------------------------
(* Services, volumes, databases, credentials, extra repositories.          *)

api_service_create(in, s, v)     == OnService(s, ServiceCreated(in, s, v))
api_service_update(in, s, v)     == OnService(s, ServiceUpdated(in, s, v))
api_service_restore(in, s, v)    == OnService(s, ServiceCreated(in, s, v))
api_service_restart(s)           == OnService(s, ServiceRestarted(s))
api_service_delete(s)            == OnService(s, ServiceDeleted(s))
set_service_protection(in, s)    == OnService(s, ProtectionSet(in, s))
api_service_preset_delete(s)     == With(PresetLock, PresetDeleted(s))
api_volume_create(v)             == OnVolume(v, VolumeCreated(v))
api_volume_delete(in, v)         == OnVolume(v, VolumeDeleted(in, v))
api_service_database_create(in, d)   == OnDatabase(d, DatabaseCreated(in, d))
api_service_database_credentials(d)  == OnDatabase(d, DatabaseLooked(d))
api_service_database_rotate(d)       == OnDatabase(d, DatabaseChanged(d))
api_service_database_delete(d)       == OnDatabase(d, DatabaseChanged(d))
set_service_database_protection(d)   == OnDatabase(d, DatabaseChanged(d))
api_credential_add               == With(CredentialsLock, CredentialStored)
api_credential_delete            == With(CredentialsLock, CredentialsChanged)
api_ssh_key_generate             == With(CredentialsLock, CredentialsChanged)
api_secret_set(in)               == SecretsChanged(in)
api_secret_update_json(in)       == SecretsChanged(in)
api_secret_delete(in)            == SecretsChanged(in)
api_extra_repo_delete(in, r)     == RepoChanged(in, r)
api_extra_repo_remove_branch(in, r) == RepoChanged(in, r)

-----------------------------------------------------------------------------
(* Productions.                                                            *)

(* _production_action: a snapshot also takes the key of the backups, and   *)
(* gives the production back if that is busy.                              *)
production_action(p)             == OnProd(p, ProdChanged(p))
api_production_snapshot(p)       == OnProd(p, With(BackupsLock, Snapshotted(p)))
production_body_action(p)        == OnProd(p, ProdChanged(p))
api_production_create(p)         == OnProd(p, ProdChanged(p))
api_production_create_from(p, n) == OnProd(p, OnEnv(n, ProdCreatedFrom(p, n)))
api_production_update(p, backup) == Awaiting(ProdLock(p), ProdDeployed(p, backup))
api_production_rollback(p)       == OnProd(p, ProdChanged(p))
api_production_delete(p)         == OnProd(p, ProdChanged(p))
api_production_restore(p)        == OnProd(p, With(BackupsLock, Restored(p)))
wal_control(ps)                  == With(SystemLock, WalControlled(ps))
=============================================================================
