----------------------------- MODULE MCHandlers -----------------------------
(* The tables of Tools and Routes, run side by side by two threads.        *)
EXTENDS Handlers, Routes, TLC

Threads2 == {"t1", "t2"}
TheTeam == <<"team", "T">>
TeamIds == {TheTeam}
EnvNames == {"a", "b"}

(* The dashboard and the MCP tools run in one process, the server.         *)
S == "server"

EnvPlans ==
    UNION {{create_environment(n, "t"), delete_environment(n), recreate_environment(n, "t"),
            restart_environment(n), stop_environment(n), start_environment(n),
            pull_and_apply(n)} : n \in EnvNames}
      \cup {create_environment_empty("a"), create_environment_again("a"),
            create_environment_from("a", "p", "u"), update_environment("a", "b"),
            switch_branch("a", "b"), run_odoo_tests("a"), install_odoo_modules("a"),
            upgrade_odoo_modules("a"), write_file_in_odoo("a"), run_odoo_shell("a"),
            run_odoo_command("a"), reset_admin_password("a"), connect_as_user("a"),
            run_db_query("a"), export_module_translations("a"), translation_status("a"),
            start_image_build("a"), publish_image_build(S, "i"), BuildsPruned(S),
            auto_stop("a"), auto_delete("a"),
            api_start("a"), api_stop("a"), api_restart("a"), api_sync("a"),
            api_modules_apply("a"), api_switch_branch("b", "a"), api_update("b", "a"),
            api_delete("a"), api_recreate("a", "t"), api_create("b", "t"),
            api_create_from("b", "p", "u"), api_connect_as("a"), api_connect_open("a"),
            attachment_upload("a"), attachment_delete("a")}

TemplatePlans ==
    {save_as_template(S, "a", "t"), save_production_as_template(S, "p", "t"),
     import_template("u"), import_template_s3(S, "u"), import_template_prefix(S, "t"),
     import_template_archive(S, "t"), import_template_files("t"),
     import_template_refresh("t"), refresh_template("t"),
     attach_filestore("t"), delete_template(S, "t"), rename_template("t", "u"),
     init_template("u"), init_template_again("t"), template_from_env(NoKey, "a", "t"),
     cli_refresh_template("t"), cli_attach_filestore("t"),
     cli_delete_template(NoKey, "t"), cli_import_template(NoKey, "t"),
     template_sync_run("t"), reconcile_overlay_mounts,
     api_save_as_template(S, "b", "t"), api_template_delete(S, "t"),
     api_template_rename("t", "u"), api_template_metadata_update("t"),
     api_template_sync("t"), api_env_template_sync("a"),
     api_import_template_from_odoo("u"), api_import_template_overwriting(S, "t"),
     api_import_filestore(S, "u"), api_import_addon(S, "u"),
     api_import_addon_remote(S, "u"), api_import_finalize("u", {}),
     api_production_save_as_template(S, "p", "t"), api_cleanup(EnvNames)}

ProductionPlans ==
    {create_production("p"), create_production_from("p", "a"),
     sync_production_mcp("p", "q"), production_odoo_execute_change("p"),
     start_production("p"), stop_production("p"), restart_production("p"),
     reconfigure_production("p"), set_production_odoo_conf("p"),
     update_production("p", FALSE), rollback_production("p"), delete_production("q"),
     snapshot_production("p"), restore_production("p"),
     restore_production_from("p", "a"), prune_production_backups,
     webhook_deploy("p", FALSE), scheduled_snapshot("q"), scheduled_prune, base_backup,
     run_restore_cluster({"p", "q"}), run_wal({"p", "q"}), purge_deleted("p"),
     production_action("p"), api_production_snapshot("p"), production_body_action("p"),
     api_production_create("p"), api_production_create_from("p", "a"),
     api_production_update("p", FALSE), api_production_rollback("p"),
     api_production_delete("p"), api_production_restore("p"), wal_control({"p", "q"})}

ServicePlans ==
    {create_service(S, "s", "v"), update_service(S, "s", "v"), restore_service(S, "s", "v"),
     create_service(S, "r", "v"), restart_service("s"), delete_service("s"),
     run_service_command("s"), delete_service_preset("s"),
     create_volume("v"), delete_volume(S, "v"), write_file_in_volume("v"),
     delete_file_in_volume("v"), create_service_database(S, "d"),
     create_service_database(S, "e"), get_service_database("d"),
     rotate_service_database_password("d"), delete_service_database("d"),
     setup_repo_auth, get_ssh_public_key, add_extra_repo(S, "x"),
     update_extra_repo(S, "x"), delete_extra_repo(S, "x"),
     api_service_create(S, "s", "v"), api_service_update(S, "r", "v"),
     api_service_restore(S, "s", "v"), api_service_restart("s"), api_service_delete("s"),
     set_service_protection(S, "s"), set_service_protection(S, "r"),
     api_service_preset_delete("s"), api_volume_create("v"), api_volume_delete(S, "v"),
     api_service_database_create(S, "d"), api_service_database_credentials("d"),
     api_service_database_rotate("d"), api_service_database_delete("d"),
     set_service_database_protection("d"), api_credential_add, api_credential_delete,
     api_ssh_key_generate, api_secret_set(S), api_secret_update_json(S),
     api_secret_delete(S), api_extra_repo_delete(S, "x"),
     api_extra_repo_remove_branch(S, "x")}

(* Resources these tables do not keep apart: presets (saved outside the    *)
(* registry mutex), the staging directories of imports (the uploader       *)
(* finishes its uploads first), and the database every new template of the *)
(* host is built in.                                                       *)
Unkept == {<<"preset", x>> : x \in {"r", "s"}} \cup {Staging(x) : x \in {"t", "u"}}
            \cup {BuildDatabase}

Keep(pl) == [i \in DOMAIN pl |-> [pl[i] EXCEPT !.reads = pl[i].reads \ Unkept,
                                               !.writes = pl[i].writes \ Unkept]]

AllPlans == {Keep(pl) : pl \in EnvPlans \cup TemplatePlans \cup ProductionPlans
                                   \cup ServicePlans}

(* Plans that interfere with others, as the README says: a stack applied   *)
(* by a command takes no lock of what it creates, a deploy's snapshot not  *)
(* that of the backups; a finalized import's addons not the repositories'; *)
(* a command that changes a template's key is not the server's process;    *)
(* a terminal, a clean-up, a teardown and a start take no lock at all.     *)
Unkeyed == {apply_stack("cli", "p", "a", "t", "s", "v", "d", "x"), run_cleanup(EnvNames),
            update_production("p", TRUE), webhook_deploy("p", TRUE),
            api_production_update("p", TRUE), api_import_finalize("u", {"x"}),
            template_from_env("cli", "a", "t"), cli_delete_template("cli", "t"),
            cli_import_template("cli", "t"), ws_terminal("a"), ws_sql_terminal("a"),
            run_destroy(EnvNames, {"t"}, {"p"}), retune_postgres({"p"}), run_server({"p"})}

PhasesOf == UNION {{pl[i] : i \in DOMAIN pl} : pl \in AllPlans \cup Unkeyed}
LocksOf == UNION {ph.holds : ph \in PhasesOf}
DevLocks  == {g.lock : g \in {h \in LocksOf : h.lock[1] = "env"}}
ProdLocks == {g.lock : g \in {h \in LocksOf : h.lock[1] = "prod"}}
RestLocks == {g.lock : g \in {h \in LocksOf : h.lock[1] \notin {"env", "prod", "team", "system"}}}
SystemName == SystemLock.lock
=============================================================================
