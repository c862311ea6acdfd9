----------------------------- MODULE MCProductions -----------------------------
(* Deploys, restores and the life of a production, checked in one run: the   *)
(* first state chooses which of the three happens. All of them hold the      *)
(* production's lock, and what each leaves for the next is in its own module. *)
EXTENDS ProductionRestore, TLC

CONSTANTS
    Repos, Main, MaxCommit, Kind, Hooks, Explicit, RollForward, ResetFails,
    DeployFailures, DeployCrashes, MaxEntries,                            \* ProductionDeploy
    Nil, Sweepers, MaxFields, MaxCreates, MaxCalls, MaxMishaps, MaxEdits  \* ProductionLifecycle

VARIABLES
    focus,
    tip, head, loaded, schema, flags, deploys, op, up, deployFailures, deployCrashes,
    record, dbase, space, marked, container, source, place, call, sweep, settled, kept,
    creates, calls, lifeMishaps, edits

deployVars == <<tip, head, loaded, schema, flags, deploys, op, up, deployFailures, deployCrashes>>
prodVars == <<record, dbase, space, marked, container, source, place, call, sweep, settled, kept,
              creates, calls, lifeMishaps, edits>>

(* What the commits of a main repository and of an extra-addons repository   *)
(* ask for.                                                                  *)
TwoRepos == [r \in Repos |-> IF r = Main THEN <<"none", "upgrade">> ELSE <<"upgrade", "refresh">>]

Deploy == INSTANCE ProductionDeploy WITH
            MaxFailures <- DeployFailures, MaxCrashes <- DeployCrashes,
            failures <- deployFailures, crashes <- deployCrashes
Life == INSTANCE ProductionLifecycle WITH step <- place, mishaps <- lifeMishaps

ASSUME ProductionsConstants == Deploy!DeployConstants /\ Life!ProdConstants

ProductionsInit ==
    /\ focus \in {"restore", "deploy", "life"}
    /\ Init /\ Deploy!Init /\ Life!PLInit /\ (focus # "life" => source.up)

(* Only the life of a production may come to an end: its bounds are used up. *)
ProductionsNext ==
    /\ UNCHANGED focus
    /\ \/ focus = "restore" /\ Next
       \/ focus # "restore" /\ UNCHANGED vars
    /\ \/ focus = "deploy" /\ Deploy!Next
       \/ focus # "deploy" /\ UNCHANGED deployVars
    /\ \/ focus = "life" /\ Life!PLNext
       \/ UNCHANGED prodVars

ProductionsSpec == ProductionsInit /\ [][ProductionsNext]_<<focus, vars, deployVars, prodVars>>

-----------------------------------------------------------------------------
(* Each module's variables have their types.                                 *)
ProductionsTypeOK ==
    /\ focus = "restore" => TypeOK
    /\ focus = "deploy" => Deploy!TypeOK
    /\ focus = "life" => Life!PLTypeOK

(* ProductionDeploy.tla: what a deploy's snapshot says of the data is true.  *)
SnapshotMatchesDataIfUndisturbed == focus = "deploy" => Deploy!SnapshotMatchesDataIfUndisturbed

(* ProductionDeploy.tla: a settled production's data went through its code's migrations. *)
MigratedWhenSettled == focus = "deploy" => Deploy!MigratedWhenSettled

(* ProductionLifecycle.tla: a production has the data of its own creation.   *)
OwnData == focus = "life" => Life!OwnData

(* ProductionLifecycle.tla: what a deletion keeps is there until a purge.    *)
KeptUntilPurged == focus = "life" => Life!KeptUntilPurged

(* ProductionLifecycle.tla: a promotion copies database and files together.  *)
PromotedPair == focus = "life" => Life!PromotedPair

(* ProductionLifecycle.tla: what a reconfiguration that returned converged to. *)
Converged == focus = "life" => Life!Converged

=============================================================================
