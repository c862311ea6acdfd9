------------------------------ MODULE Migrations ------------------------------
(* One-shot migrations at the start of a server and of `oduflow stack apply`  *)
(* (migrations.py): an ordered registry of steps, the ledger migrations.json  *)
(* of the steps applied, saved after each, and a file lock around the whole.  *)
(*                                                                            *)
(* A step brings objects (containers, databases, files) from their old form   *)
(* to the new one, one after the other, and is run again from its start when  *)
(* the process died in it. Some objects pass a state between the two forms.   *)
(* Definitions marked "Fault:" are plausible bugs no action uses.             *)
EXTENDS Naturals, Sequences

CONSTANTS
    Processes, Idle, \* processes that run the migrations; none
    Objects,         \* the objects a step finds
    MaxDeaths        \* bound: deaths of a process in a migration

MigConstants == Idle \notin Processes /\ MaxDeaths \in Nat

VARIABLES
    ledger,          \* migrations.json: how many steps it records, or NoLedger
    form,            \* each step's objects: "old", "half", "moved" or "new"
    shared,          \* the container all databases of a team live in: "bare", "gone", "mounted"
    teams,           \* whether a team_* directory exists
    lock, doing,     \* the process in the migrations; the step it is in, 0: none yet
    handled, busy,   \* objects the step has dealt with in this run; those it is changing
    served,          \* processes that got through
    torn, deaths     \* history: died where a rerun does not look again; deaths

migVars == <<ledger, form, shared, teams, lock, doing, handled, busy, served, torn, deaths>>

Registry == <<"names", "tablespaces", "networks", "limits", "traefik", "private",
              "presets", "secrets", "confs", "tokens">>
Steps == 1..Len(Registry)
Step(name) == CHOOSE i \in Steps : Registry[i] = name
BestEffort == {Step(n) : n \in {"limits", "private", "secrets", "confs", "tokens"}}
TwoPhased == {Step(n) : n \in {"tablespaces", "networks"}}
NoLedger == Len(Registry) + 1

MigTypeOK ==
    /\ ledger \in 0..NoLedger /\ form \in [Steps -> [Objects -> {"old", "half", "moved", "new"}]]
    /\ shared \in {"bare", "gone", "mounted"} /\ teams \in BOOLEAN
    /\ lock \in Processes \cup {Idle} /\ doing \in 0..NoLedger /\ handled \subseteq Objects /\ busy \subseteq Objects
    /\ served \subseteq Processes /\ torn \in BOOLEAN /\ deaths \in 0..MaxDeaths

(* A fresh installation; one from before migrations; one some steps behind.  *)
MigInit ==
    /\ ledger \in {0, 2, 5, NoLedger} /\ teams \in BOOLEAN
    /\ ledger # NoLedger => teams
    /\ LET behind == IF ledger = NoLedger THEN (IF teams THEN Steps ELSE {})
                     ELSE {i \in Steps : i > ledger} IN
         /\ form = [i \in Steps |-> [o \in Objects |-> IF i \in behind THEN "old" ELSE "new"]]
         /\ shared = IF Step("tablespaces") \in behind THEN "bare" ELSE "mounted"
    /\ lock = Idle /\ doing = 0 /\ handled = {} /\ busy = {} /\ served = {} /\ torn = FALSE /\ deaths = 0

-----------------------------------------------------------------------------

(* _state_lock, _load_state; a fresh installation is stamped unseen.         *)
Enter(p) ==
    /\ lock = Idle /\ p \notin served
    /\ lock' = p /\ handled' = {}
    /\ IF ledger = NoLedger /\ ~teams
         THEN ledger' = Len(Registry) /\ doing' = NoLedger
         ELSE /\ doing' = IF ledger = NoLedger THEN 1 ELSE ledger + 1
              /\ UNCHANGED ledger
    /\ UNCHANGED <<form, shared, teams, busy, served, torn, deaths>>

In(i) == lock # Idle /\ doing = i /\ i \in Steps

(* _migrate_team_pg_tablespaces needs the mount: the container is removed    *)
(* and created again with its own image.                                     *)
RemoveShared ==
    /\ In(Step("tablespaces")) /\ shared = "bare" /\ handled = {}
    /\ shared' = "gone" /\ busy' = Objects
    /\ UNCHANGED <<ledger, form, teams, lock, doing, handled, served, torn, deaths>>

CreateShared ==
    /\ In(Step("tablespaces")) /\ shared = "gone" /\ busy = Objects
    /\ shared' = "mounted" /\ busy' = {}
    /\ UNCHANGED <<ledger, form, teams, lock, doing, handled, served, torn, deaths>>

Ready(i) == i = Step("tablespaces") => shared = "mounted"

(* What is in the new form is not looked at again; neither is a database     *)
(* that an earlier run moved and did not open again.                         *)
PassOver(i, o) ==
    /\ In(i) /\ Ready(i) /\ busy = {} /\ o \notin handled
    /\ form[i][o] \in {"moved", "new"} \/ i \in BestEffort
    /\ handled' = handled \cup {o}
    /\ UNCHANGED <<ledger, form, shared, teams, lock, doing, busy, served, torn, deaths>>

(* A container is connected to the new network, then taken off the old one;  *)
(* a database is closed, moved, and opened.                                  *)
Advance(i, o) ==
    /\ In(i) /\ Ready(i) /\ busy \subseteq {o} /\ o \notin handled
    /\ LET next == CASE form[i][o] = "old" -> IF i \in TwoPhased THEN "half" ELSE "new"
                      [] form[i][o] = "half" -> IF i = Step("tablespaces") THEN "moved" ELSE "new"
                      [] form[i][o] = "moved" /\ busy = {o} -> "new"
                      [] OTHER -> "none" IN
         /\ next # "none" /\ form' = [form EXCEPT ![i][o] = next]
         /\ busy' = IF next = "new" THEN {} ELSE {o}
         /\ handled' = IF next = "new" THEN handled \cup {o} ELSE handled
    /\ UNCHANGED <<ledger, shared, teams, lock, doing, served, torn, deaths>>

(* Fault: a step counts as applied once it has begun.                        *)
CompleteAtOnce(i) == TRUE

(* No container: "nothing to move".                                          *)
NothingToMove(i) == i = Step("tablespaces") /\ shared = "gone" /\ busy = {}

Complete(i) == handled = Objects \/ NothingToMove(i)

(* applied.append, _write_state.                                             *)
Record(i) ==
    /\ In(i) /\ Complete(i)
    /\ ledger' = i /\ doing' = i + 1 /\ handled' = {}
    /\ UNCHANGED <<form, shared, teams, lock, busy, served, torn, deaths>>

(* Through: the directories of the teams and the shared container are made.  *)
Leave(p) ==
    /\ lock = p /\ doing > Len(Registry)
    /\ lock' = Idle /\ doing' = 0 /\ served' = served \cup {p}
    /\ teams' = TRUE /\ shared' = "mounted"
    /\ UNCHANGED <<ledger, form, handled, busy, torn, deaths>>

(* A step raised, or the process died; the file lock goes with it. A         *)
(* container that is gone is taken for a fresh installation by the rerun,    *)
(* a database that was moved for one that is open.                           *)
DieInside ==
    /\ lock # Idle /\ deaths < MaxDeaths /\ deaths' = deaths + 1
    /\ torn' = (torn \/ shared = "gone" \/ \E o \in busy : form[Step("tablespaces")][o] = "moved")
    /\ lock' = Idle /\ doing' = 0 /\ handled' = {} /\ busy' = {}
    /\ UNCHANGED <<ledger, form, shared, teams, served>>

MigNext ==
    \/ \E p \in Processes : Enter(p) \/ Leave(p)
    \/ RemoveShared \/ CreateShared \/ DieInside
    \/ \E i \in Steps : Record(i) \/ \E o \in Objects : PassOver(i, o) \/ Advance(i, o)
MigSpec == MigInit /\ [][MigNext]_migVars

-----------------------------------------------------------------------------
(* A step the ledger records has left nothing it is responsible for in an    *)
(* old form, on no path over deaths, reruns and two processes (module        *)
(* docstring: "a step that crashed halfway is retried on the next start").   *)
(* Steps that only report what they could not change are exempt, and so are  *)
(* deaths in the two places of the second step whose rerun does not look     *)
(* again: README, "Where code and words differ".                             *)
AppliedIsDone ==
    ledger # NoLedger /\ ~torn =>
        \A i \in Steps \ BestEffort : i <= ledger => \A o \in Objects : form[i][o] = "new"

=============================================================================
