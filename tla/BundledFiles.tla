----------------------------- MODULE BundledFiles -----------------------------
(* A bundled file that a team may edit (odoo.conf, sanitizing SQL, guides),   *)
(* kept up with new packages by "oduflow upgrade": a three-way merge of the   *)
(* live file, the baseline (the bundle it was last reconciled with) and the   *)
(* new bundle, or a sidecar for the operator where that does not go.          *)
(*                                                                            *)
(* A content is a set of lines and a file holds one content or is missing (a  *)
(* set of at most one content). A sidecar is modelled by the bundle it offers. *)
(* A bundle never brings back a line that it dropped.                         *)
(*                                                                            *)
(* Definitions marked "Fault:" are plausible bugs no action uses.             *)
EXTENDS Naturals, Sequences

CONSTANTS
    Bundles,         \* contents of the packages, one after the other
    Mine, Keep,      \* lines the operator writes; the first line "# KEEP" is one of them
    Edits,           \* bound: edits by the operator
    Interruptions    \* bound: runs that die between two writes

BundlesConstants ==
    /\ 1 \in DOMAIN Bundles /\ \A i \in DOMAIN Bundles : Bundles[i] \cap Mine = {}
    /\ \A i, j, k \in DOMAIN Bundles : i < j /\ j < k => Bundles[i] \cap Bundles[k] \subseteq Bundles[j]
    /\ Keep \in Mine /\ {Edits, Interruptions} \subseteq Nat

VARIABLES
    package,         \* the installed package
    file,            \* what is on disk
    run,             \* the reconciliation in progress: its plan, and the writes left of it
    own,             \* history: lines of the operator's that he has not removed himself
    shelved,         \* history: his lines that a forced overwrite has taken out of the live file
    declined,        \* history: bundled lines he removed, or left out of what a sidecar offered
    seen,            \* the sidecar he has merged by hand
    edits, interruptions

bundledVars == <<package, file, run, own, shelved, declined, seen, edits, interruptions>>

Lines == Mine \cup UNION {Bundles[i] : i \in DOMAIN Bundles}
Optional == {{}} \cup {{c} : c \in SUBSET Lines}
Sidecars == {"new", "merge", "error"}
Files == {"live", "baseline", "backup", "pending"} \cup Sidecars
Kinds == {"none", "up-to-date", "adopt", "create", "update", "local-only", "resolved", "merge",
          "overwrite", "keep", "legacy", "legacy-pending", "conflict", "error", "seed"}
NoRun == [step |-> "idle", kind |-> "none", source |-> {}, local |-> {}, base |-> {}, on |-> {},
         todo |-> <<>>]

BundledTypeOK ==
    /\ package \in DOMAIN Bundles /\ file \in [Files -> Optional]
    /\ run.step \in {"idle", "planned", "write"} /\ run.kind \in Kinds
    /\ {run.local, run.base} \subseteq Optional /\ run.on \subseteq {"baseline", "pending"}
    /\ \A i \in DOMAIN run.todo : run.todo[i] \in Files \X Optional
    /\ {own, shelved} \subseteq SUBSET Mine /\ declined \subseteq Lines /\ seen \in Optional
    /\ edits \in 0..Edits /\ interruptions \in 0..Interruptions

(* A team from before baselines were kept, or a new one.                      *)
BundledInit ==
    /\ package = 1
    /\ own \in {{}, Mine \ {Keep}}
    /\ file = [f \in Files |-> IF f = "live" /\ own # {} THEN {own} ELSE {}]
    /\ run = NoRun /\ shelved = {} /\ declined = {} /\ seen = {}
    /\ edits = 0 /\ interruptions = 0

-----------------------------------------------------------------------------
(* What is to be done (plan_reconcile), from what is on disk.                 *)

Of(f) == UNION file[f]
There(f) == file[f] # {}
Bundle == Bundles[package]
Kept == Keep \in Of("live")

(* Removing the sidecar acknowledges it: what it offered is the base now.     *)
Acknowledged == There("pending") /\ ~There("merge")
On == IF Acknowledged THEN "pending" ELSE "baseline"

Settled == file["baseline"] = {Bundle} /\ \A f \in Sidecars \cup {"pending"} : ~There(f)

(* git merge-file, where it is clean: the base's changes on either side.      *)
Merged == (Of("live") \ (Of(On) \ Bundle)) \cup (Bundle \ Of(On))

(* _overwrite_plan: what would stop for the operator, with --force.           *)
Forced(force, kind) == IF force THEN "overwrite" ELSE kind

Kind(force, git) ==
    IF ~There("live") THEN "create"
    ELSE IF Kept THEN "keep"
    ELSE IF file["live"] = {Bundle} THEN IF Settled THEN "up-to-date" ELSE "adopt"
    ELSE IF There("new") THEN Forced(force, "legacy-pending")
    ELSE IF ~There(On) THEN Forced(force, IF There("merge") THEN "error" ELSE "legacy")
    ELSE IF ~There("merge") /\ file["live"] = file[On] THEN "update"
    ELSE IF ~There("merge") /\ file[On] = {Bundle}
         THEN IF Acknowledged THEN "resolved" ELSE "local-only"
    ELSE IF git = "merge" THEN "merge" ELSE Forced(force, git)

Result(kind) == IF kind = "merge" THEN Merged ELSE Bundle

(* Fault: the baseline is what the live file has become.                      *)
RecordsResult(kind) ==
    IF kind \in {"resolved", "conflict", "error"} THEN Of(On) ELSE Result(kind)

(* _write_baseline and _write_baseline_content                                *)
Recorded(kind) == IF kind \in {"resolved", "conflict", "error"} THEN Of(On) ELSE Bundle

(* Fault: the bundle is noted as pending before the sidecar offers it.        *)
PendingFirst(sidecar) == <<<<"pending", {Bundle}>>, <<sidecar, {Bundle}>>>>

Offer(sidecar) == <<<<sidecar, {Bundle}>>, <<"pending", {Bundle}>>>>

Unlink(f) == <<f, {}>>
Baseline(kind) == <<<<"baseline", {Recorded(kind)}>>>>
Tidy == <<Unlink("pending"), Unlink("new"), Unlink("merge"), Unlink("error")>>

Replaced(kind) == <<<<"backup", file["live"]>>, <<"live", {Result(kind)}>>>>

(* The writes of apply_reconcile, in their order.                             *)
Writes(kind) ==
    CASE kind \in {"up-to-date", "local-only", "keep"} -> <<>>
      [] kind \in {"adopt", "resolved"} -> Baseline(kind) \o Tidy
      [] kind = "create" -> <<<<"live", {Bundle}>>>> \o Baseline(kind) \o Tidy
      [] kind \in {"update", "merge", "overwrite"} -> Replaced(kind) \o Baseline(kind) \o Tidy
      [] kind \in {"legacy", "legacy-pending"} ->
             Offer("new") \o <<Unlink("merge"), Unlink("error")>>
      [] kind = "conflict" ->
             (IF Acknowledged
              THEN <<Head(Offer("merge"))>> \o Baseline(kind) \o Tail(Offer("merge"))
              ELSE Offer("merge")) \o <<Unlink("new"), Unlink("error")>>
      [] kind = "error" ->
             (IF Acknowledged THEN Baseline(kind) \o <<Unlink("pending")>> ELSE <<>>)
                 \o <<<<"error", {Bundle}>>>>

-----------------------------------------------------------------------------
(* The runs.                                                                  *)

(* "oduflow upgrade" plans every file and may then wait for Enter; git merges *)
(* cleanly, finds a conflict, or cannot be run.                               *)
PlanUpgrade ==
    /\ run.step = "idle"
    /\ \E force \in BOOLEAN, git \in {"merge", "conflict", "error"} :
         LET kind == Kind(force, git) IN
           run' = [step |-> "planned", kind |-> kind, source |-> Bundle, local |-> file["live"],
                   base |-> file[On],
                   on |-> IF There(On) /\ kind \in {"update", "resolved", "local-only", "merge",
                                                    "conflict", "error"} THEN {On} ELSE {},
                   todo |-> Writes(kind)]
    /\ UNCHANGED <<package, file, own, shelved, declined, seen, edits, interruptions>>

(* apply_reconcile first makes sure that nothing has changed since.           *)
Unchanged ==
    /\ run.source = Bundle /\ run.local = file["live"]
    /\ \A f \in run.on : run.base = file[f]

Apply ==
    /\ run.step = "planned"
    /\ run' = IF Unchanged THEN [run EXCEPT !.step = "write"] ELSE NoRun
    /\ UNCHANGED <<package, file, own, shelved, declined, seen, edits, interruptions>>

(* The prompt is aborted.                                                     *)
Abort ==
    /\ run.step = "planned" /\ run' = NoRun
    /\ UNCHANGED <<package, file, own, shelved, declined, seen, edits, interruptions>>

(* A custom file is never adopted as a baseline.                              *)
Adopts == file["live"] = {Bundle} /\ file["baseline"] # {Bundle}

(* seed_managed_file, at the start of the server.                             *)
Seed ==
    /\ run.step = "idle" /\ (~There("live") \/ Adopts)
    /\ run' = [NoRun EXCEPT !.step = "write", !.kind = "seed",
                 !.todo = (IF There("live") THEN <<>> ELSE <<<<"live", {Bundle}>>>>)
                              \o <<<<"baseline", {Bundle}>>>>]
    /\ UNCHANGED <<package, file, own, shelved, declined, seen, edits, interruptions>>

(* _atomic_write, or an unlink.                                               *)
Write ==
    /\ run.step = "write" /\ run.todo # <<>>
    /\ LET f == Head(run.todo)[1]  forced == run.kind = "overwrite" /\ f = "live" IN
         /\ file' = [file EXCEPT ![f] = Head(run.todo)[2]]
         /\ shelved' = IF forced THEN own ELSE IF f = "backup" THEN {} ELSE shelved
         /\ own' = IF forced THEN {} ELSE own
    /\ run' = [run EXCEPT !.todo = Tail(run.todo)]
    /\ UNCHANGED <<package, declined, seen, edits, interruptions>>

Finish ==
    /\ run.step = "write" /\ run.todo = <<>> /\ run' = NoRun
    /\ UNCHANGED <<package, file, own, shelved, declined, seen, edits, interruptions>>

Interrupt ==
    /\ run.step = "write" /\ run.todo # <<>> /\ interruptions < Interruptions
    /\ run' = NoRun /\ interruptions' = interruptions + 1
    /\ UNCHANGED <<package, file, own, shelved, declined, seen, edits>>

-----------------------------------------------------------------------------
(* The operator, who may edit at any time but during the writes, and the      *)
(* next package.                                                              *)

Edited(content) ==
    /\ run.step # "write" /\ edits < Edits /\ edits' = edits + 1
    /\ file' = [file EXCEPT !["live"] = content]
    /\ own' = Mine \cap UNION content
    /\ UNCHANGED <<package, run, shelved, interruptions>>

AddLine(l) ==
    /\ There("live") /\ l \notin Of("live")
    /\ Edited({Of("live") \cup {l}})
    /\ UNCHANGED <<declined, seen>>

RemoveLine(l) ==
    /\ l \in Of("live")
    /\ Edited({Of("live") \ {l}})
    /\ declined' = declined \cup {l} /\ UNCHANGED seen

RemoveFile ==
    /\ There("live") /\ Edited({})
    /\ UNCHANGED <<declined, seen>>

(* What the sidecar offers is taken over, all or some of it.                  *)
MergeByHand(s) ==
    /\ There(s) /\ There("live")
    /\ \E taken \in SUBSET Of(s) :
         /\ Edited({own \cup taken})
         /\ declined' = declined \cup ((Of(s) \cup Of("live")) \ (taken \cup Mine))
    /\ seen' = file[s]

(* The sidecar is removed by an operator who has merged what it offers.       *)
RemoveSidecar(s) ==
    /\ run.step # "write" /\ There(s) /\ seen = file[s]
    /\ file' = [file EXCEPT ![s] = {}] /\ seen' = {}
    /\ UNCHANGED <<package, run, own, shelved, declined, edits, interruptions>>

NewPackage ==
    /\ package + 1 \in DOMAIN Bundles /\ package' = package + 1
    /\ UNCHANGED <<file, run, own, shelved, declined, seen, edits, interruptions>>

BundledNext ==
    \/ PlanUpgrade \/ Apply \/ Abort \/ Seed \/ Write \/ Finish \/ Interrupt
    \/ \E l \in Mine : AddLine(l)
    \/ \E l \in Lines : RemoveLine(l)
    \/ RemoveFile
    \/ \E s \in {"new", "merge"} : MergeByHand(s) \/ RemoveSidecar(s)
    \/ NewPackage

BundledSpec == BundledInit /\ [][BundledNext]_bundledVars

-----------------------------------------------------------------------------
(* No run takes from the operator what he wrote: it stays in the live file,   *)
(* or, after --force, in the backup until the next replacement.               *)
EditsKept == own \subseteq Of("live") /\ shelved \subseteq Of("backup")

(* What the baseline says has been reconciled is in the live file, unless he  *)
(* declined it: no change of a bundle is skipped for good, wherever a run was *)
(* interrupted.                                                               *)
NothingSkipped ==
    There("live") => Of("baseline") \cap Bundle \subseteq Of("live") \cup declined
=============================================================================
