------------------------------- MODULE MCFiles --------------------------------
(* Two ways of keeping files: the chunk store of the backups, and the bundled *)
(* files that upgrades merge, in one run. The first state chooses which of    *)
(* them moves, and the other stays where it begins.                           *)
EXTENDS MCBackupStore, BundledFiles

CONSTANTS a1, a2, a3, a4
VARIABLE focus

(* Three packages; each drops a line of the one before and adds one.          *)
ThreePackages == <<{a1, a2}, {a2, a3}, {a3, a4}>>

ASSUME BundlesConstants

FilesInit ==
    /\ focus \in {"backups", "bundled"}
    /\ Init /\ BundledInit /\ (focus # "bundled" => own = {})

FilesNext ==
    /\ UNCHANGED focus
    /\ \/ focus = "backups" /\ Next
       \/ focus # "backups" /\ UNCHANGED vars
    /\ \/ focus = "bundled" /\ BundledNext
       \/ focus # "bundled" /\ UNCHANGED bundledVars

FilesSpec == FilesInit /\ [][FilesNext]_<<focus, vars, bundledVars>>
=============================================================================
