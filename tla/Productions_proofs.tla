------------------------- MODULE Productions_proofs --------------------------
(* What holds of a production whatever fails, however often and in whatever   *)
(* order.                                                                     *)
(*                                                                            *)
(* Restores, for operators who inspect an uncertain pair before they go on:   *)
(* Odoo runs only on the coherent pair, the data never changes under a        *)
(* running Odoo, and what is being replaced survives until the swap is        *)
(* complete. MCProductionRestore_retry.cfg shows that the hypothesis is       *)
(* needed.                                                                    *)
(*                                                                            *)
(* Deploys, for operators who let the plan decide and roll back to older      *)
(* commits, and worktrees whose reset works (OrdinaryUse): what is checked    *)
(* out, loaded or recorded as a target of a rollback is code that was         *)
(* migrated, or code that an operation is about to migrate (StepMigrated,     *)
(* EntriesMigrated), as long as no rollback failed and the server did not die.*)
(*                                                                            *)
(* The life of a production whose purges are the reaper's, under the lock of  *)
(* the name (OnlyReaper): what exists under a name at each step of a creation,*)
(* a roll-back, a reconfiguration and a deletion is known (the stages), a     *)
(* purge that read the registry early looks again once it has the lock.       *)
EXTENDS MCProductions, Sequences, WellFoundedInduction, TLAPS


(* The live filestore is the current one; it is missing only after one could *)
(* not be put back.                                                          *)
FilesThere ==
    \/ fs["live"] = current
    \/ fs["live"] = Absent /\ "put_back_failed" \in mishaps

Coherent == db["live"] = current /\ FilesThere

(* The steps between the end of Odoo's sessions and the decision to start it.*)
Swap == {"drop_old", "rename_out", "rename_in", "undo_in", "move_out", "move_in",
         "undo_swap", "remove_old", "drop_done"}

Ended == {"idle", "cleanup"}

(* Where the old version is: never only under the scratch name.              *)
Survives ==
    /\ current \in {db["live"], db["old"]}
    /\ current \in {fs["live"], fs["old"]} \cup strays

(* What the restore knows of the pair is so.                                 *)
Knowledge ==
    /\ step \in Ended /\ ~uncertain => Coherent
    /\ step \notin Ended /\ job.safe => Coherent
    /\ step \notin Ended => ~uncertain

(* Odoo is down wherever the pair may be incoherent, unless the restore took *)
(* a restarting container for a stopped one.                                 *)
Downtime ==
    "began_restarting" \notin mishaps /\ odoo # "stopped" =>
        /\ Coherent
        /\ step \notin Swap
        /\ ~uncertain
        /\ step \in {"finally", "cleanup"} => job.safe
        /\ step \in {"staging", "stopping"} => job.wasRunning

(* What is where at each step.                                               *)
Layout ==
    /\ step \in {"idle", "staging", "stopping", "drop_old", "rename_out"} => fs["old"] = Absent
    /\ step \in {"staging", "stopping", "drop_old", "rename_out"} => job.safe
    /\ step \in {"rename_in", "undo_in", "move_out", "move_in", "undo_swap"} => ~job.safe
    /\ step \in {"stopping", "drop_old", "rename_out"} =>
         db["stage"] = job.target /\ fs["stage"] = job.target
    /\ step = "rename_in" =>
         /\ db["live"] = Absent /\ db["stage"] = job.target /\ db["old"] = current
         /\ FilesThere /\ fs["stage"] = job.target /\ fs["old"] = Absent
    /\ step = "undo_in" => db["old"] = current /\ FilesThere
    /\ step \in {"move_out", "move_in", "undo_swap"} =>
         db["live"] = job.target /\ db["stage"] = Absent /\ db["old"] = current
    /\ step = "move_out" => FilesThere /\ fs["stage"] = job.target /\ fs["old"] = Absent
    /\ step = "move_in" =>
         /\ fs["live"] = Absent /\ fs["stage"] = job.target
         /\ fs["old"] = current \/ (fs["old"] = Absent /\ "put_back_failed" \in mishaps)
    /\ step = "undo_swap" => FilesThere
    /\ step \in {"remove_old", "drop_done"} => job.safe /\ fs["live"] = current

Inv == Survives /\ Knowledge /\ Downtime /\ Layout

-----------------------------------------------------------------------------
(* A rename, a drop and an update of a place keep a map of places a map.     *)
LEMMA PlacesKept ==
    ASSUME NEW S, Absent \in S, NEW f \in [Places -> S], NEW p \in Places, NEW q \in Places
    PROVE  Moved(f, p, q) \in [Places -> S] /\ Dropped(f, p) \in [Places -> S]
  BY DEF Moved, CanMove, Dropped

(* The restore's variables keep their types, whatever fails                  *)
(* (backup_ops._commit_restored_pair, restore_production).                   *)
THEOREM TypeCorrect == Spec => []TypeOK
<1>1. Init => TypeOK
  <2> SUFFICES ASSUME Init PROVE TypeOK
    OBVIOUS
  <2>1. db \in [Places -> Versions \cup {Absent, Partial}] /\ fs \in [Places -> Versions \cup {Absent}]
    BY VersionsAssumption DEF Init
  <2>2. failures \in 0..MaxFailures /\ crashes \in 0..MaxCrashes
    BY BoundsAssumption DEF Init
  <2> QED
    BY <2>1, <2>2, VersionsAssumption DEF Init, TypeOK, Steps
<1>2. TypeOK /\ [Next]_vars => TypeOK'
  <2> SUFFICES ASSUME TypeOK, [Next]_vars PROVE TypeOK'
    OBVIOUS
  <2> USE VersionsAssumption, BoundsAssumption DEF TypeOK, Steps, Goto, Works, Fails, Bounds
  <2>1. CASE \E v \in Versions : Begin(v)
    <3> PICK v \in Versions : Begin(v)
      BY <2>1
    <3>1. job' \in [target : Versions, before : Versions, wasRunning : BOOLEAN,
                   stopped : BOOLEAN, safe : BOOLEAN, committed : BOOLEAN]
      BY DEF Begin
    <3>2. mishaps' \subseteq {"put_back_failed", "began_restarting"}
      BY DEF Begin
    <3>3. /\ UNCHANGED <<db, fs, strays, odoo, current, uncertain, outcome, failures, crashes>>
          /\ step' = "staging"
      BY DEF Begin
    <3> QED
      BY <3>1, <3>2, <3>3
  <2>2. CASE StagePair
    BY <2>2 DEF StagePair
  <2>3. CASE StagePairFails
    <3>1. db' \in [Places -> Versions \cup {Absent, Partial}]
      <4>1. PICK d \in {db["stage"], Absent, Partial} : db' = [db EXCEPT !["stage"] = d]
        BY <2>3 DEF StagePairFails
      <4>2. d \in Versions \cup {Absent, Partial}
        BY DEF Places
      <4> QED
        BY <4>1, <4>2 DEF Places
    <3>2. failures' \in 0..MaxFailures /\ UNCHANGED crashes
      BY <2>3 DEF StagePairFails
    <3>3. /\ UNCHANGED <<fs, strays, odoo, job, current, uncertain, outcome, mishaps>>
          /\ step' = "cleanup"
      BY <2>3 DEF StagePairFails
    <3> HIDE <2>3
    <3> QED
      BY <3>1, <3>2, <3>3
  <2>4. CASE StopOdoo
    <3>1. job' \in [target : Versions, before : Versions, wasRunning : BOOLEAN,
                    stopped : BOOLEAN, safe : BOOLEAN, committed : BOOLEAN]
      BY <2>4 DEF StopOdoo
    <3>2. step' = "drop_old" /\ odoo' \in {"running", "stopped", "restarting"}
      BY <2>4 DEF StopOdoo
    <3>3. UNCHANGED <<db, fs, strays, current, uncertain, outcome, mishaps, failures, crashes>>
      BY <2>4 DEF StopOdoo
    <3> HIDE <2>4
    <3> QED
      BY <3>1, <3>2, <3>3
  <2>5. CASE StopOdooFails
    BY <2>5 DEF StopOdooFails
  <2>6. CASE DropOld
    <3>1. db' \in [Places -> Versions \cup {Absent, Partial}]
      BY <2>6, PlacesKept DEF DropOld, Places
    <3>2. fs' \in [Places -> Versions \cup {Absent}]
      BY <2>6, PlacesKept DEF DropOld, Places
    <3> QED
      BY <2>6, <3>1, <3>2 DEF DropOld
  <2>7. CASE DropOldFails
    <3>1. Dropped(db, "old") \in [Places -> Versions \cup {Absent, Partial}]
      BY PlacesKept DEF Places
    <3>2. db' \in [Places -> Versions \cup {Absent, Partial}]
      BY <2>7, <3>1 DEF DropOldFails
    <3>3. failures' \in 0..MaxFailures /\ UNCHANGED crashes
      BY <2>7 DEF DropOldFails
    <3> QED
      BY <2>7, <3>2, <3>3 DEF DropOldFails
  <2>8. CASE RenameOut
    <3>1. db' \in [Places -> Versions \cup {Absent, Partial}]
      BY <2>8, PlacesKept DEF RenameOut, Places
    <3>2. fs' \in [Places -> Versions \cup {Absent}]
      BY <2>8, PlacesKept DEF RenameOut, Places
    <3> QED
      BY <2>8, <3>1, <3>2 DEF RenameOut
  <2>9. CASE RenameOutFails
    <3>1. Moved(db, "live", "old") \in [Places -> Versions \cup {Absent, Partial}]
      BY PlacesKept DEF Places
    <3>2. db' \in [Places -> Versions \cup {Absent, Partial}]
      BY <2>9, <3>1 DEF RenameOutFails
    <3>3. failures' \in 0..MaxFailures /\ UNCHANGED crashes
      BY <2>9 DEF RenameOutFails
    <3> QED
      BY <2>9, <3>2, <3>3 DEF RenameOutFails
  <2>10. CASE RenameIn
    <3>1. db' \in [Places -> Versions \cup {Absent, Partial}]
      BY <2>10, PlacesKept DEF RenameIn, Places
    <3>2. fs' \in [Places -> Versions \cup {Absent}]
      BY <2>10, PlacesKept DEF RenameIn, Places
    <3> QED
      BY <2>10, <3>1, <3>2 DEF RenameIn
  <2>11. CASE RenameInFails
    <3>1. Moved(db, "stage", "live") \in [Places -> Versions \cup {Absent, Partial}]
      BY PlacesKept DEF Places
    <3>2. db' \in [Places -> Versions \cup {Absent, Partial}]
      BY <2>11, <3>1 DEF RenameInFails
    <3>3. failures' \in 0..MaxFailures /\ UNCHANGED crashes
      BY <2>11 DEF RenameInFails
    <3> QED
      BY <2>11, <3>2, <3>3 DEF RenameInFails
  <2>12. CASE UndoRename
    <3>1. db' \in [Places -> Versions \cup {Absent, Partial}]
      BY <2>12, PlacesKept DEF UndoRename, Places
    <3>2. fs' \in [Places -> Versions \cup {Absent}]
      BY <2>12, PlacesKept DEF UndoRename, Places
    <3> QED
      BY <2>12, <3>1, <3>2 DEF UndoRename
  <2>13. CASE UndoRenameFails
    <3>1. Moved(db, "old", "live") \in [Places -> Versions \cup {Absent, Partial}]
      BY PlacesKept DEF Places
    <3>2. db' \in [Places -> Versions \cup {Absent, Partial}]
      BY <2>13, <3>1 DEF UndoRenameFails
    <3>3. failures' \in 0..MaxFailures /\ UNCHANGED crashes
      BY <2>13 DEF UndoRenameFails
    <3> QED
      BY <2>13, <3>2, <3>3 DEF UndoRenameFails
  <2>14. CASE MoveOut
    <3>1. db' \in [Places -> Versions \cup {Absent, Partial}]
      BY <2>14, PlacesKept DEF MoveOut, Places
    <3>2. fs' \in [Places -> Versions \cup {Absent}]
      BY <2>14, PlacesKept DEF MoveOut, Places
    <3> QED
      BY <2>14, <3>1, <3>2 DEF MoveOut
  <2>15. CASE MoveOutFails
    BY <2>15 DEF MoveOutFails
  <2>16. CASE MoveIn
    <3>1. db' \in [Places -> Versions \cup {Absent, Partial}]
      BY <2>16, PlacesKept DEF MoveIn, Places
    <3>2. fs' \in [Places -> Versions \cup {Absent}]
      BY <2>16, PlacesKept DEF MoveIn, Places
    <3> QED
      BY <2>16, <3>1, <3>2 DEF MoveIn
  <2>17. CASE MoveInFails
    <3>1. db' \in [Places -> Versions \cup {Absent, Partial}]
      BY <2>17, PlacesKept DEF MoveInFails, Places
    <3>2. fs' \in [Places -> Versions \cup {Absent}]
      BY <2>17, PlacesKept DEF MoveInFails, Places
    <3> QED
      BY <2>17, <3>1, <3>2 DEF MoveInFails
  <2>18. CASE MoveInFailsTwice
    BY <2>18 DEF MoveInFailsTwice
  <2>19. CASE UndoSwap
    <3>1. db' \in [Places -> Versions \cup {Absent, Partial}]
      BY <2>19, PlacesKept DEF UndoSwap, SwappedBack, Places
    <3>2. fs' \in [Places -> Versions \cup {Absent}]
      BY <2>19, PlacesKept DEF UndoSwap, SwappedBack, Places
    <3> QED
      BY <2>19, <3>1, <3>2 DEF UndoSwap, SwappedBack
  <2>20. CASE UndoSwapFails
    <3>1. Moved(db, "live", "stage") \in [Places -> Versions \cup {Absent, Partial}]
      BY PlacesKept DEF Places
    <3>2. SwappedBack \in [Places -> Versions \cup {Absent, Partial}]
      BY <3>1, PlacesKept DEF SwappedBack, Places
    <3>3. db' \in [Places -> Versions \cup {Absent, Partial}]
      BY <2>20, <3>1, <3>2 DEF UndoSwapFails
    <3> QED
      BY <2>20, <3>3 DEF UndoSwapFails
  <2>21. CASE RemoveOld
    <3>1. db' \in [Places -> Versions \cup {Absent, Partial}]
      BY <2>21, PlacesKept DEF RemoveOld, Places
    <3>2. fs' \in [Places -> Versions \cup {Absent}]
      BY <2>21, PlacesKept DEF RemoveOld, Places
    <3> QED
      BY <2>21, <3>1, <3>2 DEF RemoveOld
  <2>22. CASE DropDone
    <3>1. db' \in [Places -> Versions \cup {Absent, Partial}]
      BY <2>22, PlacesKept DEF DropDone, Places
    <3>2. fs' \in [Places -> Versions \cup {Absent}]
      BY <2>22, PlacesKept DEF DropDone, Places
    <3> QED
      BY <2>22, <3>1, <3>2 DEF DropDone
  <2>23. CASE DropDoneFails
    <3>1. Dropped(db, "old") \in [Places -> Versions \cup {Absent, Partial}]
      BY PlacesKept DEF Places
    <3>2. db' \in [Places -> Versions \cup {Absent, Partial}]
      BY <2>23, <3>1 DEF DropDoneFails
    <3>3. failures' \in 0..MaxFailures /\ UNCHANGED crashes
      BY <2>23 DEF DropDoneFails
    <3> QED
      BY <2>23, <3>2, <3>3 DEF DropDoneFails
  <2>24. CASE Finally
    BY <2>24 DEF Finally, StartAgain
  <2>25. CASE FinallyStartFails
    BY <2>25 DEF FinallyStartFails, StartAgain
  <2>26. CASE Cleanup
    <3>1. Dropped(db, "stage") \in [Places -> Versions \cup {Absent, Partial}]
      BY PlacesKept DEF Places
    <3>2. db' = db \/ db' = Dropped(db, "stage")
      BY <2>26 DEF Cleanup
    <3>3. fs' \in [Places -> Versions \cup {Absent}]
      BY <2>26 DEF Cleanup, Places
    <3> QED
      BY <2>26, <3>1, <3>2, <3>3 DEF Cleanup
  <2>27. CASE Die
    <3>1. fs' \in [Places -> Versions \cup {Absent}] /\ strays' \subseteq Versions
      BY <2>27 DEF Die, Places
    <3>2. crashes' \in 0..MaxCrashes
      BY <2>27 DEF Die
    <3> QED
      BY <2>27, <3>1, <3>2 DEF Die
  <2>28. CASE StartProduction
    BY <2>28 DEF StartProduction
  <2>29. CASE StopProduction
    BY <2>29 DEF StopProduction
  <2>30. CASE Repair
    BY <2>30 DEF Repair
  <2>31. CASE OdooDies
    BY <2>31 DEF OdooDies
  <2>32. CASE DockerRestarts
    BY <2>32 DEF DockerRestarts
  <2>33. CASE UNCHANGED vars
    BY <2>33 DEF vars
  <2> QED
    BY <2>1, <2>2, <2>3, <2>4, <2>5, <2>6, <2>7, <2>8, <2>9, <2>10, <2>11, <2>12, <2>13, <2>14,
       <2>15, <2>16, <2>17, <2>18, <2>19, <2>20, <2>21, <2>22, <2>23, <2>24, <2>25, <2>26,
       <2>27, <2>28, <2>29, <2>30, <2>31, <2>32, <2>33 DEF Next, RestoreStep
<1> QED
  BY <1>1, <1>2, PTL DEF Spec

-----------------------------------------------------------------------------
(* The invariant holds of a production that was never restored.              *)
LEMMA InvInit == Init => Inv
  BY VersionsAssumption DEF Init, Inv, Survives, Knowledge, Downtime, Layout, Coherent,
     FilesThere, Ended, Swap, Places

(* Every step of a restore, and of everything around it, keeps it.           *)
LEMMA InvNext == ASSUME Careful, TypeOK, Inv, [Next]_vars PROVE Inv'
<1> USE VersionsAssumption DEF Inv, Ended, Swap, Goto, Works, Fails, Bounds
<1> USE DEF Survives, Knowledge, Downtime, Layout, Coherent, FilesThere
<1> db \in [{"live", "stage", "old"} -> Versions \cup {Absent, Partial}]
  BY DEF TypeOK, Places
<1> fs \in [{"live", "stage", "old"} -> Versions \cup {Absent}]
  BY DEF TypeOK, Places
<1> /\ current \in Versions /\ strays \subseteq Versions
    /\ job \in [target : Versions, before : Versions, wasRunning : BOOLEAN,
                stopped : BOOLEAN, safe : BOOLEAN, committed : BOOLEAN]
  BY DEF TypeOK
<1>1. CASE \E v \in Versions : Begin(v)
  <2> PICK v \in Versions : Begin(v)
    BY <1>1
  <2>1. job' = [target |-> v, before |-> current, wasRunning |-> odoo = "running",
                stopped |-> FALSE, safe |-> TRUE, committed |-> FALSE]
    BY DEF Begin
  <2>2. step = "idle" /\ step' = "staging" /\ ~uncertain
    BY DEF Begin
  <2>3. UNCHANGED <<db, fs, strays, odoo, current, uncertain>>
    BY DEF Begin
  <2>4. /\ "put_back_failed" \in mishaps' <=> "put_back_failed" \in mishaps
        /\ "began_restarting" \notin mishaps' => "began_restarting" \notin mishaps /\ odoo # "restarting"
    BY DEF Begin
  <2>5. odoo \in {"running", "stopped", "restarting"}
    BY DEF TypeOK
  <2> QED
    BY <2>1, <2>2, <2>3, <2>4, <2>5
<1>2. CASE StagePair
  BY <1>2 DEF StagePair
<1>3. CASE StagePairFails
  BY <1>3 DEF StagePairFails
<1>4. CASE StopOdoo
  BY <1>4 DEF StopOdoo
<1>5. CASE StopOdooFails
  BY <1>5 DEF StopOdooFails
<1>6. CASE DropOld
  BY <1>6 DEF DropOld, Dropped
<1>7. CASE DropOldFails
  BY <1>7 DEF DropOldFails, Dropped
<1>8. CASE RenameOut
  BY <1>8 DEF RenameOut, Moved, CanMove
<1>9. CASE RenameOutFails
  BY <1>9 DEF RenameOutFails, Moved, CanMove
<1>10. CASE RenameIn
  BY <1>10 DEF RenameIn, Moved, CanMove
<1>11. CASE RenameInFails
  BY <1>11 DEF RenameInFails, Moved, CanMove
<1>12. CASE UndoRename
  BY <1>12 DEF UndoRename, Moved, CanMove
<1>13. CASE UndoRenameFails
  BY <1>13 DEF UndoRenameFails, Moved, CanMove
<1>14. CASE MoveOut
  BY <1>14 DEF MoveOut, Moved, CanMove
<1>15. CASE MoveOutFails
  BY <1>15 DEF MoveOutFails
<1>16. CASE MoveIn
  BY <1>16 DEF MoveIn, Moved, CanMove
<1>17. CASE MoveInFails
  BY <1>17 DEF MoveInFails, Moved, CanMove
<1>18. CASE MoveInFailsTwice
  BY <1>18 DEF MoveInFailsTwice
<1>19. CASE UndoSwap
  BY <1>19 DEF UndoSwap, Moved, CanMove, SwappedBack
<1>20. CASE UndoSwapFails
  BY <1>20 DEF UndoSwapFails, Moved, CanMove, SwappedBack
<1>21. CASE RemoveOld
  BY <1>21 DEF RemoveOld, Dropped
<1>22. CASE DropDone
  BY <1>22 DEF DropDone, Dropped
<1>23. CASE DropDoneFails
  BY <1>23 DEF DropDoneFails, Dropped
<1>24. CASE Finally
  BY <1>24 DEF Finally, StartAgain
<1>25. CASE FinallyStartFails
  BY <1>25 DEF FinallyStartFails, StartAgain
<1>26. CASE Cleanup
  <2>1. /\ step = "cleanup" /\ step' = "idle"
        /\ db' = db \/ db' = [db EXCEPT !["stage"] = Absent]
        /\ fs' = [fs EXCEPT !["stage"] = Absent, !["old"] = Absent]
        /\ UNCHANGED <<odoo, job, current, uncertain, mishaps>>
    BY <1>26 DEF Cleanup, Dropped
  <2>2. strays' = strays \cup ({fs["old"]} \cap Versions)
    BY <1>26 DEF Cleanup
  <2>3. Survives'
    BY <2>1, <2>2
  <2>4. Coherent => Coherent'
    BY <2>1
  <2>5. Knowledge' /\ Downtime'
    <3> HIDE DEF Coherent
    <3> QED
      BY <2>1, <2>4
  <2>6. Layout'
    BY <2>1
  <2> QED
    BY <2>3, <2>5, <2>6
<1>27. CASE Die
  <2>1. /\ step # "idle" /\ step' = "idle"
        /\ fs' = [fs EXCEPT !["stage"] = Absent, !["old"] = Absent]
        /\ uncertain' = (uncertain \/ ~job.safe)
        /\ UNCHANGED <<db, odoo, job, current, mishaps>>
    BY <1>27 DEF Die
  <2>2. strays' = strays \cup ({fs["stage"], fs["old"]} \cap Versions)
    BY <1>27 DEF Die
  <2>3. Survives'
    BY <2>1, <2>2
  <2>4. Coherent => Coherent'
    BY <2>1
  <2>5. Knowledge' /\ Downtime'
    <3> HIDE DEF Coherent
    <3>1. step \in Steps
      BY DEF TypeOK
    <3> QED
      BY <2>1, <2>4, <3>1 DEF Steps
  <2>6. Layout'
    BY <2>1
  <2> QED
    BY <2>3, <2>5, <2>6
<1>28. CASE StartProduction
  BY <1>28 DEF StartProduction
<1>29. CASE StopProduction
  BY <1>29 DEF StopProduction
<1>30. CASE Repair
  BY <1>30 DEF Repair, Places
<1>31. CASE OdooDies
  BY <1>31 DEF OdooDies
<1>32. CASE DockerRestarts
  BY <1>32 DEF DockerRestarts
<1>33. CASE UNCHANGED vars
  BY <1>33 DEF vars
<1> QED
  BY <1>1, <1>2, <1>3, <1>4, <1>5, <1>6, <1>7, <1>8, <1>9, <1>10, <1>11, <1>12, <1>13, <1>14,
     <1>15, <1>16, <1>17, <1>18, <1>19, <1>20, <1>21, <1>22, <1>23, <1>24, <1>25, <1>26, <1>27,
     <1>28, <1>29, <1>30, <1>31, <1>32, <1>33 DEF Next, RestoreStep

-----------------------------------------------------------------------------
(* Odoo runs on nothing but the pair whose swap completed last               *)
(* (_commit_restored_pair: restarted only once the live state is provably    *)
(* coherent again).                                                          *)
THEOREM ServesCoherent == ASSUME Careful PROVE Spec => []ServesCoherentPair
<1>1. Inv => ServesCoherentPair
  BY DEF Inv, Downtime, Coherent, FilesThere, ServesCoherentPair
<1> QED
  BY <1>1, InvInit, InvNext, TypeCorrect, PTL DEF Spec

(* What a restore replaces exists until its swap is complete                 *)
(* (_commit_restored_pair: the old database is dropped last).                *)
THEOREM DataSurvives == ASSUME Careful PROVE Spec => []PreviousSurvives
<1>1. Inv => PreviousSurvives
  BY DEF Inv, Survives, PreviousSurvives, Places
<1> QED
  BY <1>1, InvInit, InvNext, TypeCorrect, PTL DEF Spec

(* The data never changes under a running Odoo (_commit_restored_pair:       *)
(* downtime starts before the first rename).                                 *)
THEOREM SwapsWhileDown == ASSUME Careful PROVE Spec => SwapsOnlyWhileDown
<1> DEFINE Quiet == (db["live"]' # db["live"] \/ fs["live"]' # fs["live"]) /\ "began_restarting" \notin mishaps
                     => odoo # "running"
<1>1. TypeOK /\ Inv /\ [Next]_vars => Quiet
  <2> SUFFICES ASSUME TypeOK, Inv, [Next]_vars, odoo = "running", "began_restarting" \notin mishaps
               PROVE  db["live"]' = db["live"] /\ fs["live"]' = fs["live"]
    OBVIOUS
  <2> USE DEF TypeOK, Places
  <2> step \notin Swap /\ ~uncertain
    BY DEF Inv, Downtime
  <2>1. CASE RestoreStep
    <3>1. CASE StagePair \/ StagePairFails
      BY <3>1 DEF StagePair, StagePairFails
    <3>2. CASE StopOdoo \/ StopOdooFails \/ Finally \/ FinallyStartFails
      BY <3>2 DEF StopOdoo, StopOdooFails, Finally, FinallyStartFails
    <3>3. CASE Cleanup
      BY <3>3 DEF Cleanup, Dropped
    <3> QED
      BY <2>1, <3>1, <3>2, <3>3 DEF Swap, Goto, RestoreStep, DropOld, DropOldFails, RenameOut,
         RenameOutFails, RenameIn, RenameInFails, UndoRename, UndoRenameFails, MoveOut,
         MoveOutFails, MoveIn, MoveInFails, MoveInFailsTwice, UndoSwap, UndoSwapFails,
         RemoveOld, DropDone, DropDoneFails
  <2>2. CASE Repair
    BY <2>2 DEF Repair
  <2>3. CASE Die
    BY <2>3 DEF Die
  <2>4. CASE (\E v \in Versions : Begin(v)) \/ StartProduction \/ StopProduction \/ OdooDies \/ DockerRestarts
    BY <2>4 DEF Begin, StartProduction, StopProduction, OdooDies, DockerRestarts
  <2>5. CASE UNCHANGED vars
    BY <2>5 DEF vars
  <2> QED
    BY <2>1, <2>2, <2>3, <2>4, <2>5 DEF Next
<1> QED
  BY <1>1, InvInit, InvNext, TypeCorrect, PTL DEF Spec, SwapsOnlyWhileDown


-----------------------------------------------------------------------------
(* The inductive invariant.                                                  *)

DoneIn(S, r, n) == \A k \in 1..n : Kind[r][k] = "upgrade" => <<r, k>> \in S
MigratedIn(S, code) == \A r \in Repos : DoneIn(S, r, code[r])
Migrated(code) == MigratedIn(schema, code)

(* What a rollback can go back to went through its migrations.               *)
EntriesMigrated ==
    \A i \in DOMAIN deploys :
        /\ DoneIn(schema, Main, deploys[i].from)
        /\ deploys[i].heads # Deploy!NoHeads => Migrated(deploys[i].heads)

(* Nothing is newer than the branches.                                       *)
AtMost(code, bound) == \A r \in Repos : code[r] <= bound[r]
Pulling == {"pull_main", "pull_extras", "decide", "rewound", "apply", "refresh", "verify"}
CodesBehind ==
    /\ AtMost(head, tip)
    /\ op.step # "idle" => AtMost(op.old, tip)
    /\ op.step \in {"rewound", "reset"} => AtMost(op.new, tip)
EntriesBehind ==
    \A i \in DOMAIN deploys :
        /\ deploys[i].from <= tip[Main]
        /\ deploys[i].heads # Deploy!NoHeads => AtMost(deploys[i].heads, tip)
Behind == CodesBehind /\ EntriesBehind

(* What is checked out at each step.                                         *)
CheckedOut ==
    /\ op.step = "rewound" => head = IF Hooks THEN op.old ELSE op.new
    /\ op.step \in {"apply", "refresh"} => head = op.new
    /\ op.step = "reset" => head = op.old
    /\ ~op.explicit

(* What the operation holds at each step; Odoo may load it at any time.      *)
Coming == IF op.step = "rewound" THEN op.new ELSE head
LoadedIsBehind == \A r \in Repos : DoneIn(schema, r, loaded[r]) \/ loaded[r] <= Coming[r]
StepMigrated ==
    /\ op.step \in {"idle", "restart_to", "verify"} => Migrated(head) /\ Migrated(loaded)
    /\ op.step # "idle" => Migrated(op.old)
    /\ op.step = "refresh" => Migrated(head)
    /\ op.step \in Pulling => LoadedIsBehind

(* The flag, and the room for the entry an operation leaves.                 *)
FlagInv == flags.deploying /\ up => op.step \notin {"idle", "restart_to"}
RoomLeft == op.step # "idle" => Len(deploys) < MaxEntries

MigrationInv == Deploy!Undisturbed => EntriesMigrated /\ StepMigrated
DeployInv == Deploy!TypeOK /\ RoomLeft /\ FlagInv /\ Behind /\ CheckedOut /\ MigrationInv

-----------------------------------------------------------------------------
(* Commits and migrations.                                                   *)

(* The bounds are numbers.                                                   *)
LEMMA DeployNumbers ==
    /\ Main \in Repos /\ MaxCommit \in Nat /\ DeployFailures \in Nat /\ DeployCrashes \in Nat
    /\ MaxEntries \in Nat \ {0} /\ Kind \in [Repos -> [1..MaxCommit -> Deploy!Kinds]]
BY ProductionsConstants DEF Deploy!DeployConstants

(* A code has a commit of each repository.                                   *)
LEMMA CodeIsNat == \A c \in Deploy!Code, r \in Repos : c[r] \in 0..MaxCommit /\ c[r] \in Nat
BY DeployNumbers DEF Deploy!Code

(* Nothing is a code too.                                                    *)
LEMMA ZeroIsCode == Deploy!Zero \in Deploy!Code
BY DeployNumbers DEF Deploy!Zero, Deploy!Code

(* What is done up to a commit is done up to an earlier one,                 *)
LEMMA LessIsDone ==
    ASSUME NEW S, NEW r \in Repos, NEW n \in Nat, NEW m \in Nat, m <= n, DoneIn(S, r, n)
    PROVE  DoneIn(S, r, m)
BY DEF DoneIn

(* and stays done when the database goes through more.                       *)
LEMMA MoreStaysDone ==
    ASSUME NEW S, NEW T, S \subseteq T, NEW r, NEW n, DoneIn(S, r, n)
    PROVE  DoneIn(T, r, n)
BY DEF DoneIn

(* So a code that was migrated stays so.                                     *)
LEMMA StaysMigrated ==
    ASSUME NEW S, NEW T, S \subseteq T, NEW c \in Deploy!Code, MigratedIn(S, c)
    PROVE  MigratedIn(T, c)
BY MoreStaysDone DEF MigratedIn

(* A commit of the new code is in the old one or was pulled.                 *)
LEMMA PulledIsBetween ==
    ASSUME NEW old \in Deploy!Code, NEW new \in Deploy!Code, NEW r \in Repos, NEW k \in 1..new[r]
    PROVE  k <= old[r] \/ <<r, k>> \in Deploy!Pulled(old, new)
BY CodeIsNat, DeployNumbers DEF Deploy!Pulled, Deploy!Migrations

(* An upgrade of what was pulled migrates the new code.                      *)
LEMMA UpgradeMigrates ==
    ASSUME NEW S, NEW old \in Deploy!Code, NEW new \in Deploy!Code, MigratedIn(S, old)
    PROVE  MigratedIn(S \cup Deploy!ToMigrate(old, new), new)
<1> SUFFICES ASSUME NEW r \in Repos, NEW k \in 1..new[r], Kind[r][k] = "upgrade"
             PROVE  <<r, k>> \in S \cup Deploy!ToMigrate(old, new)
  BY DEF MigratedIn, DoneIn
<1>1. CASE k <= old[r]
  BY <1>1, CodeIsNat DEF MigratedIn, DoneIn
<1>2. CASE <<r, k>> \in Deploy!Pulled(old, new)
  BY <1>2 DEF Deploy!ToMigrate
<1>. QED BY <1>1, <1>2, PulledIsBetween

(* Where what was pulled asks for none, the new code is migrated.            *)
LEMMA NoUpgradeAsked ==
    ASSUME NEW S, NEW old \in Deploy!Code, NEW new \in Deploy!Code, MigratedIn(S, old),
           "upgrade" \notin Deploy!Asked(old, new)
    PROVE  MigratedIn(S, new)
<1> SUFFICES ASSUME NEW r \in Repos, NEW k \in 1..new[r], Kind[r][k] = "upgrade"
             PROVE  <<r, k>> \in S
  BY DEF MigratedIn, DoneIn
<1>1. CASE k <= old[r]
  BY <1>1, CodeIsNat DEF MigratedIn, DoneIn
<1>2. CASE <<r, k>> \in Deploy!Pulled(old, new)
  <2>1. Kind[<<r, k>>[1]][<<r, k>>[2]] \in Deploy!Asked(old, new) BY <1>2 DEF Deploy!Asked
  <2>. QED BY <2>1
<1>. QED BY <1>1, <1>2, PulledIsBetween

(* Commits ask for what there is to ask for.                                 *)
LEMMA AskedAreKinds == \A old, new \in Deploy!Code : Deploy!Asked(old, new) \subseteq Deploy!Kinds
BY DeployNumbers DEF Deploy!Asked, Deploy!Pulled, Deploy!Migrations

(* A plan asks for the strongest of what the commits ask for.                *)
LEMMA PlanIsStrongest ==
    ASSUME NEW old \in Deploy!Code, NEW new \in Deploy!Code
    PROVE  /\ Deploy!Plan(old, new) \in Deploy!Asked(old, new) \cup {"none"}
           /\ \A j \in Deploy!Asked(old,
                 new) : Deploy!Strength[j] <= Deploy!Strength[Deploy!Plan(old, new)]
<1> DEFINE A == Deploy!Asked(old, new)
           P(k) == \A j \in A : Deploy!Strength[j] <= Deploy!Strength[k]
<1>1. A \subseteq Deploy!Kinds BY AskedAreKinds
<1>2. \A j, k \in Deploy!Kinds : Deploy!Strength[j] <= Deploy!Strength[k]
        \/ Deploy!Strength[k] <= Deploy!Strength[j]
  BY DEF Deploy!Kinds, Deploy!Strength
<1>3. \E k \in A \cup {"none"} : P(k)
  <2>1. CASE "upgrade" \in A BY <1>1, <2>1 DEF Deploy!Kinds, Deploy!Strength
  <2>2. CASE "upgrade" \notin A /\ "restart" \in A BY <1>1, <2>2 DEF Deploy!Kinds, Deploy!Strength
  <2>3. CASE "upgrade" \notin A /\ "restart" \notin A /\ "refresh" \in A
    BY <1>1, <2>3 DEF Deploy!Kinds, Deploy!Strength
  <2>4. CASE A \subseteq {"none"} BY <2>4 DEF Deploy!Kinds, Deploy!Strength
  <2>. QED BY <1>1, <2>1, <2>2, <2>3, <2>4 DEF Deploy!Kinds
<1>. QED BY <1>3 DEF Deploy!Plan

(* So a plan without an upgrade leaves the new code migrated.                *)
LEMMA PlanMigrates ==
    ASSUME NEW S, NEW old \in Deploy!Code, NEW new \in Deploy!Code, MigratedIn(S, old),
           Deploy!Plan(old, new) # "upgrade"
    PROVE  MigratedIn(S, new)
<1>1. "upgrade" \notin Deploy!Asked(old, new)
  <2> SUFFICES ASSUME "upgrade" \in Deploy!Asked(old, new) PROVE FALSE OBVIOUS
  <2>1. Deploy!Strength["upgrade"] <= Deploy!Strength[Deploy!Plan(old, new)] BY PlanIsStrongest
  <2>2. Deploy!Plan(old, new) \in {"none", "refresh", "restart"}
    BY PlanIsStrongest, AskedAreKinds DEF Deploy!Kinds
  <2>. QED BY <2>1, <2>2 DEF Deploy!Strength
<1>. QED BY <1>1, NoUpgradeAsked

(* Nothing is missing where every commit of a code is migrated.              *)
LEMMA NothingMissing ==
    ASSUME Deploy!TypeOK, NEW code \in Deploy!Code
    PROVE  Deploy!Missing(code) = {} <=> Migrated(code)
<1>1. \A r \in Repos, k \in 1..MaxCommit :
         k <= code[r] /\ Kind[r][k] = "upgrade" <=> <<r, k>> \in Deploy!ToMigrate(Deploy!Zero, code)
  BY CodeIsNat, DeployNumbers DEF Deploy!ToMigrate, Deploy!Pulled, Deploy!Migrations, Deploy!Zero
<1>2. Deploy!ToMigrate(Deploy!Zero, code) \subseteq Deploy!Migrations
  BY DEF Deploy!ToMigrate, Deploy!Pulled
<1>3. ASSUME Deploy!Missing(code) = {} PROVE Migrated(code)
  <2>1. \A r \in Repos : \A k \in 1..code[r] : k \in 1..MaxCommit /\ k <= code[r]
    BY CodeIsNat, DeployNumbers
  <2>. QED BY <1>1, <1>3, <2>1 DEF Deploy!Missing, Migrated, MigratedIn, DoneIn
<1>4. ASSUME Migrated(code) PROVE Deploy!Missing(code) = {}
  <2>1. \A m \in Deploy!ToMigrate(Deploy!Zero, code) : \E r \in Repos, k
          \in 1..MaxCommit : m = <<r, k>>
    BY <1>2 DEF Deploy!Migrations
  <2>2. \A r \in Repos, k \in 1..MaxCommit : k <= code[r] => k \in 1..code[r]
    BY CodeIsNat, DeployNumbers
  <2>. QED BY <1>1, <1>4, <2>1, <2>2 DEF Deploy!Missing, Migrated, MigratedIn, DoneIn
<1>. QED BY <1>3, <1>4

-----------------------------------------------------------------------------
(* The newest of the entries that are looked for.                            *)

(* Of some entries of the history one is the newest.                         *)
LEMMA NewestThere ==
    ASSUME NEW n \in Nat, NEW S \in SUBSET (1..n), S # {}
    PROVE  \E i \in S : \A j \in S : j <= i
<1> DEFINE T == {k \in Nat : n - k \in S}
           R == OpToRel(<, Nat)
<1>1. PICK s \in S : TRUE OBVIOUS
<1>2. n - s \in Nat /\ n - (n - s) = s BY <1>1
<1>3. T # {} /\ T \subseteq Nat BY <1>1, <1>2
<1>4. \E x \in T : \A y \in T : <<y, x>> \notin R
  BY <1>3, NatLessThanWellFounded, WFMin
<1>5. PICK x \in T : \A y \in T : <<y, x>> \notin R BY <1>4
<1>6. \A y \in T : ~(y < x)
  <2>1. \A a, b \in Nat : a < b => <<a, b>> \in R BY DEF OpToRel
  <2>. QED BY <1>5, <2>1
<1>7. \A j \in S : j <= n - x
  <2> TAKE j \in S
  <2>1. j \in 1..n /\ n - j \in Nat /\ n - (n - j) = j OBVIOUS
  <2>2. n - j \in T BY <2>1
  <2>3. ~(n - j < x) BY <1>6, <2>2
  <2>4. x \in Nat /\ n - j \in Nat /\ j \in Nat /\ n \in Nat BY <2>1
  <2>. HIDE DEF T
  <2>. QED BY <2>3, <2>4
<1>. QED BY <1>5, <1>7

-----------------------------------------------------------------------------
(* The history.                                                              *)

(* An entry names commits.                                                   *)
LEMMA EntriesTyped ==
    ASSUME Deploy!TypeOK, NEW i \in DOMAIN deploys
    PROVE  /\ DOMAIN deploys = 1..Len(deploys) /\ Len(deploys) \in Nat
               /\ deploys[i] \in Deploy!Entry
           /\ deploys[i].from \in 0..MaxCommit
           /\ deploys[i].heads # Deploy!NoHeads => deploys[i].heads \in Deploy!Code
<1>1. DOMAIN deploys = 1..Len(deploys) /\ Len(deploys) \in Nat /\ deploys[i] \in Deploy!Entry
  BY DEF Deploy!TypeOK
<1>. QED BY <1>1 DEF Deploy!Entry

(* A rollback takes its worktrees from the checkout or from an entry.        *)
LEMMA BaseOfCode ==
    ASSUME Deploy!TypeOK, NEW commit
    PROVE  \E base \in Deploy!Code :
              /\ Deploy!CodeFor(commit) = [base EXCEPT ![Main] = commit]
              /\ \/ base = head
                 \/ \E i \in DOMAIN deploys : deploys[i].heads # Deploy!NoHeads
                     /\ base = deploys[i].heads
<1>1. CASE Deploy!Recorded(commit) = {}
  BY <1>1 DEF Deploy!CodeFor, Deploy!TypeOK
<1>2. CASE Deploy!Recorded(commit) # {}
  <2> DEFINE i == CHOOSE i \in Deploy!Recorded(commit) : \A j \in Deploy!Recorded(commit) : j <= i
  <2>1. DOMAIN deploys = 1..Len(deploys) /\ Len(deploys) \in Nat BY DEF Deploy!TypeOK
  <2>2. Deploy!Recorded(commit) \in SUBSET (1..Len(deploys)) BY <2>1 DEF Deploy!Recorded
  <2>3. i \in Deploy!Recorded(commit) BY <1>2, <2>1, <2>2, NewestThere
  <2>4. i \in DOMAIN deploys /\ deploys[i].heads # Deploy!NoHeads BY <2>3 DEF Deploy!Recorded
  <2>5. Deploy!CodeFor(commit) = [deploys[i].heads EXCEPT ![Main] = commit]
    BY <1>2 DEF Deploy!CodeFor
  <2>6. deploys[i].heads \in Deploy!Code BY <2>4, EntriesTyped
  <2>. QED BY <2>4, <2>5, <2>6
<1>. QED BY <1>1, <1>2

(* The default target is where an entry started from.                        *)
LEMMA DefaultIsRecorded ==
    ASSUME Deploy!TypeOK, Deploy!Candidates # {}
    PROVE  \E i \in DOMAIN deploys : Deploy!DefaultTarget = deploys[i].from
<1> DEFINE i == CHOOSE i \in Deploy!Candidates : \A j \in Deploy!Candidates : j <= i
<1>1. DOMAIN deploys = 1..Len(deploys) /\ Len(deploys) \in Nat BY DEF Deploy!TypeOK
<1>2. Deploy!Candidates \in SUBSET (1..Len(deploys)) BY <1>1 DEF Deploy!Candidates
<1>3. i \in Deploy!Candidates BY <1>1, <1>2, NewestThere
<1>4. i \in DOMAIN deploys BY <1>1, <1>2, <1>3
<1>. QED BY <1>4 DEF Deploy!DefaultTarget

(* A rollback goes to a code,                                                *)
LEMMA CodeForIsCode ==
    ASSUME Deploy!TypeOK, NEW commit \in 0..MaxCommit
    PROVE  Deploy!CodeFor(commit) \in Deploy!Code
<1>1. PICK base \in Deploy!Code : Deploy!CodeFor(commit) = [base EXCEPT ![Main] = commit]
  BY BaseOfCode
<1>. QED BY <1>1 DEF Deploy!Code

(* no newer than the branches,                                               *)
LEMMA CodeForBehind ==
    ASSUME Deploy!TypeOK, Behind, NEW commit \in 0..MaxCommit, commit <= tip[Main]
    PROVE  AtMost(Deploy!CodeFor(commit), tip)
<1>1. PICK base \in Deploy!Code :
         /\ Deploy!CodeFor(commit) = [base EXCEPT ![Main] = commit]
         /\ \/ base = head
            \/ \E i \in DOMAIN deploys : deploys[i].heads # Deploy!NoHeads
                /\ base = deploys[i].heads
  BY BaseOfCode
<1>2. AtMost(base, tip) BY <1>1 DEF Behind, CodesBehind, EntriesBehind
<1>. QED BY <1>1, <1>2 DEF AtMost, Deploy!Code

(* and one that is migrated if its commit is.                                *)
LEMMA CodeForMigrated ==
    ASSUME Deploy!TypeOK, EntriesMigrated, Migrated(head),
           NEW commit \in 0..MaxCommit, DoneIn(schema, Main, commit)
    PROVE  Migrated(Deploy!CodeFor(commit))
<1>1. PICK base \in Deploy!Code :
         /\ Deploy!CodeFor(commit) = [base EXCEPT ![Main] = commit]
         /\ \/ base = head
            \/ \E i \in DOMAIN deploys : deploys[i].heads # Deploy!NoHeads
                /\ base = deploys[i].heads
  BY BaseOfCode
<1>2. MigratedIn(schema, base) BY <1>1 DEF EntriesMigrated, Migrated
<1>3. \A r \in Repos : Deploy!CodeFor(commit)[r] = IF r = Main THEN commit ELSE base[r]
  BY <1>1 DEF Deploy!Code
<1>. QED BY <1>2, <1>3 DEF MigratedIn, Migrated

(* What an entry added to the history leaves of the rest.                    *)
LEMMA Appended ==
    ASSUME Deploy!TypeOK, NEW e \in Deploy!Entry, deploys' = Append(deploys, e)
    PROVE  /\ deploys' \in Seq(Deploy!Entry) /\ Len(deploys') = Len(deploys) + 1
           /\ DOMAIN deploys' = DOMAIN deploys \cup {Len(deploys) + 1}
           /\ \A i \in DOMAIN deploys : deploys'[i] = deploys[i]
           /\ deploys'[Len(deploys) + 1] = e
BY DEF Deploy!TypeOK

-----------------------------------------------------------------------------
(* The types, in parts.                                                      *)

CodesTyped == tip \in Deploy!Code /\ head \in Deploy!Code /\ loaded \in Deploy!Code
    /\ schema \subseteq Deploy!Migrations
DeployTyped ==
    /\ op \in [step : Deploy!Steps, old : Deploy!Code, new : Deploy!Code, explicit : BOOLEAN]
    /\ flags \in [deploying : BOOLEAN, unhealthy : BOOLEAN] /\ up \in BOOLEAN
EntriesInRoom == deploys \in Seq(Deploy!Entry) /\ Len(deploys) <= MaxEntries
DeployCounted == deployFailures \in 0..DeployFailures /\ deployCrashes \in 0..DeployCrashes

(* There is room for the entry of an operation.                              *)
LEMMA RecordTyped ==
    ASSUME Deploy!TypeOK, RoomLeft, op.step # "idle", NEW e \in Deploy!Entry,
           deploys' = Append(deploys, e)
    PROVE  EntriesInRoom'
<1>1. Len(deploys) \in Nat /\ Len(deploys) < MaxEntries BY DEF Deploy!TypeOK, RoomLeft
<1>. QED BY <1>1, Appended, DeployNumbers DEF EntriesInRoom

(* The types, after a push to a branch.                                      *)
LEMMA PushTyped == ASSUME Deploy!TypeOK, RoomLeft, FlagInv, NEW r \in Repos, Deploy!Push(r)
                   PROVE  Deploy!TypeOK' /\ RoomLeft' /\ FlagInv'
<1>1. CodesTyped'
  <2>1. tip[r] + 1 \in 0..MaxCommit BY DeployNumbers, CodeIsNat DEF Deploy!TypeOK, Deploy!Push
  <2>. QED BY <2>1 DEF Deploy!TypeOK, CodesTyped, Deploy!Code, Deploy!Push, Deploy!Works
<1>2. DeployTyped'
  BY DeployNumbers, CodeIsNat DEF Deploy!TypeOK, DeployTyped, Deploy!Code, Deploy!Steps,
     Deploy!Push, Deploy!Works
<1>3. EntriesInRoom'
  BY DeployNumbers, CodeIsNat DEF Deploy!TypeOK, RoomLeft, EntriesInRoom, Deploy!Push, Deploy!Works
<1>4. DeployCounted' BY DeployNumbers DEF Deploy!TypeOK, DeployCounted, Deploy!Push, Deploy!Works
<1>5. RoomLeft' BY DEF Deploy!TypeOK, RoomLeft, Deploy!Push, Deploy!Works
<1>6. FlagInv' BY DEF Deploy!TypeOK, FlagInv, Deploy!Push, Deploy!Works
<1>. QED BY <1>1, <1>2, <1>3, <1>4, <1>5, <1>6 DEF CodesTyped, DeployTyped, EntriesInRoom,
            DeployCounted, Deploy!TypeOK

(* The types, after a deploy that starts.                                    *)
LEMMA StartDeployTyped == ASSUME Deploy!TypeOK, RoomLeft, FlagInv, NEW explicit \in BOOLEAN,
                                 Deploy!StartDeploy(explicit)
                          PROVE  Deploy!TypeOK' /\ RoomLeft' /\ FlagInv'
<1>1. CodesTyped'
  BY DeployNumbers, CodeIsNat DEF Deploy!TypeOK, CodesTyped, Deploy!Code, Deploy!Migrations,
     Deploy!StartDeploy, Deploy!Works, Deploy!Flag
<1>2. DeployTyped'
  BY DeployNumbers, CodeIsNat DEF Deploy!TypeOK, DeployTyped, Deploy!Code, Deploy!Steps,
     Deploy!StartDeploy, Deploy!Works, Deploy!Flag
<1>3. EntriesInRoom'
  BY DeployNumbers, CodeIsNat DEF Deploy!TypeOK, RoomLeft, EntriesInRoom, Deploy!StartDeploy,
     Deploy!Works, Deploy!Flag
<1>4. DeployCounted'
  BY DeployNumbers DEF Deploy!TypeOK, DeployCounted, Deploy!StartDeploy, Deploy!Works, Deploy!Flag
<1>5. RoomLeft' BY DEF Deploy!TypeOK, RoomLeft, Deploy!StartDeploy, Deploy!Works, Deploy!Flag
<1>6. FlagInv' BY DEF Deploy!TypeOK, FlagInv, Deploy!StartDeploy, Deploy!Works, Deploy!Flag
<1>. QED BY <1>1, <1>2, <1>3, <1>4, <1>5, <1>6 DEF CodesTyped, DeployTyped, EntriesInRoom,
            DeployCounted, Deploy!TypeOK

(* The types, after the pull of the main repository.                         *)
LEMMA PullMainTyped == ASSUME Deploy!TypeOK, RoomLeft, FlagInv, Deploy!PullMain
                       PROVE  Deploy!TypeOK' /\ RoomLeft' /\ FlagInv'
<1>1. CodesTyped'
  BY DeployNumbers, CodeIsNat DEF Deploy!TypeOK, CodesTyped, Deploy!Code, Deploy!Migrations,
     Deploy!PullMain, Deploy!Goto, Deploy!Works
<1>2. DeployTyped'
  BY DeployNumbers, CodeIsNat DEF Deploy!TypeOK, DeployTyped, Deploy!Code, Deploy!Steps,
     Deploy!PullMain, Deploy!Goto, Deploy!Works
<1>3. EntriesInRoom'
  BY DeployNumbers, CodeIsNat DEF Deploy!TypeOK, RoomLeft, EntriesInRoom, Deploy!PullMain,
     Deploy!Goto, Deploy!Works
<1>4. DeployCounted'
  BY DeployNumbers DEF Deploy!TypeOK, DeployCounted, Deploy!PullMain, Deploy!Goto, Deploy!Works
<1>5. RoomLeft' BY DEF Deploy!TypeOK, RoomLeft, FlagInv, Deploy!PullMain, Deploy!Goto, Deploy!Works
<1>6. FlagInv' BY DEF Deploy!TypeOK, FlagInv, Deploy!PullMain, Deploy!Goto, Deploy!Works
<1>. QED BY <1>1, <1>2, <1>3, <1>4, <1>5, <1>6 DEF CodesTyped, DeployTyped, EntriesInRoom,
            DeployCounted, Deploy!TypeOK

(* The types, after the pull of the extra worktrees.                         *)
LEMMA PullExtrasTyped == ASSUME Deploy!TypeOK, RoomLeft, FlagInv, Deploy!PullExtras
                         PROVE  Deploy!TypeOK' /\ RoomLeft' /\ FlagInv'
<1>1. CodesTyped'
  BY DeployNumbers, CodeIsNat DEF Deploy!TypeOK, CodesTyped, Deploy!Code, Deploy!Migrations,
     Deploy!PullExtras, Deploy!Goto, Deploy!Works
<1>2. DeployTyped'
  BY DeployNumbers, CodeIsNat DEF Deploy!TypeOK, DeployTyped, Deploy!Code, Deploy!Steps,
     Deploy!PullExtras, Deploy!Goto, Deploy!Works
<1>3. EntriesInRoom'
  BY DeployNumbers, CodeIsNat DEF Deploy!TypeOK, RoomLeft, EntriesInRoom, Deploy!PullExtras,
     Deploy!Goto, Deploy!Works
<1>4. DeployCounted'
  BY DeployNumbers DEF Deploy!TypeOK, DeployCounted, Deploy!PullExtras, Deploy!Goto, Deploy!Works
<1>5. RoomLeft'
  BY DEF Deploy!TypeOK, RoomLeft, FlagInv, Deploy!PullExtras, Deploy!Goto, Deploy!Works
<1>6. FlagInv' BY DEF Deploy!TypeOK, FlagInv, Deploy!PullExtras, Deploy!Goto, Deploy!Works
<1>. QED BY <1>1, <1>2, <1>3, <1>4, <1>5, <1>6 DEF CodesTyped, DeployTyped, EntriesInRoom,
            DeployCounted, Deploy!TypeOK

(* The types, after a fetch that fails.                                      *)
LEMMA PullFailsTyped == ASSUME Deploy!TypeOK, RoomLeft, FlagInv, Deploy!PullFails
                        PROVE  Deploy!TypeOK' /\ RoomLeft' /\ FlagInv'
<1>1. CodesTyped'
  BY DeployNumbers, CodeIsNat DEF Deploy!TypeOK, CodesTyped, Deploy!Code, Deploy!Migrations,
     Deploy!PullFails, Deploy!Goto, Deploy!Fails, Deploy!Extras
<1>2. DeployTyped'
  BY DeployNumbers, CodeIsNat DEF Deploy!TypeOK, DeployTyped, Deploy!Code, Deploy!Steps,
     Deploy!PullFails, Deploy!Goto, Deploy!Fails, Deploy!Extras
<1>3. EntriesInRoom'
  BY DeployNumbers, CodeIsNat DEF Deploy!TypeOK, RoomLeft, EntriesInRoom, Deploy!PullFails,
     Deploy!Goto, Deploy!Fails, Deploy!Extras
<1>4. DeployCounted'
  BY DeployNumbers DEF Deploy!TypeOK, DeployCounted, Deploy!PullFails, Deploy!Goto, Deploy!Fails,
     Deploy!Extras
<1>5. RoomLeft'
  BY DEF Deploy!TypeOK, RoomLeft, FlagInv, Deploy!PullFails, Deploy!Goto, Deploy!Fails,
     Deploy!Extras
<1>6. FlagInv'
  BY DEF Deploy!TypeOK, FlagInv, Deploy!PullFails, Deploy!Goto, Deploy!Fails, Deploy!Extras
<1>. QED BY <1>1, <1>2, <1>3, <1>4, <1>5, <1>6 DEF CodesTyped, DeployTyped, EntriesInRoom,
            DeployCounted, Deploy!TypeOK

(* The types, after a deploy with nothing to do.                             *)
LEMMA NothingToDoTyped == ASSUME Deploy!TypeOK, RoomLeft, FlagInv, Deploy!NothingToDo
                          PROVE  Deploy!TypeOK' /\ RoomLeft' /\ FlagInv'
<1>1. CodesTyped'
  BY DeployNumbers, CodeIsNat DEF Deploy!TypeOK, CodesTyped, Deploy!Code, Deploy!Migrations,
     Deploy!NothingToDo, Deploy!Works, Deploy!Flag, Deploy!Action
<1>2. DeployTyped'
  BY DeployNumbers, CodeIsNat DEF Deploy!TypeOK, DeployTyped, Deploy!Code, Deploy!Steps,
     Deploy!NothingToDo, Deploy!Works, Deploy!Flag, Deploy!Action
<1>3. EntriesInRoom'
  BY DeployNumbers, CodeIsNat DEF Deploy!TypeOK, RoomLeft, EntriesInRoom, Deploy!NothingToDo,
     Deploy!Works, Deploy!Flag, Deploy!Action
<1>4. DeployCounted'
  BY DeployNumbers DEF Deploy!TypeOK, DeployCounted, Deploy!NothingToDo, Deploy!Works, Deploy!Flag,
     Deploy!Action
<1>5. RoomLeft'
  BY DEF Deploy!TypeOK, RoomLeft, FlagInv, Deploy!NothingToDo, Deploy!Works, Deploy!Flag,
     Deploy!Action
<1>6. FlagInv'
  BY DEF Deploy!TypeOK, FlagInv, Deploy!NothingToDo, Deploy!Works, Deploy!Flag, Deploy!Action
<1>. QED BY <1>1, <1>2, <1>3, <1>4, <1>5, <1>6 DEF CodesTyped, DeployTyped, EntriesInRoom,
            DeployCounted, Deploy!TypeOK

(* The types, after a deploy with nothing to apply.                          *)
LEMMA NothingToApplyTyped == ASSUME Deploy!TypeOK, RoomLeft, FlagInv, Deploy!NothingToApply
                             PROVE  Deploy!TypeOK' /\ RoomLeft' /\ FlagInv'
<1>1. CodesTyped'
  BY DeployNumbers, CodeIsNat DEF Deploy!TypeOK, CodesTyped, Deploy!Code, Deploy!Migrations,
     Deploy!NothingToApply, Deploy!Goto, Deploy!Works, Deploy!Action
<1>2. DeployTyped'
  BY DeployNumbers, CodeIsNat DEF Deploy!TypeOK, DeployTyped, Deploy!Code, Deploy!Steps,
     Deploy!NothingToApply, Deploy!Goto, Deploy!Works, Deploy!Action
<1>3. EntriesInRoom'
  BY DeployNumbers, CodeIsNat DEF Deploy!TypeOK, RoomLeft, EntriesInRoom, Deploy!NothingToApply,
     Deploy!Goto, Deploy!Works, Deploy!Action
<1>4. DeployCounted'
  BY DeployNumbers DEF Deploy!TypeOK, DeployCounted, Deploy!NothingToApply, Deploy!Goto,
     Deploy!Works, Deploy!Action
<1>5. RoomLeft'
  BY DEF Deploy!TypeOK, RoomLeft, FlagInv, Deploy!NothingToApply, Deploy!Goto, Deploy!Works,
     Deploy!Action
<1>6. FlagInv'
  BY DEF Deploy!TypeOK, FlagInv, Deploy!NothingToApply, Deploy!Goto, Deploy!Works, Deploy!Action
<1>. QED BY <1>1, <1>2, <1>3, <1>4, <1>5, <1>6 DEF CodesTyped, DeployTyped, EntriesInRoom,
            DeployCounted, Deploy!TypeOK

(* The types, after the rewind before the snapshot.                          *)
LEMMA RewindTyped == ASSUME Deploy!TypeOK, RoomLeft, FlagInv, Deploy!Rewind
                     PROVE  Deploy!TypeOK' /\ RoomLeft' /\ FlagInv'
<1>1. CodesTyped'
  BY DeployNumbers, CodeIsNat DEF Deploy!TypeOK, CodesTyped, Deploy!Code, Deploy!Migrations,
     Deploy!Rewind, Deploy!Works, Deploy!Action
<1>2. DeployTyped'
  BY DeployNumbers, CodeIsNat DEF Deploy!TypeOK, DeployTyped, Deploy!Code, Deploy!Steps,
     Deploy!Rewind, Deploy!Works, Deploy!Action
<1>3. EntriesInRoom'
  BY DeployNumbers, CodeIsNat DEF Deploy!TypeOK, RoomLeft, EntriesInRoom, Deploy!Rewind,
     Deploy!Works, Deploy!Action
<1>4. DeployCounted'
  BY DeployNumbers DEF Deploy!TypeOK, DeployCounted, Deploy!Rewind, Deploy!Works, Deploy!Action
<1>5. RoomLeft' BY DEF Deploy!TypeOK, RoomLeft, FlagInv, Deploy!Rewind, Deploy!Works, Deploy!Action
<1>6. FlagInv' BY DEF Deploy!TypeOK, FlagInv, Deploy!Rewind, Deploy!Works, Deploy!Action
<1>. QED BY <1>1, <1>2, <1>3, <1>4, <1>5, <1>6 DEF CodesTyped, DeployTyped, EntriesInRoom,
            DeployCounted, Deploy!TypeOK

(* The types, after moving the checkouts forward again.                      *)
LEMMA ForwardTyped == ASSUME Deploy!TypeOK, RoomLeft, FlagInv, Deploy!Forward
                      PROVE  Deploy!TypeOK' /\ RoomLeft' /\ FlagInv'
<1>1. CodesTyped'
  BY DeployNumbers, CodeIsNat DEF Deploy!TypeOK, CodesTyped, Deploy!Code, Deploy!Migrations,
     Deploy!Forward, Deploy!Goto, Deploy!Works
<1>2. DeployTyped'
  BY DeployNumbers, CodeIsNat DEF Deploy!TypeOK, DeployTyped, Deploy!Code, Deploy!Steps,
     Deploy!Forward, Deploy!Goto, Deploy!Works
<1>3. EntriesInRoom'
  BY DeployNumbers, CodeIsNat DEF Deploy!TypeOK, RoomLeft, EntriesInRoom, Deploy!Forward,
     Deploy!Goto, Deploy!Works
<1>4. DeployCounted'
  BY DeployNumbers DEF Deploy!TypeOK, DeployCounted, Deploy!Forward, Deploy!Goto, Deploy!Works
<1>5. RoomLeft' BY DEF Deploy!TypeOK, RoomLeft, FlagInv, Deploy!Forward, Deploy!Goto, Deploy!Works
<1>6. FlagInv' BY DEF Deploy!TypeOK, FlagInv, Deploy!Forward, Deploy!Goto, Deploy!Works
<1>. QED BY <1>1, <1>2, <1>3, <1>4, <1>5, <1>6 DEF CodesTyped, DeployTyped, EntriesInRoom,
            DeployCounted, Deploy!TypeOK

(* The types, after an upgrade.                                              *)
LEMMA ApplyTyped == ASSUME Deploy!TypeOK, RoomLeft, FlagInv, Deploy!Apply
                    PROVE  Deploy!TypeOK' /\ RoomLeft' /\ FlagInv'
<1>1. CodesTyped'
  BY DeployNumbers, CodeIsNat DEF Deploy!TypeOK, CodesTyped, Deploy!Code, Deploy!Migrations,
     Deploy!Apply, Deploy!Goto, Deploy!Works, Deploy!ToMigrate, Deploy!Pulled
<1>2. DeployTyped'
  BY DeployNumbers, CodeIsNat DEF Deploy!TypeOK, DeployTyped, Deploy!Code, Deploy!Steps,
     Deploy!Apply, Deploy!Goto, Deploy!Works, Deploy!ToMigrate, Deploy!Pulled
<1>3. EntriesInRoom'
  BY DeployNumbers, CodeIsNat DEF Deploy!TypeOK, RoomLeft, EntriesInRoom, Deploy!Apply,
     Deploy!Goto, Deploy!Works, Deploy!ToMigrate, Deploy!Pulled
<1>4. DeployCounted'
  BY DeployNumbers DEF Deploy!TypeOK, DeployCounted, Deploy!Apply, Deploy!Goto, Deploy!Works,
     Deploy!ToMigrate, Deploy!Pulled
<1>5. RoomLeft'
  BY DEF Deploy!TypeOK, RoomLeft, FlagInv, Deploy!Apply, Deploy!Goto, Deploy!Works,
     Deploy!ToMigrate, Deploy!Pulled
<1>6. FlagInv'
  BY DEF Deploy!TypeOK, FlagInv, Deploy!Apply, Deploy!Goto, Deploy!Works, Deploy!ToMigrate,
     Deploy!Pulled
<1>. QED BY <1>1, <1>2, <1>3, <1>4, <1>5, <1>6 DEF CodesTyped, DeployTyped, EntriesInRoom,
            DeployCounted, Deploy!TypeOK

(* The types, after an upgrade that fails.                                   *)
LEMMA ApplyFailsTyped == ASSUME Deploy!TypeOK, RoomLeft, FlagInv, Deploy!ApplyFails
                         PROVE  Deploy!TypeOK' /\ RoomLeft' /\ FlagInv'
<1>1. CodesTyped'
  BY DeployNumbers, CodeIsNat DEF Deploy!TypeOK, CodesTyped, Deploy!Code, Deploy!Migrations,
     Deploy!ApplyFails, Deploy!Goto, Deploy!Fails, Deploy!ToMigrate, Deploy!Pulled
<1>2. DeployTyped'
  BY DeployNumbers, CodeIsNat DEF Deploy!TypeOK, DeployTyped, Deploy!Code, Deploy!Steps,
     Deploy!ApplyFails, Deploy!Goto, Deploy!Fails, Deploy!ToMigrate, Deploy!Pulled
<1>3. EntriesInRoom'
  BY DeployNumbers, CodeIsNat DEF Deploy!TypeOK, RoomLeft, EntriesInRoom, Deploy!ApplyFails,
     Deploy!Goto, Deploy!Fails, Deploy!ToMigrate, Deploy!Pulled
<1>4. DeployCounted'
  BY DeployNumbers DEF Deploy!TypeOK, DeployCounted, Deploy!ApplyFails, Deploy!Goto, Deploy!Fails,
     Deploy!ToMigrate, Deploy!Pulled
<1>5. RoomLeft'
  BY DEF Deploy!TypeOK, RoomLeft, FlagInv, Deploy!ApplyFails, Deploy!Goto, Deploy!Fails,
     Deploy!ToMigrate, Deploy!Pulled
<1>6. FlagInv'
  BY DEF Deploy!TypeOK, FlagInv, Deploy!ApplyFails, Deploy!Goto, Deploy!Fails, Deploy!ToMigrate,
     Deploy!Pulled
<1>. QED BY <1>1, <1>2, <1>3, <1>4, <1>5, <1>6 DEF CodesTyped, DeployTyped, EntriesInRoom,
            DeployCounted, Deploy!TypeOK

(* The types, after a refresh.                                               *)
LEMMA RefreshTyped == ASSUME Deploy!TypeOK, RoomLeft, FlagInv, Deploy!Refresh
                      PROVE  Deploy!TypeOK' /\ RoomLeft' /\ FlagInv'
<1>1. CodesTyped'
  BY DeployNumbers, CodeIsNat DEF Deploy!TypeOK, CodesTyped, Deploy!Code, Deploy!Migrations,
     Deploy!Refresh, Deploy!Goto, Deploy!Works
<1>2. DeployTyped'
  BY DeployNumbers, CodeIsNat DEF Deploy!TypeOK, DeployTyped, Deploy!Code, Deploy!Steps,
     Deploy!Refresh, Deploy!Goto, Deploy!Works
<1>3. EntriesInRoom'
  BY DeployNumbers, CodeIsNat DEF Deploy!TypeOK, RoomLeft, EntriesInRoom, Deploy!Refresh,
     Deploy!Goto, Deploy!Works
<1>4. DeployCounted'
  BY DeployNumbers DEF Deploy!TypeOK, DeployCounted, Deploy!Refresh, Deploy!Goto, Deploy!Works
<1>5. RoomLeft' BY DEF Deploy!TypeOK, RoomLeft, FlagInv, Deploy!Refresh, Deploy!Goto, Deploy!Works
<1>6. FlagInv' BY DEF Deploy!TypeOK, FlagInv, Deploy!Refresh, Deploy!Goto, Deploy!Works
<1>. QED BY <1>1, <1>2, <1>3, <1>4, <1>5, <1>6 DEF CodesTyped, DeployTyped, EntriesInRoom,
            DeployCounted, Deploy!TypeOK

(* The types, after a verified deploy.                                       *)
LEMMA VerifiedTyped == ASSUME Deploy!TypeOK, RoomLeft, FlagInv, Deploy!Verified
                       PROVE  Deploy!TypeOK' /\ RoomLeft' /\ FlagInv'
<1>1. CodesTyped'
  BY DeployNumbers, CodeIsNat DEF Deploy!TypeOK, CodesTyped, Deploy!Code, Deploy!Migrations,
     Deploy!Verified, Deploy!Goto, Deploy!Works, Deploy!Flag, Deploy!Record
<1>2. DeployTyped'
  BY DeployNumbers, CodeIsNat DEF Deploy!TypeOK, DeployTyped, Deploy!Code, Deploy!Steps,
     Deploy!Verified, Deploy!Goto, Deploy!Works, Deploy!Flag, Deploy!Record
<1>3. EntriesInRoom'
  <2>1. [status |-> "success", from |-> op.old[Main], to |-> head[Main], heads |-> head]
          \in Deploy!Entry
    BY DeployNumbers, CodeIsNat DEF Deploy!TypeOK, Deploy!Entry
  <2>2. op.step # "idle"
          /\ deploys' = Append(deploys,
                [status |-> "success", from |-> op.old[Main], to |-> head[Main], heads |-> head])
    BY DEF Deploy!Verified, Deploy!Goto, Deploy!Record
  <2>. QED BY <2>1, <2>2, RecordTyped
<1>4. DeployCounted'
  BY DeployNumbers DEF Deploy!TypeOK, DeployCounted, Deploy!Verified, Deploy!Goto, Deploy!Works,
     Deploy!Flag, Deploy!Record
<1>5. RoomLeft'
  BY DEF Deploy!TypeOK, RoomLeft, FlagInv, Deploy!Verified, Deploy!Goto, Deploy!Works, Deploy!Flag,
     Deploy!Record
<1>6. FlagInv'
  BY DEF Deploy!TypeOK, FlagInv, Deploy!Verified, Deploy!Goto, Deploy!Works, Deploy!Flag,
     Deploy!Record
<1>. QED BY <1>1, <1>2, <1>3, <1>4, <1>5, <1>6 DEF CodesTyped, DeployTyped, EntriesInRoom,
            DeployCounted, Deploy!TypeOK

(* The types, after a failed verification.                                   *)
LEMMA VerifyFailsTyped == ASSUME Deploy!TypeOK, RoomLeft, FlagInv, Deploy!VerifyFails
                          PROVE  Deploy!TypeOK' /\ RoomLeft' /\ FlagInv'
<1>1. CodesTyped'
  BY DeployNumbers, CodeIsNat DEF Deploy!TypeOK, CodesTyped, Deploy!Code, Deploy!Migrations,
     Deploy!VerifyFails, Deploy!Goto, Deploy!Fails
<1>2. DeployTyped'
  BY DeployNumbers, CodeIsNat DEF Deploy!TypeOK, DeployTyped, Deploy!Code, Deploy!Steps,
     Deploy!VerifyFails, Deploy!Goto, Deploy!Fails
<1>3. EntriesInRoom'
  BY DeployNumbers, CodeIsNat DEF Deploy!TypeOK, RoomLeft, EntriesInRoom, Deploy!VerifyFails,
     Deploy!Goto, Deploy!Fails
<1>4. DeployCounted'
  BY DeployNumbers DEF Deploy!TypeOK, DeployCounted, Deploy!VerifyFails, Deploy!Goto, Deploy!Fails
<1>5. RoomLeft'
  BY DEF Deploy!TypeOK, RoomLeft, FlagInv, Deploy!VerifyFails, Deploy!Goto, Deploy!Fails
<1>6. FlagInv' BY DEF Deploy!TypeOK, FlagInv, Deploy!VerifyFails, Deploy!Goto, Deploy!Fails
<1>. QED BY <1>1, <1>2, <1>3, <1>4, <1>5, <1>6 DEF CodesTyped, DeployTyped, EntriesInRoom,
            DeployCounted, Deploy!TypeOK

(* The types, after a deploy that raises.                                    *)
LEMMA DeployRaisesTyped == ASSUME Deploy!TypeOK, RoomLeft, FlagInv, Deploy!DeployRaises
                           PROVE  Deploy!TypeOK' /\ RoomLeft' /\ FlagInv'
<1>1. CodesTyped'
  BY DeployNumbers, CodeIsNat DEF Deploy!TypeOK, CodesTyped, Deploy!Code, Deploy!Migrations,
     Deploy!DeployRaises, Deploy!Goto, Deploy!Fails, Deploy!Flag, Deploy!Record
<1>2. DeployTyped'
  <2>1. flags' \in [deploying : BOOLEAN, unhealthy : BOOLEAN]
    BY DEF Deploy!TypeOK, Deploy!DeployRaises, Deploy!Flag
  <2>2. op' \in [step : Deploy!Steps, old : Deploy!Code, new : Deploy!Code, explicit : BOOLEAN]
    BY DEF Deploy!TypeOK, Deploy!DeployRaises, Deploy!Goto, Deploy!Steps
  <2>3. up' = up BY DEF Deploy!DeployRaises
  <2>. QED BY <2>1, <2>2, <2>3 DEF DeployTyped, Deploy!TypeOK
<1>3. EntriesInRoom'
  <2>1. [status |-> "error", from |-> op.old[Main], to |-> head[Main], heads |-> Deploy!NoHeads]
          \in Deploy!Entry
    BY DeployNumbers, CodeIsNat DEF Deploy!TypeOK, Deploy!Entry
  <2>2. op.step # "idle"
          /\ deploys' = Append(deploys,
                [status |-> "error", from |-> op.old[Main], to |-> head[Main],
                      heads |-> Deploy!NoHeads])
    BY DEF Deploy!DeployRaises, Deploy!Goto, Deploy!Record
  <2>. QED BY <2>1, <2>2, RecordTyped
<1>4. DeployCounted'
  BY DeployNumbers DEF Deploy!TypeOK, DeployCounted, Deploy!DeployRaises, Deploy!Goto,
     Deploy!Fails, Deploy!Flag, Deploy!Record
<1>5. RoomLeft'
  BY DEF Deploy!TypeOK, RoomLeft, FlagInv, Deploy!DeployRaises, Deploy!Goto, Deploy!Fails,
     Deploy!Flag, Deploy!Record
<1>6. FlagInv'
  BY DEF Deploy!TypeOK, FlagInv, Deploy!DeployRaises, Deploy!Goto, Deploy!Fails, Deploy!Flag,
     Deploy!Record
<1>. QED BY <1>1, <1>2, <1>3, <1>4, <1>5, <1>6 DEF CodesTyped, DeployTyped, EntriesInRoom,
            DeployCounted, Deploy!TypeOK

(* The types, after the reset of the code.                                   *)
LEMMA ResetCodeTyped == ASSUME Deploy!TypeOK, RoomLeft, FlagInv, Deploy!ResetCode
                        PROVE  Deploy!TypeOK' /\ RoomLeft' /\ FlagInv'
<1>1. CodesTyped'
  BY DeployNumbers, CodeIsNat DEF Deploy!TypeOK, CodesTyped, Deploy!Code, Deploy!Migrations,
     Deploy!ResetCode, Deploy!Works, Deploy!ResetTo, Deploy!Kept, Deploy!Extras
<1>2. DeployTyped'
  BY DeployNumbers, CodeIsNat DEF Deploy!TypeOK, DeployTyped, Deploy!Code, Deploy!Steps,
     Deploy!ResetCode, Deploy!Works, Deploy!ResetTo, Deploy!Kept, Deploy!Extras
<1>3. EntriesInRoom'
  BY DeployNumbers, CodeIsNat DEF Deploy!TypeOK, RoomLeft, EntriesInRoom, Deploy!ResetCode,
     Deploy!Works, Deploy!ResetTo, Deploy!Kept, Deploy!Extras
<1>4. DeployCounted'
  BY DeployNumbers DEF Deploy!TypeOK, DeployCounted, Deploy!ResetCode, Deploy!Works,
     Deploy!ResetTo, Deploy!Kept, Deploy!Extras
<1>5. RoomLeft'
  BY DEF Deploy!TypeOK, RoomLeft, FlagInv, Deploy!ResetCode, Deploy!Works, Deploy!ResetTo,
     Deploy!Kept, Deploy!Extras
<1>6. FlagInv'
  BY DEF Deploy!TypeOK, FlagInv, Deploy!ResetCode, Deploy!Works, Deploy!ResetTo, Deploy!Kept,
     Deploy!Extras
<1>. QED BY <1>1, <1>2, <1>3, <1>4, <1>5, <1>6 DEF CodesTyped, DeployTyped, EntriesInRoom,
            DeployCounted, Deploy!TypeOK

(* The types, after a finished automatic rollback.                           *)
LEMMA RolledBackTyped == ASSUME Deploy!TypeOK, RoomLeft, FlagInv, Deploy!RolledBack
                         PROVE  Deploy!TypeOK' /\ RoomLeft' /\ FlagInv'
<1>1. CodesTyped'
  BY DeployNumbers, CodeIsNat DEF Deploy!TypeOK, CodesTyped, Deploy!Code, Deploy!Migrations,
     Deploy!RolledBack, Deploy!Goto, Deploy!Works, Deploy!Flag, Deploy!Record
<1>2. DeployTyped'
  BY DeployNumbers, CodeIsNat DEF Deploy!TypeOK, DeployTyped, Deploy!Code, Deploy!Steps,
     Deploy!RolledBack, Deploy!Goto, Deploy!Works, Deploy!Flag, Deploy!Record
<1>3. EntriesInRoom'
  <2>1. [status |-> "rolled_back", from |-> op.old[Main], to |-> op.new[Main],
            heads |-> Deploy!NoHeads] \in Deploy!Entry
    BY DeployNumbers, CodeIsNat DEF Deploy!TypeOK, Deploy!Entry
  <2>2. op.step # "idle"
          /\ deploys' = Append(deploys,
                [status |-> "rolled_back", from |-> op.old[Main], to |-> op.new[Main],
                      heads |-> Deploy!NoHeads])
    BY DEF Deploy!RolledBack, Deploy!Goto, Deploy!Record
  <2>. QED BY <2>1, <2>2, RecordTyped
<1>4. DeployCounted'
  BY DeployNumbers DEF Deploy!TypeOK, DeployCounted, Deploy!RolledBack, Deploy!Goto, Deploy!Works,
     Deploy!Flag, Deploy!Record
<1>5. RoomLeft'
  BY DEF Deploy!TypeOK, RoomLeft, FlagInv, Deploy!RolledBack, Deploy!Goto, Deploy!Works,
     Deploy!Flag, Deploy!Record
<1>6. FlagInv'
  BY DEF Deploy!TypeOK, FlagInv, Deploy!RolledBack, Deploy!Goto, Deploy!Works, Deploy!Flag,
     Deploy!Record
<1>. QED BY <1>1, <1>2, <1>3, <1>4, <1>5, <1>6 DEF CodesTyped, DeployTyped, EntriesInRoom,
            DeployCounted, Deploy!TypeOK

(* The types, after an automatic rollback that fails.                        *)
LEMMA RollbackFailsTyped == ASSUME Deploy!TypeOK, RoomLeft, FlagInv, Deploy!RollbackFails
                            PROVE  Deploy!TypeOK' /\ RoomLeft' /\ FlagInv'
<1>1. CodesTyped'
  BY DeployNumbers, CodeIsNat DEF Deploy!TypeOK, CodesTyped, Deploy!Code, Deploy!Migrations,
     Deploy!RollbackFails, Deploy!Goto, Deploy!Fails, Deploy!Flag, Deploy!Record
<1>2. DeployTyped'
  BY DeployNumbers, CodeIsNat DEF Deploy!TypeOK, DeployTyped, Deploy!Code, Deploy!Steps,
     Deploy!RollbackFails, Deploy!Goto, Deploy!Fails, Deploy!Flag, Deploy!Record
<1>3. EntriesInRoom'
  <2>1. /\ [status |-> "rollback_failed", from |-> op.old[Main], to |-> head[Main],
              heads |-> Deploy!NoHeads] \in Deploy!Entry
        /\ [status |-> "rollback_failed", from |-> op.old[Main], to |-> op.new[Main],
              heads |-> Deploy!NoHeads] \in Deploy!Entry
    BY DeployNumbers, CodeIsNat DEF Deploy!TypeOK, Deploy!Entry
  <2>2. op.step # "idle" BY DEF Deploy!RollbackFails, Deploy!Goto
  <2>. QED BY <2>1, <2>2, RecordTyped DEF Deploy!RollbackFails, Deploy!Record
<1>4. DeployCounted'
  BY DeployNumbers DEF Deploy!TypeOK, DeployCounted, Deploy!RollbackFails, Deploy!Goto,
     Deploy!Fails, Deploy!Flag, Deploy!Record
<1>5. RoomLeft'
  BY DEF Deploy!TypeOK, RoomLeft, FlagInv, Deploy!RollbackFails, Deploy!Goto, Deploy!Fails,
     Deploy!Flag, Deploy!Record
<1>6. FlagInv'
  BY DEF Deploy!TypeOK, FlagInv, Deploy!RollbackFails, Deploy!Goto, Deploy!Fails, Deploy!Flag,
     Deploy!Record
<1>. QED BY <1>1, <1>2, <1>3, <1>4, <1>5, <1>6 DEF CodesTyped, DeployTyped, EntriesInRoom,
            DeployCounted, Deploy!TypeOK

(* The types, after a rollback to a commit.                                  *)
LEMMA RollbackToTyped == ASSUME Deploy!TypeOK, RoomLeft, FlagInv, NEW commit \in 0..tip[Main],
                                Deploy!RollbackTo(commit)
                         PROVE  Deploy!TypeOK' /\ RoomLeft' /\ FlagInv'
<1>1. CodesTyped'
  <2>1. commit \in 0..MaxCommit BY DeployNumbers, CodeIsNat DEF Deploy!TypeOK
  <2>2. Deploy!CodeFor(commit) \in Deploy!Code BY <2>1, CodeForIsCode
  <2>3. head' \in Deploy!Code
    BY <2>2 DEF Deploy!RollbackTo, Deploy!ResetTo, Deploy!Kept, Deploy!TypeOK, Deploy!Code
  <2>. QED BY <2>3 DEF Deploy!TypeOK, CodesTyped, Deploy!RollbackTo
<1>2. DeployTyped'
  BY DeployNumbers, CodeIsNat DEF Deploy!TypeOK, DeployTyped, Deploy!Code, Deploy!Steps,
     Deploy!RollbackTo, Deploy!Works, Deploy!ResetTo, Deploy!Kept, Deploy!Extras
<1>3. EntriesInRoom'
  BY DeployNumbers, CodeIsNat DEF Deploy!TypeOK, RoomLeft, EntriesInRoom, Deploy!RollbackTo,
     Deploy!Works, Deploy!ResetTo, Deploy!Kept, Deploy!Extras
<1>4. DeployCounted'
  BY DeployNumbers DEF Deploy!TypeOK, DeployCounted, Deploy!RollbackTo, Deploy!Works,
     Deploy!ResetTo, Deploy!Kept, Deploy!Extras
<1>5. RoomLeft'
  BY DEF Deploy!TypeOK, RoomLeft, Deploy!RollbackTo, Deploy!Works, Deploy!ResetTo, Deploy!Kept,
     Deploy!Extras
<1>6. FlagInv'
  BY DEF Deploy!TypeOK, FlagInv, Deploy!RollbackTo, Deploy!Works, Deploy!ResetTo, Deploy!Kept,
     Deploy!Extras
<1>. QED BY <1>1, <1>2, <1>3, <1>4, <1>5, <1>6 DEF CodesTyped, DeployTyped, EntriesInRoom,
            DeployCounted, Deploy!TypeOK

(* The types, after the restart of a rollback.                               *)
LEMMA RollbackDoneTyped == ASSUME Deploy!TypeOK, RoomLeft, FlagInv, Deploy!RollbackDone
                           PROVE  Deploy!TypeOK' /\ RoomLeft' /\ FlagInv'
<1>1. CodesTyped'
  BY DeployNumbers, CodeIsNat DEF Deploy!TypeOK, CodesTyped, Deploy!Code, Deploy!Migrations,
     Deploy!RollbackDone, Deploy!Goto, Deploy!Fails, Deploy!Works, Deploy!Flag, Deploy!Record
<1>2. DeployTyped'
  <2>1. flags' \in [deploying : BOOLEAN, unhealthy : BOOLEAN]
    BY DEF Deploy!TypeOK, Deploy!RollbackDone, Deploy!Flag
  <2>2. op' \in [step : Deploy!Steps, old : Deploy!Code, new : Deploy!Code, explicit : BOOLEAN]
    BY DEF Deploy!TypeOK, Deploy!RollbackDone, Deploy!Goto, Deploy!Steps
  <2>3. up' = up BY DEF Deploy!RollbackDone
  <2>. QED BY <2>1, <2>2, <2>3 DEF DeployTyped, Deploy!TypeOK
<1>3. EntriesInRoom'
  <2>1. /\ [status |-> "rollback_failed", from |-> op.old[Main], to |-> op.new[Main],
              heads |-> Deploy!NoHeads] \in Deploy!Entry
        /\ [status |-> "success", from |-> op.old[Main], to |-> op.new[Main],
              heads |-> Deploy!NoHeads] \in Deploy!Entry
    BY DeployNumbers, CodeIsNat DEF Deploy!TypeOK, Deploy!Entry
  <2>2. op.step # "idle" BY DEF Deploy!RollbackDone, Deploy!Goto
  <2>. QED BY <2>1, <2>2, RecordTyped DEF Deploy!RollbackDone, Deploy!Record
<1>4. DeployCounted'
  BY DeployNumbers DEF Deploy!TypeOK, DeployCounted, Deploy!RollbackDone, Deploy!Goto,
     Deploy!Fails, Deploy!Works, Deploy!Flag, Deploy!Record
<1>5. RoomLeft'
  BY DEF Deploy!TypeOK, RoomLeft, FlagInv, Deploy!RollbackDone, Deploy!Goto, Deploy!Fails,
     Deploy!Works, Deploy!Flag, Deploy!Record
<1>6. FlagInv'
  BY DEF Deploy!TypeOK, FlagInv, Deploy!RollbackDone, Deploy!Goto, Deploy!Fails, Deploy!Works,
     Deploy!Flag, Deploy!Record
<1>. QED BY <1>1, <1>2, <1>3, <1>4, <1>5, <1>6 DEF CodesTyped, DeployTyped, EntriesInRoom,
            DeployCounted, Deploy!TypeOK

(* The types, after a rollback that raises.                                  *)
LEMMA RollbackRaisesTyped == ASSUME Deploy!TypeOK, RoomLeft, FlagInv, Deploy!RollbackRaises
                             PROVE  Deploy!TypeOK' /\ RoomLeft' /\ FlagInv'
<1>1. CodesTyped'
  BY DeployNumbers, CodeIsNat DEF Deploy!TypeOK, CodesTyped, Deploy!Code, Deploy!Migrations,
     Deploy!RollbackRaises, Deploy!Goto, Deploy!Fails
<1>2. DeployTyped'
  BY DeployNumbers, CodeIsNat DEF Deploy!TypeOK, DeployTyped, Deploy!Code, Deploy!Steps,
     Deploy!RollbackRaises, Deploy!Goto, Deploy!Fails
<1>3. EntriesInRoom'
  BY DeployNumbers, CodeIsNat DEF Deploy!TypeOK, RoomLeft, EntriesInRoom, Deploy!RollbackRaises,
     Deploy!Goto, Deploy!Fails
<1>4. DeployCounted'
  BY DeployNumbers DEF Deploy!TypeOK, DeployCounted, Deploy!RollbackRaises, Deploy!Goto,
     Deploy!Fails
<1>5. RoomLeft'
  BY DEF Deploy!TypeOK, RoomLeft, FlagInv, Deploy!RollbackRaises, Deploy!Goto, Deploy!Fails
<1>6. FlagInv' BY DEF Deploy!TypeOK, FlagInv, Deploy!RollbackRaises, Deploy!Goto, Deploy!Fails
<1>. QED BY <1>1, <1>2, <1>3, <1>4, <1>5, <1>6 DEF CodesTyped, DeployTyped, EntriesInRoom,
            DeployCounted, Deploy!TypeOK

(* The types, after a restart by an operator.                                *)
LEMMA RestartProductionTyped == ASSUME Deploy!TypeOK, RoomLeft, FlagInv, Deploy!RestartProduction
                                PROVE  Deploy!TypeOK' /\ RoomLeft' /\ FlagInv'
<1>1. CodesTyped'
  BY DeployNumbers, CodeIsNat DEF Deploy!TypeOK, CodesTyped, Deploy!Code, Deploy!Migrations,
     Deploy!RestartProduction, Deploy!Works, Deploy!Flag
<1>2. DeployTyped'
  <2>1. flags' \in [deploying : BOOLEAN, unhealthy : BOOLEAN]
    <3>1. PICK healthy \in BOOLEAN :
             flags' = [deploying |-> flags.deploying,
                       unhealthy |-> IF flags.unhealthy THEN ~healthy ELSE FALSE]
      BY DEF Deploy!RestartProduction, Deploy!Flag
    <3>2. flags.deploying \in BOOLEAN BY DEF Deploy!TypeOK
    <3>3. (IF flags.unhealthy THEN ~healthy ELSE FALSE) \in BOOLEAN OBVIOUS
    <3>. QED BY <3>1, <3>2, <3>3
  <2>2. op' \in [step : Deploy!Steps, old : Deploy!Code, new : Deploy!Code, explicit : BOOLEAN]
    BY DEF Deploy!TypeOK, Deploy!RestartProduction, Deploy!Goto, Deploy!Steps
  <2>3. up' = up BY DEF Deploy!RestartProduction
  <2>. QED BY <2>1, <2>2, <2>3 DEF DeployTyped, Deploy!TypeOK
<1>3. EntriesInRoom'
  BY DeployNumbers, CodeIsNat DEF Deploy!TypeOK, RoomLeft, EntriesInRoom, Deploy!RestartProduction,
     Deploy!Works, Deploy!Flag
<1>4. DeployCounted'
  BY DeployNumbers DEF Deploy!TypeOK, DeployCounted, Deploy!RestartProduction, Deploy!Works,
     Deploy!Flag
<1>5. RoomLeft'
  BY DEF Deploy!TypeOK, RoomLeft, FlagInv, Deploy!RestartProduction, Deploy!Works, Deploy!Flag
<1>6. FlagInv' BY DEF Deploy!TypeOK, FlagInv, Deploy!RestartProduction, Deploy!Works, Deploy!Flag
<1>. QED BY <1>1, <1>2, <1>3, <1>4, <1>5, <1>6 DEF CodesTyped, DeployTyped, EntriesInRoom,
            DeployCounted, Deploy!TypeOK

(* The types, after Odoo reloading the checkout.                             *)
LEMMA OdooReloadsTyped == ASSUME Deploy!TypeOK, RoomLeft, FlagInv, Deploy!OdooReloads
                          PROVE  Deploy!TypeOK' /\ RoomLeft' /\ FlagInv'
<1>1. CodesTyped'
  BY DeployNumbers, CodeIsNat DEF Deploy!TypeOK, CodesTyped, Deploy!Code, Deploy!Migrations,
     Deploy!OdooReloads, Deploy!Works
<1>2. DeployTyped'
  BY DeployNumbers, CodeIsNat DEF Deploy!TypeOK, DeployTyped, Deploy!Code, Deploy!Steps,
     Deploy!OdooReloads, Deploy!Works
<1>3. EntriesInRoom'
  BY DeployNumbers, CodeIsNat DEF Deploy!TypeOK, RoomLeft, EntriesInRoom, Deploy!OdooReloads,
     Deploy!Works
<1>4. DeployCounted'
  BY DeployNumbers DEF Deploy!TypeOK, DeployCounted, Deploy!OdooReloads, Deploy!Works
<1>5. RoomLeft' BY DEF Deploy!TypeOK, RoomLeft, FlagInv, Deploy!OdooReloads, Deploy!Works
<1>6. FlagInv' BY DEF Deploy!TypeOK, FlagInv, Deploy!OdooReloads, Deploy!Works
<1>. QED BY <1>1, <1>2, <1>3, <1>4, <1>5, <1>6 DEF CodesTyped, DeployTyped, EntriesInRoom,
            DeployCounted, Deploy!TypeOK

(* The types, after a death of the server.                                   *)
LEMMA DieTyped == ASSUME Deploy!TypeOK, RoomLeft, FlagInv, Deploy!Die
                  PROVE  Deploy!TypeOK' /\ RoomLeft' /\ FlagInv'
<1>1. CodesTyped'
  BY DeployNumbers, CodeIsNat DEF Deploy!TypeOK, CodesTyped, Deploy!Code, Deploy!Migrations,
     Deploy!Die
<1>2. DeployTyped'
  BY DeployNumbers, CodeIsNat DEF Deploy!TypeOK, DeployTyped, Deploy!Code, Deploy!Steps, Deploy!Die
<1>3. EntriesInRoom'
  BY DeployNumbers, CodeIsNat DEF Deploy!TypeOK, RoomLeft, EntriesInRoom, Deploy!Die
<1>4. DeployCounted' BY DeployNumbers DEF Deploy!TypeOK, DeployCounted, Deploy!Die
<1>5. RoomLeft' BY DEF Deploy!TypeOK, RoomLeft, FlagInv, Deploy!Die
<1>6. FlagInv' BY DEF Deploy!TypeOK, FlagInv, Deploy!Die
<1>. QED BY <1>1, <1>2, <1>3, <1>4, <1>5, <1>6 DEF CodesTyped, DeployTyped, EntriesInRoom,
            DeployCounted, Deploy!TypeOK

(* The types, after a start of the server.                                   *)
LEMMA StartupTyped == ASSUME Deploy!TypeOK, RoomLeft, FlagInv, Deploy!Startup
                      PROVE  Deploy!TypeOK' /\ RoomLeft' /\ FlagInv'
<1>1. CodesTyped'
  BY DeployNumbers, CodeIsNat DEF Deploy!TypeOK, CodesTyped, Deploy!Code, Deploy!Migrations,
     Deploy!Startup, Deploy!Works, Deploy!Flag
<1>2. DeployTyped'
  BY DeployNumbers, CodeIsNat DEF Deploy!TypeOK, DeployTyped, Deploy!Code, Deploy!Steps,
     Deploy!Startup, Deploy!Works, Deploy!Flag
<1>3. EntriesInRoom'
  BY DeployNumbers, CodeIsNat DEF Deploy!TypeOK, RoomLeft, EntriesInRoom, Deploy!Startup,
     Deploy!Works, Deploy!Flag
<1>4. DeployCounted'
  BY DeployNumbers DEF Deploy!TypeOK, DeployCounted, Deploy!Startup, Deploy!Works, Deploy!Flag
<1>5. RoomLeft' BY DEF Deploy!TypeOK, RoomLeft, FlagInv, Deploy!Startup, Deploy!Works, Deploy!Flag
<1>6. FlagInv' BY DEF Deploy!TypeOK, FlagInv, Deploy!Startup, Deploy!Works, Deploy!Flag
<1>. QED BY <1>1, <1>2, <1>3, <1>4, <1>5, <1>6 DEF CodesTyped, DeployTyped, EntriesInRoom,
            DeployCounted, Deploy!TypeOK

-----------------------------------------------------------------------------
(* What every step leaves of the history and of the branches.                *)

(* What is undisturbed was so before.                                        *)
LEMMA StaysUndisturbed ==
    ASSUME Deploy!TypeOK, deployCrashes' = deployCrashes \/ deployCrashes' = deployCrashes + 1,
           Deploy!Undisturbed',
           deploys' = deploys \/ \E e \in Deploy!Entry : deploys' = Append(deploys, e)
    PROVE  Deploy!Undisturbed
<1>1. deployCrashes \in Nat BY DeployNumbers DEF Deploy!TypeOK
<1>2. CASE deploys' = deploys BY <1>1, <1>2 DEF Deploy!Undisturbed
<1>3. CASE \E e \in Deploy!Entry : deploys' = Append(deploys, e)
  <2>1. PICK e \in Deploy!Entry : deploys' = Append(deploys, e) BY <1>3
  <2>2. \A i \in DOMAIN deploys : i \in DOMAIN deploys' /\ deploys'[i] = deploys[i]
    BY <2>1, Appended
  <2>. QED BY <1>1, <2>2 DEF Deploy!Undisturbed
<1>. QED BY <1>2, <1>3

(* The entries stay migrated when the database goes through more,            *)
LEMMA EntriesStand ==
    ASSUME Deploy!TypeOK, deploys' = deploys, schema \subseteq schema', EntriesMigrated
    PROVE  EntriesMigrated'
<1> SUFFICES ASSUME NEW i \in DOMAIN deploys
             PROVE  /\ DoneIn(schema', Main, deploys[i].from)
                    /\ deploys[i].heads # Deploy!NoHeads => MigratedIn(schema', deploys[i].heads)
  BY DEF EntriesMigrated, Migrated
<1>1. DoneIn(schema', Main, deploys[i].from) BY MoreStaysDone DEF EntriesMigrated
<1>2. ASSUME deploys[i].heads # Deploy!NoHeads PROVE MigratedIn(schema', deploys[i].heads)
  BY <1>2, EntriesTyped, StaysMigrated DEF EntriesMigrated, Migrated
<1>. QED BY <1>1, <1>2

(* and when one is added whose code is.                                      *)
LEMMA EntriesGrow ==
    ASSUME Deploy!TypeOK, NEW e \in Deploy!Entry, deploys' = Append(deploys, e), schema' = schema,
           EntriesMigrated, DoneIn(schema, Main, e.from),
           e.heads # Deploy!NoHeads => Migrated(e.heads)
    PROVE  EntriesMigrated'
BY Appended DEF EntriesMigrated, Migrated, MigratedIn, DoneIn

(* The entries stay behind the branches,                                     *)
LEMMA HistoryStands ==
    ASSUME Deploy!TypeOK, deploys' = deploys, tip' = tip, EntriesBehind
    PROVE  EntriesBehind'
BY DEF EntriesBehind, AtMost

(* and so does one that is added.                                            *)
LEMMA HistoryGrows ==
    ASSUME Deploy!TypeOK, NEW e \in Deploy!Entry, deploys' = Append(deploys, e), tip' = tip,
           EntriesBehind,
           e.from <= tip[Main], e.heads # Deploy!NoHeads => AtMost(e.heads, tip)
    PROVE  EntriesBehind'
BY Appended DEF EntriesBehind, AtMost

(* What Odoo has loaded is migrated if it is so or older in each repository. *)
LEMMA BelowIsDone ==
    ASSUME Deploy!TypeOK, NEW S, NEW code \in Deploy!Code, MigratedIn(S, code),
           \A r \in Repos : DoneIn(S, r, loaded[r]) \/ loaded[r] <= code[r]
    PROVE  MigratedIn(S, loaded)
BY CodeIsNat, LessIsDone DEF Deploy!TypeOK, MigratedIn

(* The parts of the invariant.                                               *)
LEMMA DeployFacts == ASSUME DeployInv PROVE
    /\ Deploy!TypeOK /\ RoomLeft /\ FlagInv /\ CodesBehind /\ EntriesBehind /\ CheckedOut
    /\ tip \in Deploy!Code /\ head \in Deploy!Code /\ loaded \in Deploy!Code
        /\ op.old \in Deploy!Code /\ op.new \in Deploy!Code
    /\ Deploy!Undisturbed => EntriesMigrated /\ StepMigrated
BY DEF DeployInv, Deploy!TypeOK, MigrationInv, Behind

(* A commit of the main branch is a commit.                                  *)
LEMMA CommitTyped ==
    ASSUME DeployInv
    PROVE  /\ \A c \in 0..tip[Main] : c \in 0..MaxCommit /\ c <= tip[Main]
           /\ Behind
BY DeployFacts, CodeIsNat, DeployNumbers DEF Behind

-----------------------------------------------------------------------------
(* Every step keeps the invariant.                                           *)

OrdinaryUse == ~Explicit /\ ~RollForward /\ ~ResetFails

(* A push only moves a tip: nothing checked out is ahead of it.              *)
LEMMA PushKeeps == ASSUME DeployInv, OrdinaryUse, NEW r \in Repos, Deploy!Push(r) PROVE DeployInv'
<1>0. Deploy!TypeOK' /\ RoomLeft' /\ FlagInv' BY DeployFacts, PushTyped
<1>1. CodesBehind'
  BY DeployFacts, CodeIsNat, DeployNumbers DEF Deploy!TypeOK, CodesBehind, AtMost, Deploy!Push,
     Deploy!Works
<1>4. EntriesBehind'
  <2>1. \A s \in Repos : tip[s] <= tip'[s] /\ tip[s] \in Nat /\ tip'[s] \in Nat
    <3>1. tip \in Deploy!Code /\ tip' \in Deploy!Code BY <1>0, DeployFacts DEF Deploy!TypeOK
    <3>2. tip' = [tip EXCEPT ![r] = tip[r] + 1] BY DEF Deploy!Push
    <3>3. \A s \in Repos : tip'[s] = IF s = r THEN tip[r] + 1 ELSE tip[s]
      BY <3>1, <3>2 DEF Deploy!Code
    <3>4. \A s \in Repos : tip[s] \in Nat /\ tip'[s] \in Nat BY <3>1, CodeIsNat
    <3>. QED BY <3>3, <3>4
  <2>2. deploys' = deploys BY DEF Deploy!Push
  <2> SUFFICES ASSUME NEW i \in DOMAIN deploys
               PROVE  /\ deploys[i].from <= tip'[Main]
                      /\ deploys[i].heads # Deploy!NoHeads => AtMost(deploys[i].heads, tip')
    BY <2>2 DEF EntriesBehind, AtMost
  <2>3. deploys[i].from <= tip[Main]
          /\ (deploys[i].heads # Deploy!NoHeads => AtMost(deploys[i].heads, tip))
    BY DeployFacts DEF EntriesBehind
  <2>4. deploys[i].from \in Nat
          /\ (deploys[i].heads # Deploy!NoHeads => deploys[i].heads \in Deploy!Code)
    BY DeployFacts, EntriesTyped
  <2>5. deploys[i].from <= tip'[Main] BY <2>1, <2>3, <2>4, DeployNumbers
  <2>6. ASSUME deploys[i].heads # Deploy!NoHeads PROVE AtMost(deploys[i].heads, tip')
    BY <2>1, <2>3, <2>4, <2>6, CodeIsNat DEF AtMost
  <2>. QED BY <2>5, <2>6
<1>5. (deployCrashes' = deployCrashes \/ deployCrashes' = deployCrashes + 1) /\ deploys' = deploys
  BY DEF Deploy!Push, Deploy!Works, Deploy!Fails
<1>6. ASSUME Deploy!Undisturbed' PROVE Deploy!Undisturbed
  BY <1>5, <1>6, DeployFacts, StaysUndisturbed
<1>7. ASSUME Deploy!Undisturbed PROVE EntriesMigrated'
  BY <1>5, <1>7, DeployFacts, EntriesStand DEF Deploy!Push
<1>8. CheckedOut'
  BY DeployFacts DEF Deploy!TypeOK, CheckedOut, OrdinaryUse, Deploy!Push, Deploy!Works
<1>9. ASSUME Deploy!Undisturbed, Deploy!Undisturbed' PROVE StepMigrated'
  BY <1>9, DeployFacts DEF Deploy!TypeOK, CheckedOut, StepMigrated, Coming, LoadedIsBehind,
     Pulling, Migrated, Deploy!Push, Deploy!Works
<1>. QED BY <1>0, <1>1, <1>4, <1>6, <1>7, <1>8, <1>9 DEF DeployInv, Behind, MigrationInv

(* A deploy starts from code that was migrated.                              *)
LEMMA StartDeployKeeps == ASSUME DeployInv, OrdinaryUse, NEW explicit \in BOOLEAN,
                                 Deploy!StartDeploy(explicit)
                          PROVE  DeployInv'
<1>0. Deploy!TypeOK' /\ RoomLeft' /\ FlagInv' BY DeployFacts, StartDeployTyped
<1>1. CodesBehind'
  BY DeployFacts, CodeIsNat, DeployNumbers DEF Deploy!TypeOK, CodesBehind, AtMost,
     Deploy!StartDeploy, Deploy!Works, Deploy!Flag
<1>4. EntriesBehind' BY DeployFacts, HistoryStands DEF Deploy!StartDeploy
<1>5. (deployCrashes' = deployCrashes \/ deployCrashes' = deployCrashes + 1) /\ deploys' = deploys
  BY DEF Deploy!StartDeploy, Deploy!Works, Deploy!Fails
<1>6. ASSUME Deploy!Undisturbed' PROVE Deploy!Undisturbed
  BY <1>5, <1>6, DeployFacts, StaysUndisturbed
<1>7. ASSUME Deploy!Undisturbed PROVE EntriesMigrated'
  BY <1>5, <1>7, DeployFacts, EntriesStand DEF Deploy!StartDeploy
<1>8. CheckedOut'
  BY DeployFacts DEF Deploy!TypeOK, CheckedOut, OrdinaryUse, Deploy!StartDeploy, Deploy!Works,
     Deploy!Flag
<1>9. ASSUME Deploy!Undisturbed, Deploy!Undisturbed' PROVE StepMigrated'
  <2>1. /\ op.step = "idle" /\ op'.step = "pull_main" /\ op'.old = head
        /\ schema' = schema /\ loaded' = loaded /\ head' = head
    BY DEF Deploy!StartDeploy
  <2>2. Migrated(head) /\ Migrated(loaded) BY <1>9, <2>1, DeployFacts DEF StepMigrated
  <2>3. LoadedIsBehind' BY <2>1, <2>2 DEF LoadedIsBehind, Migrated, MigratedIn
  <2>. QED BY <2>1, <2>2, <2>3 DEF StepMigrated, Migrated
<1>. QED BY <1>0, <1>1, <1>4, <1>6, <1>7, <1>8, <1>9 DEF DeployInv, Behind, MigrationInv

(* What Odoo has loaded is not newer than what was pulled,                   *)
LEMMA PullMainKeeps == ASSUME DeployInv, OrdinaryUse, Deploy!PullMain PROVE DeployInv'
<1>0. Deploy!TypeOK' /\ RoomLeft' /\ FlagInv' BY DeployFacts, PullMainTyped
<1>1. CodesBehind'
  BY DeployFacts, CodeIsNat, DeployNumbers DEF Deploy!TypeOK, CodesBehind, AtMost, Deploy!PullMain,
     Deploy!Goto, Deploy!Works
<1>4. EntriesBehind' BY DeployFacts, HistoryStands DEF Deploy!PullMain
<1>5. (deployCrashes' = deployCrashes \/ deployCrashes' = deployCrashes + 1) /\ deploys' = deploys
  BY DEF Deploy!PullMain, Deploy!Works, Deploy!Fails
<1>6. ASSUME Deploy!Undisturbed' PROVE Deploy!Undisturbed
  BY <1>5, <1>6, DeployFacts, StaysUndisturbed
<1>7. ASSUME Deploy!Undisturbed PROVE EntriesMigrated'
  BY <1>5, <1>7, DeployFacts, EntriesStand DEF Deploy!PullMain
<1>8. CheckedOut'
  BY DeployFacts DEF Deploy!TypeOK, CheckedOut, OrdinaryUse, Deploy!PullMain, Deploy!Goto,
     Deploy!Works
<1>9. ASSUME Deploy!Undisturbed, Deploy!Undisturbed' PROVE StepMigrated'
  <2>1. /\ op.step = "pull_main" /\ op'.step = "pull_extras" /\ op'.old = op.old
        /\ schema' = schema /\ loaded' = loaded
    BY DeployFacts DEF Deploy!TypeOK, Deploy!PullMain, Deploy!Goto
  <2>2. LoadedIsBehind /\ Migrated(op.old) BY <1>9, <2>1, DeployFacts DEF StepMigrated, Pulling
  <2>3. \A r \in Repos : head[r] <= head'[r]
    BY DeployFacts, CodeIsNat, DeployNumbers DEF CodesBehind, AtMost, Deploy!Code, Deploy!PullMain
  <2>4. head' \in Deploy!Code BY <1>0 DEF Deploy!TypeOK
  <2>5. LoadedIsBehind' BY <2>1, <2>2, <2>3, <2>4, DeployFacts, CodeIsNat DEF LoadedIsBehind, Coming
  <2>. QED BY <2>1, <2>2, <2>5 DEF StepMigrated, Migrated
<1>. QED BY <1>0, <1>1, <1>4, <1>6, <1>7, <1>8, <1>9 DEF DeployInv, Behind, MigrationInv

(* neither in the main repository nor in the worktrees.                      *)
LEMMA PullExtrasKeeps == ASSUME DeployInv, OrdinaryUse, Deploy!PullExtras PROVE DeployInv'
<1>0. Deploy!TypeOK' /\ RoomLeft' /\ FlagInv' BY DeployFacts, PullExtrasTyped
<1>1. CodesBehind'
  BY DeployFacts, CodeIsNat, DeployNumbers DEF Deploy!TypeOK, CodesBehind, AtMost,
     Deploy!PullExtras, Deploy!Goto, Deploy!Works
<1>4. EntriesBehind' BY DeployFacts, HistoryStands DEF Deploy!PullExtras
<1>5. (deployCrashes' = deployCrashes \/ deployCrashes' = deployCrashes + 1) /\ deploys' = deploys
  BY DEF Deploy!PullExtras, Deploy!Works, Deploy!Fails
<1>6. ASSUME Deploy!Undisturbed' PROVE Deploy!Undisturbed
  BY <1>5, <1>6, DeployFacts, StaysUndisturbed
<1>7. ASSUME Deploy!Undisturbed PROVE EntriesMigrated'
  BY <1>5, <1>7, DeployFacts, EntriesStand DEF Deploy!PullExtras
<1>8. CheckedOut'
  BY DeployFacts DEF Deploy!TypeOK, CheckedOut, OrdinaryUse, Deploy!PullExtras, Deploy!Goto,
     Deploy!Works
<1>9. ASSUME Deploy!Undisturbed, Deploy!Undisturbed' PROVE StepMigrated'
  <2>1. /\ op.step = "pull_extras" /\ op'.step = "decide" /\ op'.old = op.old
        /\ schema' = schema /\ loaded' = loaded
    BY DeployFacts DEF Deploy!TypeOK, Deploy!PullExtras, Deploy!Goto
  <2>2. LoadedIsBehind /\ Migrated(op.old) BY <1>9, <2>1, DeployFacts DEF StepMigrated, Pulling
  <2>3. \A r \in Repos : head[r] <= head'[r]
    BY DeployFacts, CodeIsNat, DeployNumbers DEF CodesBehind, AtMost, Deploy!Code, Deploy!PullExtras
  <2>4. head' \in Deploy!Code BY <1>0 DEF Deploy!TypeOK
  <2>5. LoadedIsBehind' BY <2>1, <2>2, <2>3, <2>4, DeployFacts, CodeIsNat DEF LoadedIsBehind, Coming
  <2>. QED BY <2>1, <2>2, <2>5 DEF StepMigrated, Migrated
<1>. QED BY <1>0, <1>1, <1>4, <1>6, <1>7, <1>8, <1>9 DEF DeployInv, Behind, MigrationInv

(* A fetch that fails leaves for the rollback what was migrated.             *)
LEMMA PullFailsKeeps == ASSUME DeployInv, OrdinaryUse, Deploy!PullFails PROVE DeployInv'
<1>0. Deploy!TypeOK' /\ RoomLeft' /\ FlagInv' BY DeployFacts, PullFailsTyped
<1>1. CodesBehind'
  <2>1. op.step # "idle" /\ op'.step = "rollback" /\ op'.old = op.old /\ tip' = tip
    BY DeployFacts DEF Deploy!TypeOK, Deploy!PullFails, Deploy!Goto
  <2>2. \A r \in Repos : head'[r] = head[r] \/ head'[r] = tip[r] BY DEF Deploy!PullFails
  <2>3. \A r \in Repos : head'[r] <= tip[r]
    BY <2>2, DeployFacts, CodeIsNat DEF CodesBehind, AtMost
  <2>. QED BY <2>1, <2>3, DeployFacts DEF CodesBehind, AtMost
<1>4. EntriesBehind' BY DeployFacts, HistoryStands DEF Deploy!PullFails
<1>5. (deployCrashes' = deployCrashes \/ deployCrashes' = deployCrashes + 1) /\ deploys' = deploys
  BY DEF Deploy!PullFails, Deploy!Works, Deploy!Fails
<1>6. ASSUME Deploy!Undisturbed' PROVE Deploy!Undisturbed
  BY <1>5, <1>6, DeployFacts, StaysUndisturbed
<1>7. ASSUME Deploy!Undisturbed PROVE EntriesMigrated'
  BY <1>5, <1>7, DeployFacts, EntriesStand DEF Deploy!PullFails
<1>8. CheckedOut'
  BY DeployFacts DEF Deploy!TypeOK, CheckedOut, OrdinaryUse, Deploy!PullFails, Deploy!Goto,
     Deploy!Fails, Deploy!Extras
<1>9. ASSUME Deploy!Undisturbed, Deploy!Undisturbed' PROVE StepMigrated'
  BY <1>9, DeployFacts DEF Deploy!TypeOK, CheckedOut, StepMigrated, Coming, LoadedIsBehind,
     Pulling, Migrated, Deploy!PullFails, Deploy!Goto, Deploy!Fails, Deploy!Extras
<1>. QED BY <1>0, <1>1, <1>4, <1>6, <1>7, <1>8, <1>9 DEF DeployInv, Behind, MigrationInv

(* Where no upgrade is asked for, what was pulled counts as migrated,        *)
LEMMA NothingToDoKeeps == ASSUME DeployInv, OrdinaryUse, Deploy!NothingToDo PROVE DeployInv'
<1>0. Deploy!TypeOK' /\ RoomLeft' /\ FlagInv' BY DeployFacts, NothingToDoTyped
<1>1. CodesBehind'
  BY DeployFacts, CodeIsNat, DeployNumbers DEF Deploy!TypeOK, CodesBehind, AtMost,
     Deploy!NothingToDo, Deploy!Works, Deploy!Flag, Deploy!Action
<1>4. EntriesBehind' BY DeployFacts, HistoryStands DEF Deploy!NothingToDo
<1>5. (deployCrashes' = deployCrashes \/ deployCrashes' = deployCrashes + 1) /\ deploys' = deploys
  BY DEF Deploy!NothingToDo, Deploy!Works, Deploy!Fails
<1>6. ASSUME Deploy!Undisturbed' PROVE Deploy!Undisturbed
  BY <1>5, <1>6, DeployFacts, StaysUndisturbed
<1>7. ASSUME Deploy!Undisturbed PROVE EntriesMigrated'
  BY <1>5, <1>7, DeployFacts, EntriesStand DEF Deploy!NothingToDo
<1>8. CheckedOut'
  BY DeployFacts DEF Deploy!TypeOK, CheckedOut, OrdinaryUse, Deploy!NothingToDo, Deploy!Works,
     Deploy!Flag, Deploy!Action
<1>9. ASSUME Deploy!Undisturbed, Deploy!Undisturbed' PROVE StepMigrated'
  <2>1. /\ op.step = "decide" /\ op'.step = "idle" /\ op'.old = op.old
        /\ schema' = schema /\ loaded' = loaded /\ head' = head
    BY DeployFacts DEF Deploy!TypeOK, Deploy!NothingToDo, Deploy!Goto
  <2>2. LoadedIsBehind /\ Migrated(op.old) BY <1>9, <2>1, DeployFacts DEF StepMigrated, Pulling
  <2>3. Deploy!Plan(op.old, head) # "upgrade"
    BY DeployFacts DEF Deploy!NothingToDo, Deploy!Action, CheckedOut
  <2>4. MigratedIn(schema, head) BY <2>2, <2>3, DeployFacts, PlanMigrates DEF Migrated
  <2>5. MigratedIn(schema, loaded)
    BY <2>1, <2>2, <2>4, DeployFacts, BelowIsDone DEF LoadedIsBehind, Coming
  <2>. QED BY <2>1, <2>4, <2>5 DEF StepMigrated, Migrated, Pulling
<1>. QED BY <1>0, <1>1, <1>4, <1>6, <1>7, <1>8, <1>9 DEF DeployInv, Behind, MigrationInv

(* also when only its commit is recorded.                                    *)
LEMMA NothingToApplyKeeps == ASSUME DeployInv, OrdinaryUse, Deploy!NothingToApply PROVE DeployInv'
<1>0. Deploy!TypeOK' /\ RoomLeft' /\ FlagInv' BY DeployFacts, NothingToApplyTyped
<1>1. CodesBehind'
  BY DeployFacts, CodeIsNat, DeployNumbers DEF Deploy!TypeOK, CodesBehind, AtMost,
     Deploy!NothingToApply, Deploy!Goto, Deploy!Works, Deploy!Action
<1>4. EntriesBehind' BY DeployFacts, HistoryStands DEF Deploy!NothingToApply
<1>5. (deployCrashes' = deployCrashes \/ deployCrashes' = deployCrashes + 1) /\ deploys' = deploys
  BY DEF Deploy!NothingToApply, Deploy!Works, Deploy!Fails
<1>6. ASSUME Deploy!Undisturbed' PROVE Deploy!Undisturbed
  BY <1>5, <1>6, DeployFacts, StaysUndisturbed
<1>7. ASSUME Deploy!Undisturbed PROVE EntriesMigrated'
  BY <1>5, <1>7, DeployFacts, EntriesStand DEF Deploy!NothingToApply
<1>8. CheckedOut'
  BY DeployFacts DEF Deploy!TypeOK, CheckedOut, OrdinaryUse, Deploy!NothingToApply, Deploy!Goto,
     Deploy!Works, Deploy!Action
<1>9. ASSUME Deploy!Undisturbed, Deploy!Undisturbed' PROVE StepMigrated'
  <2>1. /\ op.step = "decide" /\ op'.step = "verify" /\ op'.old = op.old
        /\ schema' = schema /\ loaded' = loaded /\ head' = head
    BY DeployFacts DEF Deploy!TypeOK, Deploy!NothingToApply, Deploy!Goto
  <2>2. LoadedIsBehind /\ Migrated(op.old) BY <1>9, <2>1, DeployFacts DEF StepMigrated, Pulling
  <2>3. Deploy!Plan(op.old, head) # "upgrade"
    BY DeployFacts DEF Deploy!NothingToApply, Deploy!Action, CheckedOut
  <2>4. MigratedIn(schema, head) BY <2>2, <2>3, DeployFacts, PlanMigrates DEF Migrated
  <2>5. MigratedIn(schema, loaded)
    BY <2>1, <2>2, <2>4, DeployFacts, BelowIsDone DEF LoadedIsBehind, Coming
  <2>6. LoadedIsBehind' BY <2>1, <2>5 DEF LoadedIsBehind, MigratedIn
  <2>. QED BY <2>1, <2>2, <2>4, <2>5, <2>6 DEF StepMigrated, Migrated
<1>. QED BY <1>0, <1>1, <1>4, <1>6, <1>7, <1>8, <1>9 DEF DeployInv, Behind, MigrationInv

(* The snapshot is taken on the code the database ran against.               *)
LEMMA RewindKeeps == ASSUME DeployInv, OrdinaryUse, Deploy!Rewind PROVE DeployInv'
<1>0. Deploy!TypeOK' /\ RoomLeft' /\ FlagInv' BY DeployFacts, RewindTyped
<1>1. CodesBehind'
  BY DeployFacts, CodeIsNat, DeployNumbers DEF Deploy!TypeOK, CodesBehind, AtMost, Deploy!Rewind,
     Deploy!Works, Deploy!Action
<1>4. EntriesBehind' BY DeployFacts, HistoryStands DEF Deploy!Rewind
<1>5. (deployCrashes' = deployCrashes \/ deployCrashes' = deployCrashes + 1) /\ deploys' = deploys
  BY DEF Deploy!Rewind, Deploy!Works, Deploy!Fails
<1>6. ASSUME Deploy!Undisturbed' PROVE Deploy!Undisturbed
  BY <1>5, <1>6, DeployFacts, StaysUndisturbed
<1>7. ASSUME Deploy!Undisturbed PROVE EntriesMigrated'
  BY <1>5, <1>7, DeployFacts, EntriesStand DEF Deploy!Rewind
<1>8. CheckedOut'
  BY DeployFacts DEF Deploy!TypeOK, CheckedOut, OrdinaryUse, Deploy!Rewind, Deploy!Works,
     Deploy!Action
<1>9. ASSUME Deploy!Undisturbed, Deploy!Undisturbed' PROVE StepMigrated'
  BY <1>9, DeployFacts DEF Deploy!TypeOK, CheckedOut, StepMigrated, Coming, LoadedIsBehind,
     Pulling, Migrated, Deploy!Rewind, Deploy!Works, Deploy!Action
<1>. QED BY <1>0, <1>1, <1>4, <1>6, <1>7, <1>8, <1>9 DEF DeployInv, Behind, MigrationInv

(* A refresh is chosen only where no upgrade is asked for.                   *)
LEMMA ForwardKeeps == ASSUME DeployInv, OrdinaryUse, Deploy!Forward PROVE DeployInv'
<1>0. Deploy!TypeOK' /\ RoomLeft' /\ FlagInv' BY DeployFacts, ForwardTyped
<1>1. CodesBehind'
  BY DeployFacts, CodeIsNat, DeployNumbers DEF Deploy!TypeOK, CodesBehind, AtMost, Deploy!Forward,
     Deploy!Goto, Deploy!Works
<1>4. EntriesBehind' BY DeployFacts, HistoryStands DEF Deploy!Forward
<1>5. (deployCrashes' = deployCrashes \/ deployCrashes' = deployCrashes + 1) /\ deploys' = deploys
  BY DEF Deploy!Forward, Deploy!Works, Deploy!Fails
<1>6. ASSUME Deploy!Undisturbed' PROVE Deploy!Undisturbed
  BY <1>5, <1>6, DeployFacts, StaysUndisturbed
<1>7. ASSUME Deploy!Undisturbed PROVE EntriesMigrated'
  BY <1>5, <1>7, DeployFacts, EntriesStand DEF Deploy!Forward
<1>8. CheckedOut'
  BY DeployFacts DEF Deploy!TypeOK, CheckedOut, OrdinaryUse, Deploy!Forward, Deploy!Goto,
     Deploy!Works
<1>9. ASSUME Deploy!Undisturbed, Deploy!Undisturbed' PROVE StepMigrated'
  <2>1. /\ op.step = "rewound" /\ op' = [op EXCEPT !.step = op'.step]
        /\ op'.step \in {"apply", "refresh"} /\ head' = op.new
        /\ op'.step = "refresh" => Deploy!Plan(op.old, op.new) = "refresh"
        /\ schema' = schema /\ loaded' = loaded
    BY DeployFacts DEF Deploy!TypeOK, Deploy!Forward, Deploy!Goto
  <2>2. LoadedIsBehind /\ Migrated(op.old) BY <1>9, <2>1, DeployFacts DEF StepMigrated, Pulling
  <2>3. op'.old = op.old /\ op'.step # "rewound" BY <2>1, DeployFacts DEF Deploy!TypeOK
  <2>4. op'.step = "refresh" => MigratedIn(schema, op.new)
    BY <2>1, <2>2, DeployFacts, PlanMigrates DEF Migrated
  <2>5. LoadedIsBehind' BY <2>1, <2>2, <2>3 DEF LoadedIsBehind, Coming
  <2>. QED BY <2>1, <2>2, <2>3, <2>4, <2>5 DEF StepMigrated, Migrated
<1>. QED BY <1>0, <1>1, <1>4, <1>6, <1>7, <1>8, <1>9 DEF DeployInv, Behind, MigrationInv

(* An upgrade brings the database up to the code just pulled.                *)
LEMMA ApplyKeeps == ASSUME DeployInv, OrdinaryUse, Deploy!Apply PROVE DeployInv'
<1>0. Deploy!TypeOK' /\ RoomLeft' /\ FlagInv' BY DeployFacts, ApplyTyped
<1>1. CodesBehind'
  BY DeployFacts, CodeIsNat, DeployNumbers DEF Deploy!TypeOK, CodesBehind, AtMost, Deploy!Apply,
     Deploy!Goto, Deploy!Works
<1>4. EntriesBehind' BY DeployFacts, HistoryStands DEF Deploy!Apply
<1>5. (deployCrashes' = deployCrashes \/ deployCrashes' = deployCrashes + 1) /\ deploys' = deploys
  BY DEF Deploy!Apply, Deploy!Works, Deploy!Fails
<1>6. ASSUME Deploy!Undisturbed' PROVE Deploy!Undisturbed
  BY <1>5, <1>6, DeployFacts, StaysUndisturbed
<1>7. ASSUME Deploy!Undisturbed PROVE EntriesMigrated'
  BY <1>5, <1>7, DeployFacts, EntriesStand DEF Deploy!Apply
<1>8. CheckedOut'
  BY DeployFacts DEF Deploy!TypeOK, CheckedOut, OrdinaryUse, Deploy!Apply, Deploy!Goto, Deploy!Works
<1>9. ASSUME Deploy!Undisturbed, Deploy!Undisturbed' PROVE StepMigrated'
  <2>1. /\ op.step = "apply" /\ op'.step = "verify" /\ op'.old = op.old
        /\ schema' = schema \cup Deploy!ToMigrate(op.old, op.new) /\ head = op.new
        /\ loaded' = head /\ head' = head
    BY DeployFacts DEF Deploy!TypeOK, Deploy!Apply, Deploy!Goto, CheckedOut
  <2>2. MigratedIn(schema, op.old) BY <1>9, <2>1, DeployFacts DEF StepMigrated, Migrated
  <2>3. MigratedIn(schema', op.old) BY <2>1, <2>2, DeployFacts, StaysMigrated
  <2>4. MigratedIn(schema', head) BY <2>1, <2>2, DeployFacts, UpgradeMigrates
  <2>5. LoadedIsBehind' BY <2>1, <2>4 DEF LoadedIsBehind, MigratedIn
  <2>. QED BY <2>1, <2>3, <2>4, <2>5 DEF StepMigrated, Migrated
<1>. QED BY <1>0, <1>1, <1>4, <1>6, <1>7, <1>8, <1>9 DEF DeployInv, Behind, MigrationInv

(* One that fails takes nothing from the code before it.                     *)
LEMMA ApplyFailsKeeps == ASSUME DeployInv, OrdinaryUse, Deploy!ApplyFails PROVE DeployInv'
<1>0. Deploy!TypeOK' /\ RoomLeft' /\ FlagInv' BY DeployFacts, ApplyFailsTyped
<1>1. CodesBehind'
  BY DeployFacts, CodeIsNat, DeployNumbers DEF Deploy!TypeOK, CodesBehind, AtMost,
     Deploy!ApplyFails, Deploy!Goto, Deploy!Fails
<1>4. EntriesBehind' BY DeployFacts, HistoryStands DEF Deploy!ApplyFails
<1>5. (deployCrashes' = deployCrashes \/ deployCrashes' = deployCrashes + 1) /\ deploys' = deploys
  BY DEF Deploy!ApplyFails, Deploy!Works, Deploy!Fails
<1>6. ASSUME Deploy!Undisturbed' PROVE Deploy!Undisturbed
  BY <1>5, <1>6, DeployFacts, StaysUndisturbed
<1>7. ASSUME Deploy!Undisturbed PROVE EntriesMigrated'
  BY <1>5, <1>7, DeployFacts, EntriesStand DEF Deploy!ApplyFails
<1>8. CheckedOut'
  BY DeployFacts DEF Deploy!TypeOK, CheckedOut, OrdinaryUse, Deploy!ApplyFails, Deploy!Goto,
     Deploy!Fails
<1>9. ASSUME Deploy!Undisturbed, Deploy!Undisturbed' PROVE StepMigrated'
  <2>1. op.step = "apply" /\ op'.step = "rollback" /\ op'.old = op.old /\ schema \subseteq schema'
    BY DeployFacts DEF Deploy!TypeOK, Deploy!ApplyFails, Deploy!Goto
  <2>2. MigratedIn(schema, op.old) BY <1>9, <2>1, DeployFacts DEF StepMigrated, Migrated
  <2>3. MigratedIn(schema', op.old) BY <2>1, <2>2, DeployFacts, StaysMigrated
  <2>. QED BY <2>1, <2>3 DEF StepMigrated, Migrated, Pulling
<1>. QED BY <1>0, <1>1, <1>4, <1>6, <1>7, <1>8, <1>9 DEF DeployInv, Behind, MigrationInv

(* A refresh loads code that is migrated.                                    *)
LEMMA RefreshKeeps == ASSUME DeployInv, OrdinaryUse, Deploy!Refresh PROVE DeployInv'
<1>0. Deploy!TypeOK' /\ RoomLeft' /\ FlagInv' BY DeployFacts, RefreshTyped
<1>1. CodesBehind'
  BY DeployFacts, CodeIsNat, DeployNumbers DEF Deploy!TypeOK, CodesBehind, AtMost, Deploy!Refresh,
     Deploy!Goto, Deploy!Works
<1>4. EntriesBehind' BY DeployFacts, HistoryStands DEF Deploy!Refresh
<1>5. (deployCrashes' = deployCrashes \/ deployCrashes' = deployCrashes + 1) /\ deploys' = deploys
  BY DEF Deploy!Refresh, Deploy!Works, Deploy!Fails
<1>6. ASSUME Deploy!Undisturbed' PROVE Deploy!Undisturbed
  BY <1>5, <1>6, DeployFacts, StaysUndisturbed
<1>7. ASSUME Deploy!Undisturbed PROVE EntriesMigrated'
  BY <1>5, <1>7, DeployFacts, EntriesStand DEF Deploy!Refresh
<1>8. CheckedOut'
  BY DeployFacts DEF Deploy!TypeOK, CheckedOut, OrdinaryUse, Deploy!Refresh, Deploy!Goto,
     Deploy!Works
<1>9. ASSUME Deploy!Undisturbed, Deploy!Undisturbed' PROVE StepMigrated'
  <2>1. /\ op.step = "refresh" /\ op'.step = "verify" /\ op'.old = op.old
        /\ schema' = schema /\ loaded' = head /\ head' = head
    BY DeployFacts DEF Deploy!TypeOK, Deploy!Refresh, Deploy!Goto
  <2>2. Migrated(op.old) /\ Migrated(head) BY <1>9, <2>1, DeployFacts DEF StepMigrated
  <2>3. LoadedIsBehind' BY <2>1, <2>2 DEF LoadedIsBehind, Migrated, MigratedIn
  <2>. QED BY <2>1, <2>2, <2>3 DEF StepMigrated, Migrated
<1>. QED BY <1>0, <1>1, <1>4, <1>6, <1>7, <1>8, <1>9 DEF DeployInv, Behind, MigrationInv

(* A deploy that succeeded recorded code that is migrated.                   *)
LEMMA VerifiedKeeps == ASSUME DeployInv, OrdinaryUse, Deploy!Verified PROVE DeployInv'
<1>0. Deploy!TypeOK' /\ RoomLeft' /\ FlagInv' BY DeployFacts, VerifiedTyped
<1>1. CodesBehind'
  BY DeployFacts, CodeIsNat, DeployNumbers DEF Deploy!TypeOK, CodesBehind, AtMost, Deploy!Verified,
     Deploy!Goto, Deploy!Works, Deploy!Flag, Deploy!Record
<1>2. op.step # "idle" /\ tip' = tip /\ schema' = schema BY DEF Deploy!Verified, Deploy!Goto
<1>3. /\ [status |-> "success", from |-> op.old[Main], to |-> head[Main], heads |-> head]
          \in Deploy!Entry
      /\ deploys' = Append(deploys,
            [status |-> "success", from |-> op.old[Main], to |-> head[Main], heads |-> head])
  BY DeployFacts, DeployNumbers, CodeIsNat DEF Deploy!TypeOK, Deploy!Entry, Deploy!Verified,
     Deploy!Record
<1>4. EntriesBehind'
  BY <1>2, <1>3, HistoryGrows, DeployFacts, DeployNumbers DEF CodesBehind, AtMost
<1>5. deployCrashes' = deployCrashes BY DEF Deploy!Verified, Deploy!Works, Deploy!Fails
<1>6. ASSUME Deploy!Undisturbed' PROVE Deploy!Undisturbed
  BY <1>3, <1>5, <1>6, DeployFacts, StaysUndisturbed
<1>7. ASSUME Deploy!Undisturbed PROVE EntriesMigrated'
  BY <1>2, <1>3, <1>7, EntriesGrow, DeployFacts, DeployNumbers
    DEF StepMigrated, Migrated, MigratedIn, Deploy!Verified, Deploy!Goto
<1>8. CheckedOut'
  BY DeployFacts DEF Deploy!TypeOK, CheckedOut, OrdinaryUse, Deploy!Verified, Deploy!Goto,
     Deploy!Works, Deploy!Flag, Deploy!Record
<1>9. ASSUME Deploy!Undisturbed, Deploy!Undisturbed' PROVE StepMigrated'
  BY <1>9, DeployFacts DEF Deploy!TypeOK, CheckedOut, StepMigrated, Coming, LoadedIsBehind,
     Pulling, Migrated, Deploy!Verified, Deploy!Goto, Deploy!Works, Deploy!Flag, Deploy!Record
<1>. QED BY <1>0, <1>1, <1>4, <1>6, <1>7, <1>8, <1>9 DEF DeployInv, Behind, MigrationInv

(* One that does not serve is rolled back to migrated code.                  *)
LEMMA VerifyFailsKeeps == ASSUME DeployInv, OrdinaryUse, Deploy!VerifyFails PROVE DeployInv'
<1>0. Deploy!TypeOK' /\ RoomLeft' /\ FlagInv' BY DeployFacts, VerifyFailsTyped
<1>1. CodesBehind'
  BY DeployFacts, CodeIsNat, DeployNumbers DEF Deploy!TypeOK, CodesBehind, AtMost,
     Deploy!VerifyFails, Deploy!Goto, Deploy!Fails
<1>4. EntriesBehind' BY DeployFacts, HistoryStands DEF Deploy!VerifyFails
<1>5. (deployCrashes' = deployCrashes \/ deployCrashes' = deployCrashes + 1) /\ deploys' = deploys
  BY DEF Deploy!VerifyFails, Deploy!Works, Deploy!Fails
<1>6. ASSUME Deploy!Undisturbed' PROVE Deploy!Undisturbed
  BY <1>5, <1>6, DeployFacts, StaysUndisturbed
<1>7. ASSUME Deploy!Undisturbed PROVE EntriesMigrated'
  BY <1>5, <1>7, DeployFacts, EntriesStand DEF Deploy!VerifyFails
<1>8. CheckedOut'
  BY DeployFacts DEF Deploy!TypeOK, CheckedOut, OrdinaryUse, Deploy!VerifyFails, Deploy!Goto,
     Deploy!Fails
<1>9. ASSUME Deploy!Undisturbed, Deploy!Undisturbed' PROVE StepMigrated'
  BY <1>9, DeployFacts DEF Deploy!TypeOK, CheckedOut, StepMigrated, Coming, LoadedIsBehind,
     Pulling, Migrated, Deploy!VerifyFails, Deploy!Goto, Deploy!Fails
<1>. QED BY <1>0, <1>1, <1>4, <1>6, <1>7, <1>8, <1>9 DEF DeployInv, Behind, MigrationInv

(* One that raises had applied what it pulled.                               *)
LEMMA DeployRaisesKeeps == ASSUME DeployInv, OrdinaryUse, Deploy!DeployRaises PROVE DeployInv'
<1>0. Deploy!TypeOK' /\ RoomLeft' /\ FlagInv' BY DeployFacts, DeployRaisesTyped
<1>1. CodesBehind'
  BY DeployFacts, CodeIsNat, DeployNumbers DEF Deploy!TypeOK, CodesBehind, AtMost,
     Deploy!DeployRaises, Deploy!Goto, Deploy!Fails, Deploy!Flag, Deploy!Record
<1>2. op.step # "idle" /\ tip' = tip /\ schema' = schema BY DEF Deploy!DeployRaises, Deploy!Goto
<1>3. /\ [status |-> "error", from |-> op.old[Main], to |-> head[Main], heads |-> Deploy!NoHeads]
          \in Deploy!Entry
      /\ deploys' = Append(deploys,
            [status |-> "error", from |-> op.old[Main], to |-> head[Main],
                  heads |-> Deploy!NoHeads])
  BY DeployFacts, DeployNumbers, CodeIsNat DEF Deploy!TypeOK, Deploy!Entry, Deploy!DeployRaises,
     Deploy!Record
<1>4. EntriesBehind'
  BY <1>2, <1>3, HistoryGrows, DeployFacts, DeployNumbers DEF CodesBehind, AtMost
<1>5. deployCrashes' = deployCrashes BY DEF Deploy!DeployRaises, Deploy!Works, Deploy!Fails
<1>6. ASSUME Deploy!Undisturbed' PROVE Deploy!Undisturbed
  BY <1>3, <1>5, <1>6, DeployFacts, StaysUndisturbed
<1>7. ASSUME Deploy!Undisturbed PROVE EntriesMigrated'
  BY <1>2, <1>3, <1>7, EntriesGrow, DeployFacts, DeployNumbers
    DEF StepMigrated, Migrated, MigratedIn
<1>8. CheckedOut'
  BY DeployFacts DEF Deploy!TypeOK, CheckedOut, OrdinaryUse, Deploy!DeployRaises, Deploy!Goto,
     Deploy!Fails, Deploy!Flag, Deploy!Record
<1>9. ASSUME Deploy!Undisturbed, Deploy!Undisturbed' PROVE StepMigrated'
  <2>1. /\ op.step \in {"refresh", "verify"} /\ op'.step = "idle"
        /\ schema' = schema /\ loaded' = loaded /\ head' = head
    BY DeployFacts DEF Deploy!TypeOK, Deploy!DeployRaises, Deploy!Goto
  <2>2. Migrated(head) /\ LoadedIsBehind BY <1>9, <2>1, DeployFacts DEF StepMigrated, Pulling
  <2>3. MigratedIn(schema, loaded)
    BY <2>1, <2>2, DeployFacts, BelowIsDone DEF LoadedIsBehind, Coming, Migrated
  <2>. QED BY <2>1, <2>2, <2>3 DEF StepMigrated, Migrated, Pulling
<1>. QED BY <1>0, <1>1, <1>4, <1>6, <1>7, <1>8, <1>9 DEF DeployInv, Behind, MigrationInv

(* The reset goes back to the code before the deploy,                        *)
LEMMA ResetCodeKeeps == ASSUME DeployInv, OrdinaryUse, Deploy!ResetCode PROVE DeployInv'
<1>0. Deploy!TypeOK' /\ RoomLeft' /\ FlagInv' BY DeployFacts, ResetCodeTyped
<1>1. CodesBehind'
  BY DeployFacts, CodeIsNat, DeployNumbers DEF Deploy!TypeOK, CodesBehind, AtMost,
     Deploy!ResetCode, Deploy!Works, Deploy!ResetTo, Deploy!Kept, Deploy!Extras
<1>4. EntriesBehind' BY DeployFacts, HistoryStands DEF Deploy!ResetCode
<1>5. (deployCrashes' = deployCrashes \/ deployCrashes' = deployCrashes + 1) /\ deploys' = deploys
  BY DEF Deploy!ResetCode, Deploy!Works, Deploy!Fails
<1>6. ASSUME Deploy!Undisturbed' PROVE Deploy!Undisturbed
  BY <1>5, <1>6, DeployFacts, StaysUndisturbed
<1>7. ASSUME Deploy!Undisturbed PROVE EntriesMigrated'
  BY <1>5, <1>7, DeployFacts, EntriesStand DEF Deploy!ResetCode
<1>8. CheckedOut'
  <2>1. op'.step = "reset" /\ op'.old = op.old /\ op'.explicit = op.explicit
    BY DeployFacts DEF Deploy!TypeOK, Deploy!ResetCode
  <2>2. head' = op.old
    BY DeployFacts DEF Deploy!ResetCode, Deploy!ResetTo, Deploy!Kept, OrdinaryUse, Deploy!Code
  <2>. QED BY <2>1, <2>2, DeployFacts DEF CheckedOut
<1>9. ASSUME Deploy!Undisturbed, Deploy!Undisturbed' PROVE StepMigrated'
  BY <1>9, DeployFacts DEF Deploy!TypeOK, CheckedOut, StepMigrated, Coming, LoadedIsBehind,
     Pulling, Migrated, Deploy!ResetCode, Deploy!Works, Deploy!ResetTo, Deploy!Kept, Deploy!Extras
<1>. QED BY <1>0, <1>1, <1>4, <1>6, <1>7, <1>8, <1>9 DEF DeployInv, Behind, MigrationInv

(* which is what Odoo loads then.                                            *)
LEMMA RolledBackKeeps == ASSUME DeployInv, OrdinaryUse, Deploy!RolledBack PROVE DeployInv'
<1>0. Deploy!TypeOK' /\ RoomLeft' /\ FlagInv' BY DeployFacts, RolledBackTyped
<1>1. CodesBehind'
  BY DeployFacts, CodeIsNat, DeployNumbers DEF Deploy!TypeOK, CodesBehind, AtMost,
     Deploy!RolledBack, Deploy!Goto, Deploy!Works, Deploy!Flag, Deploy!Record
<1>2. op.step # "idle" /\ tip' = tip /\ schema' = schema BY DEF Deploy!RolledBack, Deploy!Goto
<1>3. /\ [status |-> "rolled_back", from |-> op.old[Main], to |-> op.new[Main],
            heads |-> Deploy!NoHeads] \in Deploy!Entry
      /\ deploys' = Append(deploys,
            [status |-> "rolled_back", from |-> op.old[Main], to |-> op.new[Main],
                  heads |-> Deploy!NoHeads])
  BY DeployFacts, DeployNumbers, CodeIsNat DEF Deploy!TypeOK, Deploy!Entry, Deploy!RolledBack,
     Deploy!Record
<1>4. EntriesBehind'
  BY <1>2, <1>3, HistoryGrows, DeployFacts, DeployNumbers DEF CodesBehind, AtMost
<1>5. deployCrashes' = deployCrashes BY DEF Deploy!RolledBack, Deploy!Works, Deploy!Fails
<1>6. ASSUME Deploy!Undisturbed' PROVE Deploy!Undisturbed
  BY <1>3, <1>5, <1>6, DeployFacts, StaysUndisturbed
<1>7. ASSUME Deploy!Undisturbed PROVE EntriesMigrated'
  BY <1>2, <1>3, <1>7, EntriesGrow, DeployFacts, DeployNumbers
    DEF StepMigrated, Migrated, MigratedIn
<1>8. CheckedOut'
  BY DeployFacts DEF Deploy!TypeOK, CheckedOut, OrdinaryUse, Deploy!RolledBack, Deploy!Goto,
     Deploy!Works, Deploy!Flag, Deploy!Record
<1>9. ASSUME Deploy!Undisturbed, Deploy!Undisturbed' PROVE StepMigrated'
  BY <1>9, DeployFacts DEF Deploy!TypeOK, CheckedOut, StepMigrated, Coming, LoadedIsBehind,
     Pulling, Migrated, Deploy!RolledBack, Deploy!Goto, Deploy!Works, Deploy!Flag, Deploy!Record
<1>. QED BY <1>0, <1>1, <1>4, <1>6, <1>7, <1>8, <1>9 DEF DeployInv, Behind, MigrationInv

(* A rollback that fails is on record.                                       *)
LEMMA RollbackFailsKeeps == ASSUME DeployInv, OrdinaryUse, Deploy!RollbackFails PROVE DeployInv'
<1>0. Deploy!TypeOK' /\ RoomLeft' /\ FlagInv' BY DeployFacts, RollbackFailsTyped
<1>1. CodesBehind'
  BY DeployFacts, CodeIsNat, DeployNumbers DEF Deploy!TypeOK, CodesBehind, AtMost,
     Deploy!RollbackFails, Deploy!Goto, Deploy!Fails, Deploy!Flag, Deploy!Record
<1>2. op.step # "idle" /\ tip' = tip /\ schema' = schema BY DEF Deploy!RollbackFails, Deploy!Goto
<1>3. /\ [status |-> "rollback_failed", from |-> op.old[Main], to |-> head[Main],
            heads |-> Deploy!NoHeads] \in Deploy!Entry
      /\ [status |-> "rollback_failed", from |-> op.old[Main], to |-> op.new[Main],
            heads |-> Deploy!NoHeads] \in Deploy!Entry
  BY DeployFacts, DeployNumbers, CodeIsNat DEF Deploy!TypeOK, Deploy!Entry
<1>3a. \/ deploys' = Append(deploys,
             [status |-> "rollback_failed", from |-> op.old[Main], to |-> head[Main],
                   heads |-> Deploy!NoHeads])
       \/ deploys' = Append(deploys,
             [status |-> "rollback_failed", from |-> op.old[Main], to |-> op.new[Main],
                   heads |-> Deploy!NoHeads])
  BY DEF Deploy!RollbackFails, Deploy!Record
<1>4. EntriesBehind'
  BY <1>2, <1>3, <1>3a, HistoryGrows, DeployFacts, DeployNumbers DEF CodesBehind, AtMost
<1>5. deployCrashes' = deployCrashes BY DEF Deploy!RollbackFails, Deploy!Works, Deploy!Fails
<1>6. ASSUME Deploy!Undisturbed' PROVE Deploy!Undisturbed
  BY <1>3, <1>3a, <1>5, <1>6, DeployFacts, StaysUndisturbed
<1>7. ASSUME Deploy!Undisturbed PROVE EntriesMigrated'
  BY <1>2, <1>3, <1>3a, <1>7, EntriesGrow, DeployFacts, DeployNumbers
    DEF StepMigrated, Migrated, MigratedIn
<1>8. CheckedOut'
  BY DeployFacts DEF Deploy!TypeOK, CheckedOut, OrdinaryUse, Deploy!RollbackFails, Deploy!Goto,
     Deploy!Fails, Deploy!Flag, Deploy!Record
<1>9. ASSUME Deploy!Undisturbed, Deploy!Undisturbed' PROVE StepMigrated'
  <2>1. PICK e \in Deploy!Entry : e.status = "rollback_failed" /\ deploys' = Append(deploys, e)
    BY <1>3, <1>3a
  <2>2. Len(deploys) + 1 \in DOMAIN deploys' /\ deploys'[Len(deploys) + 1] = e
    BY <2>1, Appended, DeployFacts
  <2>. QED BY <1>9, <2>1, <2>2 DEF Deploy!Undisturbed
<1>. QED BY <1>0, <1>1, <1>4, <1>6, <1>7, <1>8, <1>9 DEF DeployInv, Behind, MigrationInv

(* A rollback goes to code that was migrated,                                *)
LEMMA RollbackToKeeps == ASSUME DeployInv, OrdinaryUse, NEW commit \in 0..tip[Main],
                                Deploy!RollbackTo(commit), Deploy!Undisturbed
                                    => DoneIn(schema, Main, commit)
                         PROVE  DeployInv'
<1>0. Deploy!TypeOK' /\ RoomLeft' /\ FlagInv' BY DeployFacts, RollbackToTyped
<1>1. CodesBehind'
  <2>1. /\ op'.step = "restart_to" /\ op'.old = head /\ tip' = tip
    BY DEF Deploy!RollbackTo
  <2>2. head' = Deploy!CodeFor(commit)
    BY DeployFacts, CommitTyped, CodeForIsCode DEF Deploy!RollbackTo, Deploy!ResetTo, Deploy!Kept,
       OrdinaryUse, Deploy!Code
  <2>3. commit \in 0..MaxCommit /\ commit <= tip[Main] BY DeployFacts, CommitTyped
  <2>4. AtMost(head', tip) BY <2>2, <2>3, DeployFacts, CodeForBehind DEF Behind
  <2>. QED BY <2>1, <2>4, DeployFacts DEF CodesBehind, AtMost
<1>4. EntriesBehind' BY DeployFacts, HistoryStands DEF Deploy!RollbackTo
<1>5. (deployCrashes' = deployCrashes \/ deployCrashes' = deployCrashes + 1) /\ deploys' = deploys
  BY DEF Deploy!RollbackTo, Deploy!Works, Deploy!Fails
<1>6. ASSUME Deploy!Undisturbed' PROVE Deploy!Undisturbed
  BY <1>5, <1>6, DeployFacts, StaysUndisturbed
<1>7. ASSUME Deploy!Undisturbed PROVE EntriesMigrated'
  BY <1>5, <1>7, DeployFacts, EntriesStand DEF Deploy!RollbackTo
<1>8. CheckedOut'
  BY DeployFacts DEF Deploy!TypeOK, CheckedOut, OrdinaryUse, Deploy!RollbackTo, Deploy!Works,
     Deploy!ResetTo, Deploy!Kept, Deploy!Extras
<1>9. ASSUME Deploy!Undisturbed, Deploy!Undisturbed' PROVE StepMigrated'
  <2>1. /\ op.step = "idle" /\ op'.step = "restart_to" /\ op'.old = head
        /\ schema' = schema /\ loaded' = loaded
    BY DEF Deploy!RollbackTo
  <2>2. head' = Deploy!CodeFor(commit)
    BY DeployFacts, CommitTyped, CodeForIsCode DEF Deploy!RollbackTo, Deploy!ResetTo, Deploy!Kept,
       OrdinaryUse, Deploy!Code
  <2>3. Migrated(head) /\ Migrated(loaded) BY <1>9, <2>1, DeployFacts DEF StepMigrated
  <2>4. MigratedIn(schema, head')
    BY <1>9, <2>2, <2>3, DeployFacts, CommitTyped, CodeForMigrated DEF Migrated
  <2>. QED BY <2>1, <2>3, <2>4 DEF StepMigrated, Migrated, Pulling
<1>. QED BY <1>0, <1>1, <1>4, <1>6, <1>7, <1>8, <1>9 DEF DeployInv, Behind, MigrationInv

(* and Odoo loads it.                                                        *)
LEMMA RollbackDoneKeeps == ASSUME DeployInv, OrdinaryUse, Deploy!RollbackDone PROVE DeployInv'
<1>0. Deploy!TypeOK' /\ RoomLeft' /\ FlagInv' BY DeployFacts, RollbackDoneTyped
<1>1. CodesBehind'
  BY DeployFacts, CodeIsNat, DeployNumbers DEF Deploy!TypeOK, CodesBehind, AtMost,
     Deploy!RollbackDone, Deploy!Goto, Deploy!Fails, Deploy!Works, Deploy!Flag, Deploy!Record
<1>2. op.step # "idle" /\ tip' = tip /\ schema' = schema BY DEF Deploy!RollbackDone, Deploy!Goto
<1>3. /\ [status |-> "success", from |-> op.old[Main], to |-> op.new[Main],
            heads |-> Deploy!NoHeads] \in Deploy!Entry
      /\ [status |-> "rollback_failed", from |-> op.old[Main], to |-> op.new[Main],
            heads |-> Deploy!NoHeads] \in Deploy!Entry
  BY DeployFacts, DeployNumbers, CodeIsNat DEF Deploy!TypeOK, Deploy!Entry
<1>3a. \/ deploys' = Append(deploys,
             [status |-> "success", from |-> op.old[Main], to |-> op.new[Main],
                   heads |-> Deploy!NoHeads])
       \/ deploys' = Append(deploys,
             [status |-> "rollback_failed", from |-> op.old[Main], to |-> op.new[Main],
                   heads |-> Deploy!NoHeads])
  BY DEF Deploy!RollbackDone, Deploy!Record
<1>4. EntriesBehind'
  BY <1>2, <1>3, <1>3a, HistoryGrows, DeployFacts, DeployNumbers DEF CodesBehind, AtMost
<1>5. deployCrashes' = deployCrashes BY DEF Deploy!RollbackDone, Deploy!Works, Deploy!Fails
<1>6. ASSUME Deploy!Undisturbed' PROVE Deploy!Undisturbed
  BY <1>3, <1>3a, <1>5, <1>6, DeployFacts, StaysUndisturbed
<1>7. ASSUME Deploy!Undisturbed PROVE EntriesMigrated'
  BY <1>2, <1>3, <1>3a, <1>7, EntriesGrow, DeployFacts, DeployNumbers
    DEF StepMigrated, Migrated, MigratedIn
<1>8. CheckedOut'
  BY DeployFacts DEF Deploy!TypeOK, CheckedOut, OrdinaryUse, Deploy!RollbackDone, Deploy!Goto,
     Deploy!Fails, Deploy!Works, Deploy!Flag, Deploy!Record
<1>9. ASSUME Deploy!Undisturbed, Deploy!Undisturbed' PROVE StepMigrated'
  BY <1>9, DeployFacts DEF Deploy!TypeOK, CheckedOut, StepMigrated, Coming, LoadedIsBehind,
     Pulling, Migrated, Deploy!RollbackDone, Deploy!Goto, Deploy!Fails, Deploy!Works, Deploy!Flag,
     Deploy!Record
<1>. QED BY <1>0, <1>1, <1>4, <1>6, <1>7, <1>8, <1>9 DEF DeployInv, Behind, MigrationInv

(* Where its restart raises, both codes were migrated.                       *)
LEMMA RollbackRaisesKeeps == ASSUME DeployInv, OrdinaryUse, Deploy!RollbackRaises PROVE DeployInv'
<1>0. Deploy!TypeOK' /\ RoomLeft' /\ FlagInv' BY DeployFacts, RollbackRaisesTyped
<1>1. CodesBehind'
  BY DeployFacts, CodeIsNat, DeployNumbers DEF Deploy!TypeOK, CodesBehind, AtMost,
     Deploy!RollbackRaises, Deploy!Goto, Deploy!Fails
<1>4. EntriesBehind' BY DeployFacts, HistoryStands DEF Deploy!RollbackRaises
<1>5. (deployCrashes' = deployCrashes \/ deployCrashes' = deployCrashes + 1) /\ deploys' = deploys
  BY DEF Deploy!RollbackRaises, Deploy!Works, Deploy!Fails
<1>6. ASSUME Deploy!Undisturbed' PROVE Deploy!Undisturbed
  BY <1>5, <1>6, DeployFacts, StaysUndisturbed
<1>7. ASSUME Deploy!Undisturbed PROVE EntriesMigrated'
  BY <1>5, <1>7, DeployFacts, EntriesStand DEF Deploy!RollbackRaises
<1>8. CheckedOut'
  BY DeployFacts DEF Deploy!TypeOK, CheckedOut, OrdinaryUse, Deploy!RollbackRaises, Deploy!Goto,
     Deploy!Fails
<1>9. ASSUME Deploy!Undisturbed, Deploy!Undisturbed' PROVE StepMigrated'
  BY <1>9, DeployFacts DEF Deploy!TypeOK, CheckedOut, StepMigrated, Coming, LoadedIsBehind,
     Pulling, Migrated, Deploy!RollbackRaises, Deploy!Goto, Deploy!Fails
<1>. QED BY <1>0, <1>1, <1>4, <1>6, <1>7, <1>8, <1>9 DEF DeployInv, Behind, MigrationInv

(* A restart loads what is checked out, which was migrated.                  *)
LEMMA RestartProductionKeeps == ASSUME DeployInv, OrdinaryUse, Deploy!RestartProduction
                                PROVE  DeployInv'
<1>0. Deploy!TypeOK' /\ RoomLeft' /\ FlagInv' BY DeployFacts, RestartProductionTyped
<1>1. CodesBehind'
  BY DeployFacts, CodeIsNat, DeployNumbers DEF Deploy!TypeOK, CodesBehind, AtMost,
     Deploy!RestartProduction, Deploy!Works, Deploy!Flag
<1>4. EntriesBehind' BY DeployFacts, HistoryStands DEF Deploy!RestartProduction
<1>5. (deployCrashes' = deployCrashes \/ deployCrashes' = deployCrashes + 1) /\ deploys' = deploys
  BY DEF Deploy!RestartProduction, Deploy!Works, Deploy!Fails
<1>6. ASSUME Deploy!Undisturbed' PROVE Deploy!Undisturbed
  BY <1>5, <1>6, DeployFacts, StaysUndisturbed
<1>7. ASSUME Deploy!Undisturbed PROVE EntriesMigrated'
  BY <1>5, <1>7, DeployFacts, EntriesStand DEF Deploy!RestartProduction
<1>8. CheckedOut'
  BY DeployFacts DEF Deploy!TypeOK, CheckedOut, OrdinaryUse, Deploy!RestartProduction,
     Deploy!Works, Deploy!Flag
<1>9. ASSUME Deploy!Undisturbed, Deploy!Undisturbed' PROVE StepMigrated'
  BY <1>9, DeployFacts DEF Deploy!TypeOK, CheckedOut, StepMigrated, Coming, LoadedIsBehind,
     Pulling, Migrated, Deploy!RestartProduction, Deploy!Works, Deploy!Flag
<1>. QED BY <1>0, <1>1, <1>4, <1>6, <1>7, <1>8, <1>9 DEF DeployInv, Behind, MigrationInv

(* So does a worker that reloads at any moment of a deploy.                  *)
LEMMA OdooReloadsKeeps == ASSUME DeployInv, OrdinaryUse, Deploy!OdooReloads PROVE DeployInv'
<1>0. Deploy!TypeOK' /\ RoomLeft' /\ FlagInv' BY DeployFacts, OdooReloadsTyped
<1>1. CodesBehind'
  BY DeployFacts, CodeIsNat, DeployNumbers DEF Deploy!TypeOK, CodesBehind, AtMost,
     Deploy!OdooReloads, Deploy!Works
<1>4. EntriesBehind' BY DeployFacts, HistoryStands DEF Deploy!OdooReloads
<1>5. (deployCrashes' = deployCrashes \/ deployCrashes' = deployCrashes + 1) /\ deploys' = deploys
  BY DEF Deploy!OdooReloads, Deploy!Works, Deploy!Fails
<1>6. ASSUME Deploy!Undisturbed' PROVE Deploy!Undisturbed
  BY <1>5, <1>6, DeployFacts, StaysUndisturbed
<1>7. ASSUME Deploy!Undisturbed PROVE EntriesMigrated'
  BY <1>5, <1>7, DeployFacts, EntriesStand DEF Deploy!OdooReloads
<1>8. CheckedOut'
  BY DeployFacts DEF Deploy!TypeOK, CheckedOut, OrdinaryUse, Deploy!OdooReloads, Deploy!Works
<1>9. ASSUME Deploy!Undisturbed, Deploy!Undisturbed' PROVE StepMigrated'
  <2>1. op' = op /\ schema' = schema /\ loaded' = head /\ head' = head BY DEF Deploy!OdooReloads
  <2>2. StepMigrated BY <1>9, DeployFacts
  <2>3. CASE op.step = "rewound"
    <3>1. Hooks => Migrated(head) BY <2>2, <2>3, DeployFacts DEF StepMigrated, CheckedOut
    <3>2. ~Hooks => head = op.new BY <2>3, DeployFacts DEF CheckedOut
    <3>3. LoadedIsBehind'
      BY <2>1, <2>3, <3>1, <3>2, DeployFacts, CodeIsNat
         DEF LoadedIsBehind, Coming, Migrated, MigratedIn
    <3>. QED BY <2>1, <2>2, <2>3, <3>3 DEF StepMigrated, Migrated
  <2>4. CASE op.step # "rewound"
    <3>1. LoadedIsBehind' BY <2>1, <2>4, DeployFacts, CodeIsNat DEF LoadedIsBehind, Coming
    <3>. QED BY <2>1, <2>2, <3>1 DEF StepMigrated, Migrated
  <2>. QED BY <2>3, <2>4
<1>. QED BY <1>0, <1>1, <1>4, <1>6, <1>7, <1>8, <1>9 DEF DeployInv, Behind, MigrationInv

(* A death disturbs.                                                         *)
LEMMA DieKeeps == ASSUME DeployInv, OrdinaryUse, Deploy!Die PROVE DeployInv'
<1>0. Deploy!TypeOK' /\ RoomLeft' /\ FlagInv' BY DeployFacts, DieTyped
<1>1. CodesBehind'
  BY DeployFacts, CodeIsNat, DeployNumbers DEF Deploy!TypeOK, CodesBehind, AtMost, Deploy!Die
<1>4. EntriesBehind' BY DeployFacts, HistoryStands DEF Deploy!Die
<1>5. (deployCrashes' = deployCrashes \/ deployCrashes' = deployCrashes + 1) /\ deploys' = deploys
  BY DEF Deploy!Die, Deploy!Works, Deploy!Fails
<1>6. ASSUME Deploy!Undisturbed' PROVE Deploy!Undisturbed
  BY <1>5, <1>6, DeployFacts, StaysUndisturbed
<1>7. ASSUME Deploy!Undisturbed PROVE EntriesMigrated'
  BY <1>5, <1>7, DeployFacts, EntriesStand DEF Deploy!Die
<1>8. CheckedOut' BY DeployFacts DEF Deploy!TypeOK, CheckedOut, OrdinaryUse, Deploy!Die
<1>9. ASSUME Deploy!Undisturbed, Deploy!Undisturbed' PROVE StepMigrated'
  <2>1. deployCrashes \in Nat /\ deployCrashes' = deployCrashes + 1
    BY DeployFacts, DeployNumbers DEF Deploy!TypeOK, Deploy!Die
  <2>. QED BY <1>9, <2>1 DEF Deploy!Undisturbed
<1>. QED BY <1>0, <1>1, <1>4, <1>6, <1>7, <1>8, <1>9 DEF DeployInv, Behind, MigrationInv

(* A start of the server changes no code.                                    *)
LEMMA StartupKeeps == ASSUME DeployInv, OrdinaryUse, Deploy!Startup PROVE DeployInv'
<1>0. Deploy!TypeOK' /\ RoomLeft' /\ FlagInv' BY DeployFacts, StartupTyped
<1>1. CodesBehind'
  BY DeployFacts, CodeIsNat, DeployNumbers DEF Deploy!TypeOK, CodesBehind, AtMost, Deploy!Startup,
     Deploy!Works, Deploy!Flag
<1>4. EntriesBehind' BY DeployFacts, HistoryStands DEF Deploy!Startup
<1>5. (deployCrashes' = deployCrashes \/ deployCrashes' = deployCrashes + 1) /\ deploys' = deploys
  BY DEF Deploy!Startup, Deploy!Works, Deploy!Fails
<1>6. ASSUME Deploy!Undisturbed' PROVE Deploy!Undisturbed
  BY <1>5, <1>6, DeployFacts, StaysUndisturbed
<1>7. ASSUME Deploy!Undisturbed PROVE EntriesMigrated'
  BY <1>5, <1>7, DeployFacts, EntriesStand DEF Deploy!Startup
<1>8. CheckedOut'
  BY DeployFacts DEF Deploy!TypeOK, CheckedOut, OrdinaryUse, Deploy!Startup, Deploy!Works,
     Deploy!Flag
<1>9. ASSUME Deploy!Undisturbed, Deploy!Undisturbed' PROVE StepMigrated'
  BY <1>9, DeployFacts DEF Deploy!TypeOK, CheckedOut, StepMigrated, Coming, LoadedIsBehind,
     Pulling, Migrated, Deploy!Startup, Deploy!Works, Deploy!Flag
<1>. QED BY <1>0, <1>1, <1>4, <1>6, <1>7, <1>8, <1>9 DEF DeployInv, Behind, MigrationInv

-----------------------------------------------------------------------------
(* So the invariant holds in every state.                                    *)

(* A rollback to an older commit keeps it,                                   *)
LEMMA RollbackToOlderKeeps ==
    ASSUME DeployInv, OrdinaryUse, NEW commit \in 0..tip[Main], commit <= head[Main],
           Deploy!RollbackTo(commit)
    PROVE  DeployInv'
<1>1. ASSUME Deploy!Undisturbed PROVE DoneIn(schema, Main, commit)
  <2>1. op.step = "idle" BY DEF Deploy!RollbackTo
  <2>2. Migrated(head) BY <1>1, <2>1, DeployFacts DEF StepMigrated
  <2>3. commit \in Nat /\ head[Main] \in Nat
    BY DeployFacts, CommitTyped, CodeIsNat, DeployNumbers
  <2>. QED BY <2>2, <2>3, DeployNumbers, LessIsDone DEF Migrated, MigratedIn
<1>. QED BY <1>1, RollbackToKeeps

(* and so does one to the default target.                                    *)
LEMMA RollbackToDefaultKeeps ==
    ASSUME DeployInv, OrdinaryUse, Deploy!RollbackToDefault
    PROVE  DeployInv'
<1>1. PICK i \in DOMAIN deploys : Deploy!DefaultTarget = deploys[i].from
  BY DeployFacts, DefaultIsRecorded DEF Deploy!RollbackToDefault
<1>2. deploys[i].from \in 0..MaxCommit /\ deploys[i].from <= tip[Main] /\ tip[Main] \in Nat
  BY DeployFacts, EntriesTyped, CodeIsNat, DeployNumbers DEF EntriesBehind
<1>3. Deploy!DefaultTarget \in 0..tip[Main] BY <1>1, <1>2
<1>4. ASSUME Deploy!Undisturbed PROVE DoneIn(schema, Main, Deploy!DefaultTarget)
  BY <1>1, <1>4, DeployFacts DEF EntriesMigrated
<1>. QED BY <1>3, <1>4, RollbackToKeeps DEF Deploy!RollbackToDefault

(* No action, no change.                                                     *)
LEMMA DeployStands == ASSUME DeployInv, UNCHANGED Deploy!vars PROVE DeployInv'
<1>1. UNCHANGED <<tip, head, loaded, schema, flags, deploys, op, up, deployFailures, deployCrashes>>
  BY DEF Deploy!vars
<1>2. Deploy!TypeOK' /\ RoomLeft' /\ FlagInv' /\ Behind' /\ CheckedOut'
  BY <1>1 DEF DeployInv, Deploy!TypeOK, RoomLeft, FlagInv, Behind, CodesBehind, EntriesBehind,
     AtMost,
     CheckedOut
<1>3. MigrationInv'
  BY <1>1 DEF DeployInv, MigrationInv, Deploy!Undisturbed, EntriesMigrated, StepMigrated, Migrated,
     MigratedIn, DoneIn, LoadedIsBehind, Coming
<1>. QED BY <1>2, <1>3 DEF DeployInv

(* A production starts with nothing pulled.                                  *)
LEMMA DeployInitially == ASSUME OrdinaryUse, Deploy!Init PROVE DeployInv
<1>1. \A r \in Repos : Deploy!Zero[r] = 0 BY DEF Deploy!Zero
<1>2. [status |-> "success", from |-> 0, to |-> 0, heads |-> Deploy!Zero] \in Deploy!Entry
  BY DeployNumbers, ZeroIsCode DEF Deploy!Entry
<1>3. deploys \in Seq(Deploy!Entry) /\ Len(deploys) = 1 /\ DOMAIN deploys = {1}
  BY <1>2 DEF Deploy!Init
<1>4. deploys[1].from = 0 /\ deploys[1].heads = Deploy!Zero BY DEF Deploy!Init
<1>5. Deploy!TypeOK BY <1>3, DeployNumbers, ZeroIsCode DEF Deploy!Init, Deploy!TypeOK, Deploy!Steps
<1>6. RoomLeft /\ FlagInv /\ CheckedOut
  BY DEF OrdinaryUse, Deploy!Init, RoomLeft, FlagInv, CheckedOut
<1>7. Behind
  BY <1>1, <1>3, <1>4, DeployNumbers DEF Deploy!Init, Behind, CodesBehind, EntriesBehind, AtMost
<1>8. MigratedIn(schema, Deploy!Zero) /\ DoneIn(schema, Main, 0)
  BY <1>1, DeployNumbers DEF MigratedIn, DoneIn
<1>9. MigrationInv
  BY <1>3, <1>4, <1>8 DEF Deploy!Init, MigrationInv, EntriesMigrated, StepMigrated, Migrated,
     Pulling
<1>. QED BY <1>5, <1>6, <1>7, <1>9 DEF DeployInv

(* So every step keeps it.                                                   *)
LEMMA DeployKept == ASSUME DeployInv, OrdinaryUse, Deploy!Next PROVE DeployInv'
<1>1. CASE \E r \in Repos : Deploy!Push(r) BY <1>1, PushKeeps
<1>2. CASE \E explicit \in BOOLEAN : Deploy!StartDeploy(explicit) BY <1>2, StartDeployKeeps
<1>3. CASE Deploy!PullMain \/ Deploy!PullExtras \/ Deploy!PullFails \/ Deploy!NothingToDo
             \/ Deploy!NothingToApply \/ Deploy!Rewind \/ Deploy!Forward
  BY <1>3, PullMainKeeps, PullExtrasKeeps, PullFailsKeeps, NothingToDoKeeps,
     NothingToApplyKeeps, RewindKeeps, ForwardKeeps
<1>4. CASE Deploy!Apply \/ Deploy!ApplyFails \/ Deploy!Refresh \/ Deploy!Verified
             \/ Deploy!VerifyFails \/ Deploy!DeployRaises
  BY <1>4, ApplyKeeps, ApplyFailsKeeps, RefreshKeeps, VerifiedKeeps, VerifyFailsKeeps,
     DeployRaisesKeeps
<1>5. CASE Deploy!ResetCode \/ Deploy!RolledBack \/ Deploy!RollbackFails
  BY <1>5, ResetCodeKeeps, RolledBackKeeps, RollbackFailsKeeps
<1>6. CASE \E commit \in 0..tip[Main] : (RollForward \/ commit <= head[Main])
             /\ Deploy!RollbackTo(commit)
  BY <1>6, RollbackToOlderKeeps DEF OrdinaryUse
<1>7. CASE Deploy!RollbackToDefault \/ Deploy!RollbackDone \/ Deploy!RollbackRaises
  BY <1>7, RollbackToDefaultKeeps, RollbackDoneKeeps, RollbackRaisesKeeps
<1>8. CASE Deploy!RestartProduction \/ Deploy!OdooReloads \/ Deploy!Die \/ Deploy!Startup
  BY <1>8, RestartProductionKeeps, OdooReloadsKeeps, DieKeeps, StartupKeeps
<1>. QED BY <1>1, <1>2, <1>3, <1>4, <1>5, <1>6, <1>7, <1>8 DEF Deploy!Next, Deploy!DeployStep

(* What the invariant says of a settled production.                          *)
LEMMA SettledIsMigrated ==
    ASSUME DeployInv
    PROVE  Deploy!SnapshotMatchesDataIfUndisturbed /\ Deploy!MigratedWhenSettled
             /\ Deploy!FlagsSettled
<1>1. ASSUME Deploy!Undisturbed, Hooks, op.step = "rewound" PROVE Deploy!Missing(head) = {}
  <2>1. Migrated(head) BY <1>1, DeployFacts DEF StepMigrated, CheckedOut
  <2>. QED BY <2>1, DeployFacts, NothingMissing
<1>2. ASSUME Deploy!Undisturbed, op.step = "idle"
      PROVE  Deploy!Missing(head) = {} /\ Deploy!Missing(loaded) = {}
  <2>1. Migrated(head) /\ Migrated(loaded) BY <1>2, DeployFacts DEF StepMigrated
  <2>. QED BY <2>1, DeployFacts, NothingMissing
<1>3. Deploy!FlagsSettled BY DeployFacts DEF FlagInv, Deploy!FlagsSettled
<1>. QED BY <1>1, <1>2, <1>3 DEF Deploy!SnapshotMatchesDataIfUndisturbed,
            Deploy!SnapshotMatchesData,
            Deploy!MigratedWhenSettled

(* Only a finished rollback is recorded as one.                              *)
LEMMA RolledBackStep ==
    ASSUME DeployInv, OrdinaryUse, Deploy!Next, deploys' # deploys,
           deploys'[Len(deploys')].status = "rolled_back"
    PROVE  head' = op.old /\ loaded' = op.old
<1>0. \A e \in Deploy!Entry : deploys' = Append(deploys, e) => deploys'[Len(deploys')] = e
  BY DeployFacts, Appended
<1>1. CASE Deploy!RolledBack
  BY <1>1, DeployFacts DEF Deploy!RolledBack, Deploy!Goto, CheckedOut
<1>2. /\ head[Main] \in 0..MaxCommit /\ op.old[Main] \in 0..MaxCommit
      /\ op.new[Main] \in 0..MaxCommit /\ head \in Deploy!Code
  BY DeployFacts, CodeIsNat, DeployNumbers
<1>4. CASE Deploy!Verified
  <2>1. /\ [status |-> "success", from |-> op.old[Main], to |-> head[Main], heads |-> head]
            \in Deploy!Entry
    BY <1>2 DEF Deploy!Entry
  <2>2. \/ deploys' = Append(deploys,
              [status |-> "success", from |-> op.old[Main], to |-> head[Main], heads |-> head])
    BY <1>4 DEF Deploy!Verified, Deploy!Record
  <2>. QED BY <1>0, <2>1, <2>2
<1>5. CASE Deploy!DeployRaises
  <2>1. /\ [status |-> "error", from |-> op.old[Main], to |-> head[Main],
              heads |-> Deploy!NoHeads] \in Deploy!Entry
    BY <1>2 DEF Deploy!Entry
  <2>2. \/ deploys' = Append(deploys,
              [status |-> "error", from |-> op.old[Main], to |-> head[Main],
                    heads |-> Deploy!NoHeads])
    BY <1>5 DEF Deploy!DeployRaises, Deploy!Record
  <2>. QED BY <1>0, <2>1, <2>2
<1>6. CASE Deploy!RollbackFails
  <2>1. /\ [status |-> "rollback_failed", from |-> op.old[Main], to |-> head[Main],
              heads |-> Deploy!NoHeads] \in Deploy!Entry
        /\ [status |-> "rollback_failed", from |-> op.old[Main], to |-> op.new[Main],
              heads |-> Deploy!NoHeads] \in Deploy!Entry
    BY <1>2 DEF Deploy!Entry
  <2>2. \/ deploys' = Append(deploys,
              [status |-> "rollback_failed", from |-> op.old[Main], to |-> head[Main],
                    heads |-> Deploy!NoHeads])
        \/ deploys' = Append(deploys,
              [status |-> "rollback_failed", from |-> op.old[Main], to |-> op.new[Main],
                    heads |-> Deploy!NoHeads])
    BY <1>6 DEF Deploy!RollbackFails, Deploy!Record
  <2>. QED BY <1>0, <2>1, <2>2
<1>7. CASE Deploy!RollbackDone
  <2>1. /\ [status |-> "success", from |-> op.old[Main], to |-> op.new[Main],
              heads |-> Deploy!NoHeads] \in Deploy!Entry
        /\ [status |-> "rollback_failed", from |-> op.old[Main], to |-> op.new[Main],
              heads |-> Deploy!NoHeads] \in Deploy!Entry
    BY <1>2 DEF Deploy!Entry
  <2>2. \/ deploys' = Append(deploys,
              [status |-> "success", from |-> op.old[Main], to |-> op.new[Main],
                    heads |-> Deploy!NoHeads])
        \/ deploys' = Append(deploys,
              [status |-> "rollback_failed", from |-> op.old[Main], to |-> op.new[Main],
                    heads |-> Deploy!NoHeads])
    BY <1>7 DEF Deploy!RollbackDone, Deploy!Record
  <2>. QED BY <1>0, <2>1, <2>2
<1>3. CASE ~(Deploy!RolledBack \/ Deploy!Verified \/ Deploy!DeployRaises \/ Deploy!RollbackFails
             \/ Deploy!RollbackDone)
  BY <1>3 DEF Deploy!Next, Deploy!DeployStep, Deploy!Push, Deploy!StartDeploy, Deploy!PullMain,
     Deploy!PullExtras, Deploy!PullFails, Deploy!NothingToDo,
     Deploy!NothingToApply, Deploy!Rewind, Deploy!Forward, Deploy!Apply, Deploy!ApplyFails,
     Deploy!Refresh, Deploy!VerifyFails, Deploy!ResetCode,
     Deploy!RollbackTo, Deploy!RollbackToDefault, Deploy!RollbackRaises, Deploy!RestartProduction,
     Deploy!OdooReloads, Deploy!Die, Deploy!Startup
<1>. QED BY <1>1, <1>3, <1>4, <1>5, <1>6, <1>7

-----------------------------------------------------------------------------
(* The deploys, when they are in focus.                                      *)

DeploysHold == focus = "deploy" => DeployInv

(* The run keeps the list of the variables that the component does.          *)
LEMMA DeploysStandStill == UNCHANGED deployVars => UNCHANGED Deploy!vars
BY DEF deployVars, Deploy!vars

LEMMA DeploysKept == ASSUME OrdinaryUse PROVE ProductionsSpec => []DeploysHold
<1>1. ProductionsInit => DeploysHold BY DeployInitially DEF ProductionsInit, DeploysHold
<1>2. DeploysHold /\ [ProductionsNext]_<<focus, vars, deployVars, prodVars>> => DeploysHold'
  <2>1. ASSUME DeploysHold, ProductionsNext PROVE DeploysHold'
    BY <2>1, DeployKept DEF DeploysHold, ProductionsNext
  <2>2. ASSUME DeploysHold, UNCHANGED <<focus, vars, deployVars, prodVars>> PROVE DeploysHold'
    BY <2>2, DeployStands, DeploysStandStill DEF DeploysHold
  <2>. QED BY <2>1, <2>2
<1>. QED BY <1>1, <1>2, PTL DEF ProductionsSpec

(* Repositories, history, flags and the operation under way keep their types. *)
THEOREM DeployTypes ==
    ASSUME OrdinaryUse PROVE ProductionsSpec => [](focus = "deploy" => Deploy!TypeOK)
<1>1. DeploysHold => (focus = "deploy" => Deploy!TypeOK) BY DEF DeploysHold, DeployInv
<1>. QED BY <1>1, DeploysKept, PTL

(* While a pre-update snapshot is taken, the checkout is code whose migrations *)
(* the database went through, whatever failed before, as long as the server   *)
(* did not die and no rollback failed (_run_pre_update_hooks).                *)
THEOREM SnapshotsMatch ==
    ASSUME OrdinaryUse
    PROVE  ProductionsSpec => []SnapshotMatchesDataIfUndisturbed
<1>1. DeploysHold => SnapshotMatchesDataIfUndisturbed
  BY SettledIsMigrated DEF DeploysHold, SnapshotMatchesDataIfUndisturbed
<1>. QED BY <1>1, DeploysKept, PTL

(* Between operations, a production whose last deploy succeeded or was rolled *)
(* back holds and runs code whose migrations its database went through,       *)
(* whatever deploys failed before (update_production).                        *)
THEOREM SettledRunsMigrated ==
    ASSUME OrdinaryUse
    PROVE  ProductionsSpec => []MigratedWhenSettled
<1>1. DeploysHold => MigratedWhenSettled
  BY SettledIsMigrated DEF DeploysHold, MigratedWhenSettled
<1>. QED BY <1>1, DeploysKept, PTL

(* The registry's deploy_in_progress is up only while a deploy runs, or until *)
(* the server that died in one starts again (clear_stale_deploy_flags).       *)
THEOREM NoFlagIsLeft ==
    ASSUME OrdinaryUse
    PROVE  ProductionsSpec => [](focus = "deploy" => Deploy!FlagsSettled)
<1>1. DeploysHold => (focus = "deploy" => Deploy!FlagsSettled)
  BY SettledIsMigrated DEF DeploysHold
<1>. QED BY <1>1, DeploysKept, PTL

(* A deploy that is recorded as rolled back left the checkout and every extra *)
(* worktree on the commits from before it, and Odoo runs them.                *)
THEOREM RolledBackToOldCode == ASSUME OrdinaryUse PROVE ProductionsSpec => Deploy!RolledBackIsOldCode
<1> DEFINE Recorded == deploys' # deploys /\ deploys'[Len(deploys')].status = "rolled_back"
                          => head' = op.old /\ loaded' = op.old
<1>1. DeploysHold /\ [ProductionsNext]_<<focus, vars, deployVars, prodVars>> => Recorded
  <2> SUFFICES ASSUME DeploysHold, [ProductionsNext]_<<focus, vars, deployVars, prodVars>>,
                      deploys' # deploys, deploys'[Len(deploys')].status = "rolled_back"
               PROVE  head' = op.old /\ loaded' = op.old
    OBVIOUS
  <2>1. ~UNCHANGED deployVars BY DEF deployVars
  <2>2. focus = "deploy" /\ Deploy!Next BY <2>1 DEF ProductionsNext
  <2>. QED BY <2>2, RolledBackStep DEF DeploysHold
<1>. QED BY <1>1, DeploysKept, PTL
         DEF ProductionsSpec, Deploy!RolledBackIsOldCode, Deploy!vars, deployVars

-----------------------------------------------------------------------------
(* The inductive invariant.                                                  *)

HasSpace == {"worktrees", "create_db", "seed", "lock_env", "copy_db", "copy_files", "run", "finish"}
HasData == {"seed", "lock_env", "copy_db", "copy_files", "run", "finish"}
Creating == (Life!CreateSteps \ {"checked"}) \cup {"undo_container", "undo_data", "undo_record"}

OnBranch == Life!Usable /\ space.branch = record.set["branch"]

(* What an operation has found and done at each of its steps.                *)
CreateStage ==
    /\ place = "checked" => record = Nil /\ creates > 0
    /\ place \in Creating =>
         Life!Have(record) /\ record.gen = creates /\ ~record.whole /\ kept = 0 /\ ~marked
    /\ place \in HasSpace => Life!Have(space) /\ space.gen = creates
    /\ place \in HasData => Life!Have(dbase) /\ dbase.gen = creates
UndoStage ==
    /\ place \in Life!CreateSteps \cup {"undo_container", "undo_data"} => ~call.left
    /\ place \in {"undo_container", "undo_data"} /\ call.issued => Life!Have(space)
    /\ place \in Life!CreateSteps /\ call.issued => place \in HasData
    /\ place \in {"undo_record", "undo_mark"} /\ call.left => Life!Have(space)
    /\ place = "undo_mark" => call.left /\ record = Nil
CopyStage ==
    /\ place \in {"worktrees", "create_db", "seed"} => space.data = 0
    /\ place = "seed" => dbase.data = 0
    /\ place \in {"copy_db", "copy_files"} => ~source.up
    /\ place = "copy_files" => dbase.data = source.data
    /\ place \in {"run", "finish"} => dbase.data = space.data
ChangeStage ==
    /\ place \in Life!ChangeSteps => Life!Have(record) /\ record.whole
    /\ place \in {"record", "checkout"} => call.staged = Nil
    /\ place \in {"addons", "remove", "swap"} /\ call.staged = Nil => OnBranch
    /\ place \in {"addons", "remove", "swap"} /\ call.staged # Nil =>
         call.staged.branch = record.set["branch"]
    /\ place \in {"recreate", "judge"} => OnBranch
    /\ place = "judge" => container = Life!Built(record)
DeleteStage == place \in Life!DeleteSteps => Life!Have(record)

(* What a deletion kept is nobody else's; a tombstone is in a workspace.     *)
KeptAlone == kept # 0 => record = Nil /\ place \in {"idle", "checked"}
MarkedThere == marked => Life!Have(space)
SettledWhole == settled => place = "idle" /\ Life!Have(record) /\ record.whole

(* A sweep that began without the name registered takes what has no record.  *)
Unregistered == record = Nil \/ place = "del_record"
SweepStage ==
    /\ sweep.by = "nobody" => sweep.at = "look"
    /\ sweep.by # "nobody" /\ ~sweep.seen /\ marked => Unregistered
    /\ sweep.at = "lock" => marked /\ Unregistered
    /\ sweep.at \in {"drop", "remove"} => place = "idle" /\ record = Nil
    /\ sweep.at = "remove" => kept = 0

-----------------------------------------------------------------------------
(* The types.                                                                *)

ThingsTyped ==
    /\ record \in Life!Records \cup {Nil} /\ dbase \in Life!Databases \cup {Nil}
    /\ space \in Life!Spaces \cup {Nil} /\ container \in Life!Containers \cup {Nil}
    /\ marked \in BOOLEAN /\ source \in [up : BOOLEAN, data : 0..MaxEdits]
Calls == [seed : {"none", "template", "env"}, ran : BOOLEAN, issued : BOOLEAN, left : BOOLEAN,
          updates : SUBSET Life!Fields, drop : BOOLEAN, staged : Life!Clones \cup {Nil}]
Sweeps == [by : {"nobody"} \cup Sweepers, seen : BOOLEAN, at : {"look", "lock", "drop", "remove"}]
WorkTyped == place \in Life!Steps /\ call \in Calls /\ sweep \in Sweeps
LifeCounted ==
    /\ settled \in BOOLEAN /\ kept \in 0..MaxCreates
    /\ creates \in 0..MaxCreates /\ calls \in 0..MaxCalls
    /\ lifeMishaps \in 0..MaxMishaps /\ edits \in 0..MaxEdits

LifeTyped == ThingsTyped /\ WorkTyped /\ LifeCounted
LifeStages ==
    /\ CreateStage /\ UndoStage /\ CopyStage /\ ChangeStage /\ DeleteStage
    /\ KeptAlone /\ MarkedThere /\ SettledWhole /\ SweepStage
    /\ Life!OwnData /\ Life!KeptUntilPurged /\ Life!PromotedPair /\ Life!Converged
LifeInv == LifeTyped /\ LifeStages

(* Only the reaper purges: a command's sweep takes no lock of the name.      *)
OnlyReaper == Sweepers \subseteq {"reaper"}

(* The bounds are numbers, and Nil is no value.                              *)
LEMMA LifeBounds ==
    /\ MaxCreates \in Nat /\ MaxCalls \in Nat /\ MaxMishaps \in Nat /\ MaxEdits \in Nat
    /\ Nil \notin Life!Records /\ Nil \notin Life!Databases /\ Nil \notin Life!Spaces
    /\ Nil \notin Life!Containers /\ Nil \notin Life!Clones
BY ProductionsConstants DEF Life!ProdConstants

(* An idle name has a call of its type.                                      *)
LEMMA NoCallIsACall == Life!NoCall \in Calls
BY DEF Life!NoCall, Calls, Life!Fields

(* A sweep that passes on is one.                                            *)
LEMMA PassedSweeps == \A s \in Sweeps : [s EXCEPT !.by = "nobody", !.at = "look"] \in Sweeps
BY DEF Sweeps

(* Nor do the edits of a call change its type,                               *)
LEMMA LeftCalls == \A c \in Calls : [c EXCEPT !.left = TRUE] \in Calls
BY DEF Calls

(* whatever they stage.                                                      *)
LEMMA StagedCalls ==
    \A c \in Calls, s \in Life!Clones : [c EXCEPT !.staged = s] \in Calls
BY DEF Calls

(* A workspace with another checkout is one.                                 *)
LEMMA CloneEdits ==
    \A s \in Life!Spaces, i, j \in 0..2 : [s EXCEPT !.repo = i, !.branch = j] \in Life!Spaces
BY DEF Life!Spaces

(* So is a record that is not whole any more a record.                       *)
LEMMA RecordEdits == \A r \in Life!Records : [r EXCEPT !.whole = FALSE] \in Life!Records
BY DEF Life!Records

(* A sweep that takes the lock is one.                                       *)
LEMMA LockedSweeps ==
    \A s \in Sweeps, a \in {"drop", "remove"} : [s EXCEPT !.at = a] \in Sweeps
BY DEF Sweeps

(* The settings of a record are 1 or 2.                                      *)
LEMMA RecordFields == \A r \in Life!Records, f \in Life!Fields : r.set[f] \in {1, 2}
BY DEF Life!Records, Life!Settings

(* So are those of a staged clone.                                           *)
LEMMA StagedFields == \A c \in Calls : c.staged = Nil
        \/ (c.staged.repo \in 0..2 /\ c.staged.branch \in 0..2)
BY DEF Calls, Life!Clones

(* What a tombstone makes is a workspace.                                    *)
LEMMA EmptySpace == [gen |-> 0, repo |-> 0, branch |-> 0, addons |-> 0, data |-> 0] \in Life!Spaces
BY LifeBounds DEF Life!Spaces

-----------------------------------------------------------------------------
(* Every step keeps it.                                                      *)

(* A creation starts where nothing is registered.                            *)
LEMMA BeginCreateKeeps == ASSUME LifeInv, OnlyReaper,
                                 NEW seed \in {"none", "template", "env"},
                                 Life!BeginCreate(seed)
                          PROVE  LifeInv'
<1>1. ThingsTyped'
  BY LifeBounds DEF LifeInv, LifeStages, LifeTyped, ThingsTyped, Life!BeginCreate, Life!Locked,
     Life!NoCall, Life!things
<1>2. WorkTyped'
  BY LifeBounds, NoCallIsACall DEF LifeInv, LifeStages, LifeTyped, WorkTyped, Life!BeginCreate,
     Life!Steps, Life!CreateSteps, ThingsTyped, Calls
<1>3. LifeCounted'
  <2>1. settled' \in BOOLEAN
    BY DEF LifeInv, LifeStages, LifeTyped, LifeCounted, Life!BeginCreate, Life!Return
  <2>2. creates \in 0..MaxCreates /\ creates < MaxCreates /\ creates' = creates + 1
    BY DEF LifeInv, LifeStages, LifeTyped, LifeCounted, Life!BeginCreate
  <2>3. creates' \in 0..MaxCreates BY <2>2, LifeBounds
  <2>. QED BY <2>1, <2>3 DEF LifeInv, LifeStages, LifeTyped, LifeCounted, Life!BeginCreate,
              Life!bounded, Life!things
<1>4. CreateStage' /\ UndoStage' /\ CopyStage'
  BY LifeBounds DEF LifeInv, LifeTyped, LifeStages, CreateStage, UndoStage, CopyStage,
     Life!BeginCreate, Creating, HasData, HasSpace, Life!Have, Life!CreateSteps, Life!Locked,
     Life!NoCall, Life!things, ThingsTyped, WorkTyped, LifeCounted
<1>5. ChangeStage' /\ DeleteStage'
  BY LifeBounds DEF LifeInv, LifeTyped, LifeStages, ChangeStage, DeleteStage, Life!BeginCreate,
     Life!Built, Life!ChangeSteps, Life!Have, OnBranch, Life!DeleteSteps, Life!Locked, Life!NoCall,
     Life!things, Life!Usable
<1>6. KeptAlone' /\ MarkedThere' /\ SettledWhole' /\ SweepStage'
  BY LifeBounds DEF OnlyReaper, LifeInv, LifeTyped, LifeStages, KeptAlone, MarkedThere,
     SettledWhole, SweepStage, Life!BeginCreate, Unregistered, Life!Locked, Life!things, WorkTyped,
     Sweeps
<1>7. Life!OwnData' /\ Life!KeptUntilPurged' /\ Life!PromotedPair' /\ Life!Converged'
  BY LifeBounds DEF LifeInv, LifeTyped, LifeStages, Life!OwnData, Life!KeptUntilPurged,
     Life!PromotedPair, Life!Converged, Life!BeginCreate, Life!Have, Life!Usable, Life!Locked,
     Life!NoCall, Life!things
<1>. QED BY <1>1, <1>2, <1>3, <1>4, <1>5, <1>6, <1>7 DEF LifeInv, LifeTyped, LifeStages

(* It registers the name only where nothing is left of an earlier one.       *)
LEMMA RegisterKeeps == ASSUME LifeInv, OnlyReaper, Life!Register PROVE LifeInv'
<1>1. ThingsTyped'
  BY LifeBounds DEF LifeInv, LifeStages, LifeTyped, ThingsTyped, Life!Register, LifeCounted,
     Life!Records, Life!Settings, CreateStage
<1>2. WorkTyped'
  BY LifeBounds, NoCallIsACall DEF LifeInv, LifeStages, LifeTyped, WorkTyped, Life!Register,
     Life!Steps, Life!Go, Life!NoLeftovers, Life!Same, Life!ChangeSteps, Life!CreateSteps,
     Life!DeleteSteps, Life!UndoSteps, Life!bounded, Life!history
<1>3. LifeCounted'
  BY LifeBounds DEF LifeInv, LifeStages, LifeTyped, LifeCounted, Life!Register, Life!Go,
     Life!NoLeftovers, Life!Same, Life!bounded, Life!history
<1>4. CreateStage' /\ UndoStage' /\ CopyStage'
  <2>1. [gen |-> creates, set |-> [f \in Life!Fields |-> 1], whole |-> FALSE] \in Life!Records
    BY LifeBounds DEF LifeInv, LifeStages, LifeTyped, LifeCounted, CreateStage, Life!Register,
       Life!Records, Life!Settings
  <2>2. record' # Nil BY <2>1, LifeBounds DEF Life!Register
  <2>. QED BY <2>1, <2>2 DEF OnlyReaper, LifeInv, LifeStages, CreateStage, UndoStage, CopyStage,
              ChangeStage, MarkedThere, Life!KeptUntilPurged, Life!PromotedPair, Life!CreateSteps,
              HasSpace, HasData, Life!NoLeftovers, Life!Register, Life!things, Life!Same, Life!Go,
              Life!Return, Life!Have, Life!history, Life!bounded
<1>5. ChangeStage' /\ DeleteStage'
  BY LifeBounds DEF LifeInv, LifeTyped, LifeStages, ChangeStage, DeleteStage, Life!Register,
     Life!Built, Life!ChangeSteps, Life!Have, OnBranch, Life!DeleteSteps, Life!Go,
     Life!NoLeftovers, Life!Same, Life!Usable, Life!bounded, Life!history
<1>6. KeptAlone' /\ MarkedThere' /\ SettledWhole' /\ SweepStage'
  BY LifeBounds DEF OnlyReaper, LifeInv, LifeTyped, LifeStages, KeptAlone, MarkedThere,
     SettledWhole, SweepStage, Life!Register, Life!Have, Life!NoLeftovers, Life!Same, Life!history,
     Life!KeptUntilPurged
<1>7. Life!OwnData' /\ Life!KeptUntilPurged' /\ Life!PromotedPair' /\ Life!Converged'
  BY LifeBounds DEF LifeInv, LifeTyped, LifeStages, Life!OwnData, Life!KeptUntilPurged,
     Life!PromotedPair, Life!Converged, Life!Register, Life!Have, Life!Usable, Life!Go,
     Life!NoLeftovers, Life!Same, Life!bounded, Life!history
<1>. QED BY <1>1, <1>2, <1>3, <1>4, <1>5, <1>6, <1>7 DEF LifeInv, LifeTyped, LifeStages

(* It leaves everything alone where it refuses the name.                     *)
LEMMA RefuseNameKeeps == ASSUME LifeInv, OnlyReaper, Life!RefuseName PROVE LifeInv'
<1>1. ThingsTyped'
  BY LifeBounds DEF LifeInv, LifeStages, LifeTyped, ThingsTyped, Life!RefuseName, Life!NoLeftovers,
     Life!Return, Life!Same, Life!things, Life!NoCall, Life!bounded, Life!history
<1>2. WorkTyped'
  BY LifeBounds, NoCallIsACall DEF LifeInv, LifeStages, LifeTyped, WorkTyped, Life!RefuseName,
     Life!Steps, Life!NoLeftovers, Life!Return, Life!Same, Life!things, Life!ChangeSteps,
     Life!CreateSteps, Life!DeleteSteps, Life!UndoSteps, Life!NoCall, Life!bounded, Life!history
<1>3. LifeCounted'
  BY LifeBounds DEF LifeInv, LifeStages, LifeTyped, LifeCounted, Life!RefuseName, Life!NoLeftovers,
     Life!Return, Life!Same, Life!things, Life!NoCall, Life!bounded, Life!history
<1>4. CreateStage' /\ UndoStage' /\ CopyStage'
  BY LifeBounds DEF LifeInv, LifeTyped, LifeStages, CreateStage, UndoStage, CopyStage,
     Life!RefuseName, Creating, HasData, HasSpace, Life!Have, Life!CreateSteps, Life!NoLeftovers,
     Life!Return, Life!Same, Life!things, Life!NoCall, Life!bounded, Life!history
<1>5. ChangeStage' /\ DeleteStage'
  BY LifeBounds DEF LifeInv, LifeTyped, LifeStages, ChangeStage, DeleteStage, Life!RefuseName,
     Life!Built, Life!ChangeSteps, Life!Have, OnBranch, Life!DeleteSteps, Life!NoLeftovers,
     Life!Return, Life!Same, Life!things, Life!Usable, Life!NoCall, Life!bounded, Life!history
<1>6. KeptAlone' /\ MarkedThere' /\ SettledWhole' /\ SweepStage'
  BY LifeBounds DEF OnlyReaper, LifeInv, LifeTyped, LifeStages, KeptAlone, MarkedThere,
     SettledWhole, SweepStage, Life!RefuseName, Life!Have, Unregistered, Life!NoLeftovers,
     Life!Return, Life!Same, Life!things, Life!NoCall, Life!bounded, Life!history
<1>7. Life!OwnData' /\ Life!KeptUntilPurged' /\ Life!PromotedPair' /\ Life!Converged'
  BY LifeBounds DEF LifeInv, LifeTyped, LifeStages, Life!OwnData, Life!KeptUntilPurged,
     Life!PromotedPair, Life!Converged, Life!RefuseName, Life!Have, Life!Usable, Life!NoLeftovers,
     Life!Return, Life!Same, Life!things, Life!NoCall, Life!bounded, Life!history
<1>. QED BY <1>1, <1>2, <1>3, <1>4, <1>5, <1>6, <1>7 DEF LifeInv, LifeTyped, LifeStages

(* The workspace is of this creation.                                        *)
LEMMA MakeWorkspaceKeeps == ASSUME LifeInv, OnlyReaper, Life!MakeWorkspace PROVE LifeInv'
<1>1. ThingsTyped'
  BY LifeBounds DEF LifeInv, LifeStages, LifeTyped, ThingsTyped, Life!MakeWorkspace, Life!Go,
     Life!Same, Life!bounded, Life!history, WorkTyped, LifeCounted, Life!Records, Life!Databases,
     Life!Spaces, Life!Containers, Life!Clones, Calls, Sweeps, Life!Settings, Life!Fields
<1>2. WorkTyped'
  BY LifeBounds, NoCallIsACall DEF LifeInv, LifeStages, LifeTyped, WorkTyped, Life!MakeWorkspace,
     Life!Steps, Life!Go, Life!Same, Life!ChangeSteps, Life!CreateSteps, Life!DeleteSteps,
     Life!UndoSteps, Life!bounded, Life!history
<1>3. LifeCounted'
  BY LifeBounds DEF LifeInv, LifeStages, LifeTyped, LifeCounted, Life!MakeWorkspace, Life!Go,
     Life!Same, Life!bounded, Life!history
<1>4. CreateStage' /\ UndoStage' /\ CopyStage'
  BY LifeBounds DEF LifeInv, LifeTyped, LifeStages, CreateStage, UndoStage, CopyStage,
     Life!MakeWorkspace, Creating, HasData, HasSpace, Life!Have, Life!CreateSteps, Life!Go,
     Life!Same, Life!bounded, Life!history, LifeCounted, Life!Databases, Life!Spaces,
     Life!Containers, Life!Clones, Calls, Life!Settings, Life!Fields
<1>5. ChangeStage' /\ DeleteStage'
  BY LifeBounds DEF LifeInv, LifeTyped, LifeStages, ChangeStage, DeleteStage, Life!MakeWorkspace,
     Life!Built, Life!ChangeSteps, Life!Have, OnBranch, Life!DeleteSteps, Life!Go, Life!Same,
     Life!Usable, Life!bounded, Life!history
<1>6. KeptAlone' /\ MarkedThere' /\ SettledWhole' /\ SweepStage'
  BY LifeBounds DEF OnlyReaper, LifeInv, LifeTyped, LifeStages, KeptAlone, MarkedThere,
     SettledWhole, SweepStage, Life!MakeWorkspace, Life!Have, Unregistered, Life!Go, Life!Same,
     Life!bounded, Life!history
<1>7. Life!OwnData' /\ Life!KeptUntilPurged' /\ Life!PromotedPair' /\ Life!Converged'
  BY LifeBounds DEF LifeInv, LifeTyped, LifeStages, Life!OwnData, Life!KeptUntilPurged,
     Life!PromotedPair, Life!Converged, Life!MakeWorkspace, Life!Have, Life!Usable, Life!Go,
     Life!Same, Life!bounded, Life!history
<1>. QED BY <1>1, <1>2, <1>3, <1>4, <1>5, <1>6, <1>7 DEF LifeInv, LifeTyped, LifeStages

(* So it stays.                                                              *)
LEMMA MakeWorktreesKeeps == ASSUME LifeInv, OnlyReaper, Life!MakeWorktrees PROVE LifeInv'
<1>1. ThingsTyped'
  BY LifeBounds DEF LifeInv, LifeStages, LifeTyped, ThingsTyped, Life!MakeWorktrees, Life!Go,
     Life!Same, Life!bounded, Life!history, WorkTyped, Life!Spaces, Life!Settings, Life!Fields,
     CreateStage, MarkedThere, SettledWhole, HasSpace, Life!Have, Life!CreateSteps, Life!Built,
     Life!ChangeSteps, OnBranch, Unregistered, Life!Usable
<1>2. WorkTyped'
  BY LifeBounds, NoCallIsACall DEF LifeInv, LifeStages, LifeTyped, WorkTyped, Life!MakeWorktrees,
     Life!Steps, Life!Go, Life!Same, Life!ChangeSteps, Life!CreateSteps, Life!DeleteSteps,
     Life!UndoSteps, Life!bounded, Life!history
<1>3. LifeCounted'
  BY LifeBounds DEF LifeInv, LifeStages, LifeTyped, LifeCounted, Life!MakeWorktrees, Life!Go,
     Life!Same, Life!bounded, Life!history
<1>4. CreateStage' /\ UndoStage' /\ CopyStage'
  BY LifeBounds DEF LifeInv, LifeTyped, LifeStages, CreateStage, UndoStage, CopyStage,
     Life!MakeWorktrees, Creating, HasData, HasSpace, Life!Have, Life!CreateSteps, Life!Go,
     Life!Same, Life!bounded, Life!history, ThingsTyped, Life!Databases, Life!Spaces,
     Life!Containers, Life!Clones, Calls, Life!Settings, Life!Fields
<1>5. ChangeStage' /\ DeleteStage'
  BY LifeBounds DEF LifeInv, LifeTyped, LifeStages, ChangeStage, DeleteStage, Life!MakeWorktrees,
     Life!Built, Life!ChangeSteps, Life!Have, OnBranch, Life!DeleteSteps, Life!Go, Life!Same,
     Life!Usable, Life!bounded, Life!history
<1>6. KeptAlone' /\ MarkedThere' /\ SettledWhole' /\ SweepStage'
  BY LifeBounds DEF OnlyReaper, LifeInv, LifeTyped, LifeStages, KeptAlone, MarkedThere,
     SettledWhole, SweepStage, Life!MakeWorktrees, Life!Have, Unregistered, Life!Same,
     Life!history, ThingsTyped, Life!Databases, Life!Spaces, Life!Containers, Life!Clones, Calls,
     Life!Settings, Life!Fields
<1>7. Life!OwnData' /\ Life!KeptUntilPurged' /\ Life!PromotedPair' /\ Life!Converged'
  BY LifeBounds DEF LifeInv, LifeTyped, LifeStages, Life!OwnData, Life!KeptUntilPurged,
     Life!PromotedPair, Life!Converged, Life!MakeWorktrees, Life!Have, Life!Usable, Life!Same,
     Life!bounded, Life!history, ThingsTyped, Life!Databases, Life!Spaces
<1>. QED BY <1>1, <1>2, <1>3, <1>4, <1>5, <1>6, <1>7 DEF LifeInv, LifeTyped, LifeStages

(* And so is the database.                                                   *)
LEMMA CreateDatabaseKeeps == ASSUME LifeInv, OnlyReaper, Life!CreateDatabase PROVE LifeInv'
<1>1. ThingsTyped'
  BY LifeBounds DEF LifeInv, LifeStages, LifeTyped, ThingsTyped, Life!CreateDatabase, Life!Same,
     Life!bounded, Life!history, WorkTyped, LifeCounted, Life!Records, Life!Databases, Life!Spaces,
     Life!Containers, Life!Clones, CreateStage, Life!Converged, Creating, Life!Have,
     Life!CreateSteps
<1>2. WorkTyped'
  BY LifeBounds, NoCallIsACall DEF LifeInv, LifeStages, LifeTyped, WorkTyped, Life!CreateDatabase,
     Life!Steps, Life!Same, Life!ChangeSteps, Life!CreateSteps, Life!DeleteSteps, Life!UndoSteps,
     Calls, Sweeps
<1>3. LifeCounted'
  BY LifeBounds DEF LifeInv, LifeStages, LifeTyped, LifeCounted, Life!CreateDatabase, Life!Same,
     Life!bounded, Life!history
<1>4. CreateStage' /\ UndoStage' /\ CopyStage'
  BY LifeBounds DEF LifeInv, LifeTyped, LifeStages, CreateStage, UndoStage, CopyStage,
     Life!CreateDatabase, Creating, HasData, HasSpace, Life!Have, Life!CreateSteps, Life!Same,
     Life!bounded, Life!history, ThingsTyped, WorkTyped, LifeCounted, Life!Records, Life!Databases,
     Life!Spaces
<1>5. ChangeStage' /\ DeleteStage'
  BY LifeBounds DEF LifeInv, LifeTyped, LifeStages, ChangeStage, DeleteStage, Life!CreateDatabase,
     Life!Built, Life!ChangeSteps, Life!Have, OnBranch, Life!DeleteSteps, Life!Same, Life!Usable,
     Life!bounded, Life!history
<1>6. KeptAlone' /\ MarkedThere' /\ SettledWhole' /\ SweepStage'
  BY LifeBounds DEF OnlyReaper, LifeInv, LifeTyped, LifeStages, KeptAlone, MarkedThere,
     SettledWhole, SweepStage, Life!CreateDatabase, Life!Have, Unregistered, Life!Same,
     Life!bounded, Life!history
<1>7. Life!OwnData' /\ Life!KeptUntilPurged' /\ Life!PromotedPair' /\ Life!Converged'
  BY LifeBounds DEF LifeInv, LifeTyped, LifeStages, Life!OwnData, Life!KeptUntilPurged,
     Life!PromotedPair, Life!Converged, Life!CreateDatabase, Life!Have, Life!Usable, Life!Same,
     Life!bounded, Life!history
<1>. QED BY <1>1, <1>2, <1>3, <1>4, <1>5, <1>6, <1>7 DEF LifeInv, LifeTyped, LifeStages

(* A template brings no data of an environment.                              *)
LEMMA SeedTemplateKeeps == ASSUME LifeInv, OnlyReaper, Life!SeedTemplate PROVE LifeInv'
<1>1. ThingsTyped'
  BY LifeBounds DEF LifeInv, LifeStages, LifeTyped, ThingsTyped, Life!SeedTemplate, Life!Go,
     Life!Same, Life!things, Life!bounded, Life!history
<1>2. WorkTyped'
  BY LifeBounds, NoCallIsACall DEF LifeInv, LifeStages, LifeTyped, WorkTyped, Life!SeedTemplate,
     Life!Steps, Life!Go, Life!Same, Life!things, Life!ChangeSteps, Life!CreateSteps,
     Life!DeleteSteps, Life!UndoSteps, Life!bounded, Life!history
<1>3. LifeCounted'
  BY LifeBounds DEF LifeInv, LifeStages, LifeTyped, LifeCounted, Life!SeedTemplate, Life!Go,
     Life!Same, Life!things, Life!bounded, Life!history
<1>4. CreateStage' /\ UndoStage' /\ CopyStage'
  BY LifeBounds DEF LifeInv, LifeTyped, LifeStages, CreateStage, UndoStage, CopyStage,
     Life!SeedTemplate, Creating, HasData, HasSpace, Life!Have, Life!CreateSteps, Life!Go,
     Life!Same, Life!things, Life!bounded, Life!history
<1>5. ChangeStage' /\ DeleteStage'
  BY LifeBounds DEF LifeInv, LifeTyped, LifeStages, ChangeStage, DeleteStage, Life!SeedTemplate,
     Life!Built, Life!ChangeSteps, Life!Have, OnBranch, Life!DeleteSteps, Life!Go, Life!Same,
     Life!things, Life!Usable, Life!bounded, Life!history
<1>6. KeptAlone' /\ MarkedThere' /\ SettledWhole' /\ SweepStage'
  BY LifeBounds DEF OnlyReaper, LifeInv, LifeTyped, LifeStages, KeptAlone, MarkedThere,
     SettledWhole, SweepStage, Life!SeedTemplate, Life!Have, Unregistered, Life!Go, Life!Same,
     Life!things, Life!bounded, Life!history
<1>7. Life!OwnData' /\ Life!KeptUntilPurged' /\ Life!PromotedPair' /\ Life!Converged'
  BY LifeBounds DEF LifeInv, LifeTyped, LifeStages, Life!OwnData, Life!KeptUntilPurged,
     Life!PromotedPair, Life!Converged, Life!SeedTemplate, Life!Have, Life!Usable, Life!Go,
     Life!Same, Life!things, Life!bounded, Life!history
<1>. QED BY <1>1, <1>2, <1>3, <1>4, <1>5, <1>6, <1>7 DEF LifeInv, LifeTyped, LifeStages

(* The environment that is promoted is stopped first,                        *)
LEMMA StopSourceKeeps == ASSUME LifeInv, OnlyReaper, Life!StopSource PROVE LifeInv'
<1>1. ThingsTyped'
  BY LifeBounds DEF LifeInv, LifeStages, LifeTyped, ThingsTyped, Life!StopSource, Life!Running,
     Life!Same, Life!bounded, Life!history
<1>2. WorkTyped'
  BY LifeBounds, NoCallIsACall DEF LifeInv, LifeStages, LifeTyped, WorkTyped, Life!StopSource,
     Life!Steps, Life!Running, Life!Same, Life!ChangeSteps, Life!CreateSteps, Life!DeleteSteps,
     Life!history, ThingsTyped, Calls
<1>3. LifeCounted'
  BY LifeBounds DEF LifeInv, LifeStages, LifeTyped, LifeCounted, Life!StopSource, Life!Running,
     Life!Same, Life!bounded, Life!history
<1>4. CreateStage' /\ UndoStage' /\ CopyStage'
  BY LifeBounds DEF LifeInv, LifeTyped, LifeStages, CreateStage, UndoStage, CopyStage,
     Life!StopSource, Creating, HasData, HasSpace, Life!Have, Life!CreateSteps, Life!Running,
     Life!Same, Life!bounded, Life!history, ThingsTyped, WorkTyped, LifeCounted
<1>5. ChangeStage' /\ DeleteStage'
  BY LifeBounds DEF LifeInv, LifeTyped, LifeStages, ChangeStage, DeleteStage, Life!StopSource,
     Life!Built, Life!ChangeSteps, Life!Have, OnBranch, Life!DeleteSteps, Life!Running, Life!Same,
     Life!Usable, Life!bounded, Life!history
<1>6. KeptAlone' /\ MarkedThere' /\ SettledWhole' /\ SweepStage'
  BY LifeBounds DEF OnlyReaper, LifeInv, LifeTyped, LifeStages, KeptAlone, MarkedThere,
     SettledWhole, SweepStage, Life!StopSource, Life!Have, Unregistered, Life!Running, Life!Same,
     Life!bounded, Life!history
<1>7. Life!OwnData' /\ Life!KeptUntilPurged' /\ Life!PromotedPair' /\ Life!Converged'
  BY LifeBounds DEF LifeInv, LifeTyped, LifeStages, Life!OwnData, Life!KeptUntilPurged,
     Life!PromotedPair, Life!Converged, Life!StopSource, Life!Have, Life!Usable, Life!Running,
     Life!Same, Life!bounded, Life!history
<1>. QED BY <1>1, <1>2, <1>3, <1>4, <1>5, <1>6, <1>7 DEF LifeInv, LifeTyped, LifeStages

(* its database copied,                                                      *)
LEMMA CopyDatabaseKeeps == ASSUME LifeInv, OnlyReaper, Life!CopyDatabase PROVE LifeInv'
<1>1. ThingsTyped'
  BY LifeBounds DEF LifeInv, LifeStages, LifeTyped, ThingsTyped, Life!CopyDatabase, Life!Go,
     Life!Databases, Life!Spaces, CreateStage, UndoStage, HasData, Life!Have
<1>2. WorkTyped'
  BY LifeBounds, NoCallIsACall DEF LifeInv, LifeStages, LifeTyped, WorkTyped, Life!CopyDatabase,
     Life!Steps, Life!Go, Life!Same, Life!ChangeSteps, Life!CreateSteps, Life!DeleteSteps,
     Life!UndoSteps, Life!bounded, Life!history
<1>3. LifeCounted'
  BY LifeBounds DEF LifeInv, LifeStages, LifeTyped, LifeCounted, Life!CopyDatabase, Life!Go,
     Life!Same, Life!bounded, Life!history
<1>4. CreateStage' /\ UndoStage' /\ CopyStage'
  BY LifeBounds DEF LifeInv, LifeTyped, LifeStages, CreateStage, UndoStage, CopyStage,
     Life!CopyDatabase, Creating, HasData, HasSpace, Life!Have, Life!CreateSteps, Life!Go,
     Life!Same, Life!bounded, Life!history, ThingsTyped, Life!Databases
<1>5. ChangeStage' /\ DeleteStage'
  BY LifeBounds DEF LifeInv, LifeTyped, LifeStages, ChangeStage, DeleteStage, Life!CopyDatabase,
     Life!Built, Life!ChangeSteps, Life!Have, OnBranch, Life!DeleteSteps, Life!Go, Life!Same,
     Life!Usable, Life!bounded, Life!history
<1>6. KeptAlone' /\ MarkedThere' /\ SettledWhole' /\ SweepStage'
  BY LifeBounds DEF OnlyReaper, LifeInv, LifeTyped, LifeStages, KeptAlone, MarkedThere,
     SettledWhole, SweepStage, Life!CopyDatabase, Life!Have, Unregistered, Life!Go, Life!Same,
     Life!bounded, Life!history
<1>7. Life!OwnData' /\ Life!KeptUntilPurged' /\ Life!PromotedPair' /\ Life!Converged'
  BY LifeBounds DEF OnlyReaper, LifeInv, LifeTyped, LifeStages, Life!OwnData, Life!KeptUntilPurged,
     Life!PromotedPair, Life!Converged, Life!CopyDatabase, Life!Go, Life!Same, Life!bounded,
     Life!history, CreateStage, UndoStage, SweepStage, Creating, Life!CreateSteps
<1>. QED BY <1>1, <1>2, <1>3, <1>4, <1>5, <1>6, <1>7 DEF LifeInv, LifeTyped, LifeStages

(* and its files, before it runs again.                                      *)
LEMMA CopyFilestoreKeeps == ASSUME LifeInv, OnlyReaper, Life!CopyFilestore PROVE LifeInv'
<1>1. ThingsTyped'
  BY LifeBounds DEF LifeInv, LifeStages, LifeTyped, ThingsTyped, Life!CopyFilestore, Life!Back,
     Life!Go, Life!Databases, Life!Spaces, CreateStage, UndoStage, HasData, HasSpace, Life!Have
<1>2. WorkTyped'
  BY LifeBounds, NoCallIsACall DEF LifeInv, LifeStages, LifeTyped, WorkTyped, Life!CopyFilestore,
     Life!Steps, Life!Back, Life!Go, Life!Same, Life!ChangeSteps, Life!CreateSteps,
     Life!DeleteSteps, Life!UndoSteps, Life!bounded, Life!history
<1>3. LifeCounted'
  BY LifeBounds DEF LifeInv, LifeStages, LifeTyped, LifeCounted, Life!CopyFilestore, Life!Back,
     Life!Go, Life!Same, Life!bounded, Life!history
<1>4. CreateStage' /\ UndoStage' /\ CopyStage'
  BY LifeBounds DEF LifeInv, LifeTyped, LifeStages, CreateStage, UndoStage, CopyStage,
     Life!CopyFilestore, Creating, HasData, HasSpace, Life!Have, Life!CreateSteps, Life!Back,
     Life!Go, Life!Same, Life!bounded, Life!history, ThingsTyped, Life!Spaces
<1>5. ChangeStage' /\ DeleteStage'
  BY LifeBounds DEF LifeInv, LifeTyped, LifeStages, ChangeStage, DeleteStage, Life!CopyFilestore,
     Life!Built, Life!ChangeSteps, Life!Have, OnBranch, Life!DeleteSteps, Life!Back, Life!Go,
     Life!Same, Life!Usable, Life!bounded, Life!history
<1>6. KeptAlone' /\ MarkedThere' /\ SettledWhole' /\ SweepStage'
  BY LifeBounds DEF OnlyReaper, LifeInv, LifeTyped, LifeStages, KeptAlone, MarkedThere,
     SettledWhole, SweepStage, Life!CopyFilestore, Life!Have, Unregistered, Life!Back, Life!Go,
     Life!Same, Life!bounded, Life!history, ThingsTyped, Life!Spaces
<1>7. Life!OwnData' /\ Life!KeptUntilPurged' /\ Life!PromotedPair' /\ Life!Converged'
  BY LifeBounds DEF OnlyReaper, LifeInv, LifeTyped, LifeStages, Life!OwnData, Life!KeptUntilPurged,
     Life!PromotedPair, Life!Converged, Life!CopyFilestore, Life!Have, Life!Go, Life!Same,
     Life!bounded, Life!history, ThingsTyped, WorkTyped, Life!Databases, CreateStage, CopyStage,
     Creating, Life!CreateSteps
<1>. QED BY <1>1, <1>2, <1>3, <1>4, <1>5, <1>6, <1>7 DEF LifeInv, LifeTyped, LifeStages

(* The container is what the record says.                                    *)
LEMMA RunContainerKeeps == ASSUME LifeInv, OnlyReaper, Life!RunContainer PROVE LifeInv'
<1>1. ThingsTyped'
  BY LifeBounds DEF LifeInv, LifeStages, LifeTyped, ThingsTyped, Life!RunContainer, Life!Built,
     Life!Records, Life!Databases, Life!Spaces, Life!Containers, Life!Fields, CreateStage,
     Creating, HasData, HasSpace, Life!Have, Life!CreateSteps
<1>2. WorkTyped'
  BY LifeBounds, NoCallIsACall DEF LifeInv, LifeStages, LifeTyped, WorkTyped, Life!RunContainer,
     Life!Steps, Life!Built, Life!Go, Life!Same, Life!ChangeSteps, Life!CreateSteps,
     Life!DeleteSteps, Life!UndoSteps, Life!bounded, Life!history
<1>3. LifeCounted'
  BY LifeBounds DEF LifeInv, LifeStages, LifeTyped, LifeCounted, Life!RunContainer, Life!Built,
     Life!Go, Life!Same, Life!bounded, Life!history
<1>4. CreateStage' /\ UndoStage' /\ CopyStage'
  BY LifeBounds DEF LifeInv, LifeTyped, LifeStages, CreateStage, UndoStage, CopyStage,
     Life!RunContainer, Creating, HasData, HasSpace, Life!Have, Life!CreateSteps, Life!Built,
     Life!Go, Life!Same, Life!bounded, Life!history
<1>5. ChangeStage' /\ DeleteStage'
  BY LifeBounds DEF LifeInv, LifeTyped, LifeStages, ChangeStage, DeleteStage, Life!RunContainer,
     Life!Built, Life!ChangeSteps, Life!Have, OnBranch, Life!DeleteSteps, Life!Go, Life!Same,
     Life!Usable, Life!bounded, Life!history
<1>6. KeptAlone' /\ MarkedThere' /\ SettledWhole' /\ SweepStage'
  BY LifeBounds DEF OnlyReaper, LifeInv, LifeTyped, LifeStages, KeptAlone, MarkedThere,
     SettledWhole, SweepStage, Life!RunContainer, Life!Have, Unregistered, Life!Built, Life!Go,
     Life!Same, Life!bounded, Life!history
<1>7. Life!OwnData' /\ Life!KeptUntilPurged' /\ Life!PromotedPair' /\ Life!Converged'
  BY LifeBounds DEF LifeInv, LifeTyped, LifeStages, Life!OwnData, Life!KeptUntilPurged,
     Life!PromotedPair, Life!Converged, Life!RunContainer, Life!Have, Life!Usable, Life!Built,
     Life!Go, Life!Same, Life!bounded, Life!history
<1>. QED BY <1>1, <1>2, <1>3, <1>4, <1>5, <1>6, <1>7 DEF LifeInv, LifeTyped, LifeStages

(* A creation that completes has both.                                       *)
LEMMA FinishCreateKeeps == ASSUME LifeInv, OnlyReaper, Life!FinishCreate PROVE LifeInv'
<1>1. ThingsTyped'
  BY LifeBounds DEF LifeInv, LifeStages, LifeTyped, ThingsTyped, Life!FinishCreate, LifeCounted,
     Life!Records, CreateStage, UndoStage, Life!Converged, Creating, Life!Have, Life!CreateSteps
<1>2. WorkTyped'
  BY LifeBounds, NoCallIsACall DEF LifeInv, LifeStages, LifeTyped, WorkTyped, Life!FinishCreate,
     Life!Steps, Life!Return, Life!Same, Life!ChangeSteps, Life!CreateSteps, Life!DeleteSteps,
     Life!UndoSteps, Life!NoCall, Life!bounded, Life!history
<1>3. LifeCounted'
  BY LifeBounds DEF LifeInv, LifeStages, LifeTyped, LifeCounted, Life!FinishCreate, Life!Return,
     Life!Same, Life!NoCall, Life!bounded, Life!history
<1>4. CreateStage' /\ UndoStage' /\ CopyStage'
  BY LifeBounds DEF LifeInv, LifeTyped, LifeStages, CreateStage, UndoStage, CopyStage,
     Life!FinishCreate, Creating, HasData, HasSpace, Life!Have, Life!CreateSteps, Life!Return,
     Life!Same, Life!NoCall, Life!bounded, Life!history
<1>5. ChangeStage' /\ DeleteStage'
  BY LifeBounds DEF LifeInv, LifeTyped, LifeStages, ChangeStage, DeleteStage, Life!FinishCreate,
     Life!Built, Life!ChangeSteps, Life!Have, OnBranch, Life!DeleteSteps, Life!Return, Life!Same,
     Life!Usable, Life!NoCall, Life!bounded, Life!history
<1>6. KeptAlone' /\ MarkedThere' /\ SettledWhole' /\ SweepStage'
  BY LifeBounds DEF OnlyReaper, LifeInv, LifeTyped, LifeStages, KeptAlone, MarkedThere,
     SettledWhole, SweepStage, Life!FinishCreate, Life!Have, Life!Same, Life!NoCall, Life!bounded,
     Life!history, CreateStage, UndoStage, Life!Converged, Creating, Life!CreateSteps
<1>7. Life!OwnData' /\ Life!KeptUntilPurged' /\ Life!PromotedPair' /\ Life!Converged'
  BY LifeBounds DEF OnlyReaper, LifeInv, LifeTyped, LifeStages, Life!OwnData, Life!KeptUntilPurged,
     Life!PromotedPair, Life!Converged, Life!FinishCreate, Life!Have, Life!Same, Life!NoCall,
     Life!bounded, Life!history, CreateStage, UndoStage, CopyStage, ChangeStage, SweepStage,
     Creating, HasData, HasSpace, Life!CreateSteps
<1>. QED BY <1>1, <1>2, <1>3, <1>4, <1>5, <1>6, <1>7 DEF LifeInv, LifeTyped, LifeStages

(* One that fails has still only its own to remove.                          *)
LEMMA CreateFailsKeeps == ASSUME LifeInv, OnlyReaper, Life!CreateFails PROVE LifeInv'
<1>1. ThingsTyped'
  BY LifeBounds DEF LifeInv, LifeStages, LifeTyped, ThingsTyped, Life!CreateFails, Life!Back,
     Life!CreateSteps, Life!Go, Life!Spend, Life!history
<1>2. WorkTyped'
  BY LifeBounds, NoCallIsACall DEF LifeInv, LifeStages, LifeTyped, WorkTyped, Life!CreateFails,
     Life!Steps, Life!Back, Life!CreateSteps, Life!Go, Life!Spend, Life!history, Life!ChangeSteps,
     Life!DeleteSteps, Life!UndoSteps
<1>3. LifeCounted'
  BY LifeBounds DEF LifeInv, LifeStages, LifeTyped, LifeCounted, Life!CreateFails, Life!Back,
     Life!CreateSteps, Life!Go, Life!Spend, Life!history
<1>4. CreateStage' /\ UndoStage' /\ CopyStage'
  BY LifeBounds DEF LifeInv, LifeTyped, LifeStages, CreateStage, UndoStage, CopyStage,
     Life!CreateFails, Creating, HasData, HasSpace, Life!Have, Life!CreateSteps, Life!Back,
     Life!Go, Life!Spend, Life!history
<1>5. ChangeStage' /\ DeleteStage'
  BY LifeBounds DEF LifeInv, LifeTyped, LifeStages, ChangeStage, DeleteStage, Life!CreateFails,
     Life!Built, Life!ChangeSteps, Life!Have, OnBranch, Life!DeleteSteps, Life!Back,
     Life!CreateSteps, Life!Go, Life!Spend, Life!history, Life!Usable
<1>6. KeptAlone' /\ MarkedThere' /\ SettledWhole' /\ SweepStage'
  BY LifeBounds DEF OnlyReaper, LifeInv, LifeTyped, LifeStages, KeptAlone, MarkedThere,
     SettledWhole, SweepStage, Life!CreateFails, Life!Have, Unregistered, Life!Back,
     Life!CreateSteps, Life!Go, Life!Spend, Life!history
<1>7. Life!OwnData' /\ Life!KeptUntilPurged' /\ Life!PromotedPair' /\ Life!Converged'
  BY LifeBounds DEF LifeInv, LifeTyped, LifeStages, Life!OwnData, Life!KeptUntilPurged,
     Life!PromotedPair, Life!Converged, Life!CreateFails, Life!Have, Life!Usable, Life!Back,
     Life!CreateSteps, Life!Go, Life!Spend, Life!history
<1>. QED BY <1>1, <1>2, <1>3, <1>4, <1>5, <1>6, <1>7 DEF LifeInv, LifeTyped, LifeStages

(* Removing its container takes nothing from others.                         *)
LEMMA UndoContainerKeeps == ASSUME LifeInv, OnlyReaper, Life!UndoContainer PROVE LifeInv'
<1>1. ThingsTyped'
  BY LifeBounds DEF LifeInv, LifeStages, LifeTyped, ThingsTyped, Life!UndoContainer, Life!Go,
     Life!Same, Life!bounded, Life!history
<1>2. WorkTyped'
  BY LifeBounds, NoCallIsACall DEF LifeInv, LifeStages, LifeTyped, WorkTyped, Life!UndoContainer,
     Life!Steps, Life!Go, Life!Same, Life!ChangeSteps, Life!CreateSteps, Life!DeleteSteps,
     Life!UndoSteps, Life!bounded, Life!history
<1>3. LifeCounted'
  BY LifeBounds DEF LifeInv, LifeStages, LifeTyped, LifeCounted, Life!UndoContainer, Life!Go,
     Life!Same, Life!bounded, Life!history
<1>4. CreateStage' /\ UndoStage' /\ CopyStage'
  BY LifeBounds DEF LifeInv, LifeTyped, LifeStages, CreateStage, UndoStage, CopyStage,
     Life!UndoContainer, Creating, HasData, HasSpace, Life!Have, Life!CreateSteps, Life!Go,
     Life!Same, Life!bounded, Life!history
<1>5. ChangeStage' /\ DeleteStage'
  BY LifeBounds DEF LifeInv, LifeTyped, LifeStages, ChangeStage, DeleteStage, Life!UndoContainer,
     Life!Built, Life!ChangeSteps, Life!Have, OnBranch, Life!DeleteSteps, Life!Go, Life!Same,
     Life!Usable, Life!bounded, Life!history
<1>6. KeptAlone' /\ MarkedThere' /\ SettledWhole' /\ SweepStage'
  BY LifeBounds DEF OnlyReaper, LifeInv, LifeTyped, LifeStages, KeptAlone, MarkedThere,
     SettledWhole, SweepStage, Life!UndoContainer, Life!Have, Unregistered, Life!Go, Life!Same,
     Life!bounded, Life!history
<1>7. Life!OwnData' /\ Life!KeptUntilPurged' /\ Life!PromotedPair' /\ Life!Converged'
  BY LifeBounds DEF LifeInv, LifeTyped, LifeStages, Life!OwnData, Life!KeptUntilPurged,
     Life!PromotedPair, Life!Converged, Life!UndoContainer, Life!Have, Life!Usable, Life!Go,
     Life!Same, Life!bounded, Life!history
<1>. QED BY <1>1, <1>2, <1>3, <1>4, <1>5, <1>6, <1>7 DEF LifeInv, LifeTyped, LifeStages

(* What it removes, or leaves, is its own.                                   *)
LEMMA UndoDataKeeps == ASSUME LifeInv, OnlyReaper, Life!UndoData PROVE LifeInv'
<1>1. ThingsTyped'
  BY LifeBounds DEF LifeInv, LifeStages, LifeTyped, ThingsTyped, Life!UndoData, Life!history
<1>2. WorkTyped'
  BY LeftCalls DEF LifeInv, LifeStages, LifeTyped, WorkTyped, Life!UndoData, Life!Steps,
     Life!UndoSteps
<1>3. LifeCounted'
  BY LifeBounds DEF LifeInv, LifeStages, LifeTyped, LifeCounted, Life!UndoData, Life!history
<1>4. CreateStage' /\ UndoStage' /\ CopyStage'
  BY LifeBounds DEF LifeInv, LifeTyped, LifeStages, CreateStage, UndoStage, CopyStage,
     Life!UndoData, Creating, HasData, HasSpace, Life!Have, Life!CreateSteps, Life!history
<1>5. ChangeStage' /\ DeleteStage'
  BY LifeBounds DEF LifeInv, LifeTyped, LifeStages, ChangeStage, DeleteStage, Life!UndoData,
     Life!Built, Life!ChangeSteps, Life!Have, OnBranch, Life!DeleteSteps, Life!history, Life!Usable
<1>6. KeptAlone' /\ MarkedThere' /\ SettledWhole' /\ SweepStage'
  BY LifeBounds DEF OnlyReaper, LifeInv, LifeTyped, LifeStages, KeptAlone, MarkedThere,
     SettledWhole, SweepStage, Life!UndoData, Life!Have, Unregistered, Life!history, CreateStage,
     Creating
<1>7. Life!OwnData' /\ Life!KeptUntilPurged' /\ Life!PromotedPair' /\ Life!Converged'
  BY LifeBounds DEF OnlyReaper, LifeInv, LifeTyped, LifeStages, Life!OwnData, Life!KeptUntilPurged,
     Life!PromotedPair, Life!Converged, Life!UndoData, Life!Have, Life!Usable, Life!history,
     CreateStage, Creating
<1>. QED BY <1>1, <1>2, <1>3, <1>4, <1>5, <1>6, <1>7 DEF LifeInv, LifeTyped, LifeStages

(* The record goes last,                                                     *)
LEMMA UndoRecordKeeps == ASSUME LifeInv, OnlyReaper, Life!UndoRecord PROVE LifeInv'
<1>1. ThingsTyped'
  BY LifeBounds DEF LifeInv, LifeStages, LifeTyped, ThingsTyped, Life!UndoRecord, Life!Go,
     Life!Return, Life!Same, Life!NoCall, Life!bounded, Life!history
<1>2. WorkTyped'
  BY LifeBounds, NoCallIsACall DEF LifeInv, LifeStages, LifeTyped, WorkTyped, Life!UndoRecord,
     Life!Steps, Life!Go, Life!Return, Life!Same, Life!ChangeSteps, Life!CreateSteps,
     Life!DeleteSteps, Life!UndoSteps, Life!NoCall, Life!bounded, Life!history
<1>3. LifeCounted'
  BY LifeBounds DEF LifeInv, LifeStages, LifeTyped, LifeCounted, Life!UndoRecord, Life!Go,
     Life!Return, Life!Same, Life!NoCall, Life!bounded, Life!history
<1>4. CreateStage' /\ UndoStage' /\ CopyStage'
  BY LifeBounds DEF LifeInv, LifeTyped, LifeStages, CreateStage, UndoStage, CopyStage,
     Life!UndoRecord, Creating, HasData, HasSpace, Life!Have, Life!CreateSteps, Life!Go,
     Life!Return, Life!Same, Life!NoCall, Life!bounded, Life!history
<1>5. ChangeStage' /\ DeleteStage'
  BY LifeBounds DEF LifeInv, LifeTyped, LifeStages, ChangeStage, DeleteStage, Life!UndoRecord,
     Life!Built, Life!ChangeSteps, Life!Have, OnBranch, Life!DeleteSteps, Life!Go, Life!Return,
     Life!Same, Life!Usable, Life!NoCall, Life!bounded, Life!history
<1>6. KeptAlone' /\ MarkedThere' /\ SettledWhole' /\ SweepStage'
  BY LifeBounds DEF OnlyReaper, LifeInv, LifeTyped, LifeStages, KeptAlone, MarkedThere,
     SettledWhole, SweepStage, Life!UndoRecord, Life!Have, Unregistered, Life!Go, Life!Return,
     Life!Same, Life!NoCall, Life!bounded, Life!history
<1>7. Life!OwnData' /\ Life!KeptUntilPurged' /\ Life!PromotedPair' /\ Life!Converged'
  BY LifeBounds DEF LifeInv, LifeTyped, LifeStages, Life!OwnData, Life!KeptUntilPurged,
     Life!PromotedPair, Life!Converged, Life!UndoRecord, Life!Have, Life!Usable, Life!Go,
     Life!Return, Life!Same, Life!NoCall, Life!bounded, Life!history
<1>. QED BY <1>1, <1>2, <1>3, <1>4, <1>5, <1>6, <1>7 DEF LifeInv, LifeTyped, LifeStages

(* and what is left is marked.                                               *)
LEMMA UndoMarkKeeps == ASSUME LifeInv, OnlyReaper, Life!UndoMark PROVE LifeInv'
<1>1. ThingsTyped'
  BY LifeBounds DEF LifeInv, LifeStages, LifeTyped, ThingsTyped, Life!UndoMark, Life!Return,
     Life!Same, Life!NoCall, Life!bounded, Life!history
<1>2. WorkTyped'
  BY LifeBounds, NoCallIsACall DEF LifeInv, LifeStages, LifeTyped, WorkTyped, Life!UndoMark,
     Life!Steps, Life!Return, Life!Same, Life!ChangeSteps, Life!CreateSteps, Life!DeleteSteps,
     Life!UndoSteps, Life!NoCall, Life!bounded, Life!history
<1>3. LifeCounted'
  BY LifeBounds DEF LifeInv, LifeStages, LifeTyped, LifeCounted, Life!UndoMark, Life!Return,
     Life!Same, Life!NoCall, Life!bounded, Life!history
<1>4. CreateStage' /\ UndoStage' /\ CopyStage'
  BY LifeBounds DEF LifeInv, LifeTyped, LifeStages, CreateStage, UndoStage, CopyStage,
     Life!UndoMark, Creating, HasData, HasSpace, Life!Have, Life!CreateSteps, Life!Return,
     Life!Same, Life!NoCall, Life!bounded, Life!history
<1>5. ChangeStage' /\ DeleteStage'
  BY LifeBounds DEF LifeInv, LifeTyped, LifeStages, ChangeStage, DeleteStage, Life!UndoMark,
     Life!Built, Life!ChangeSteps, Life!Have, OnBranch, Life!DeleteSteps, Life!Return, Life!Same,
     Life!Usable, Life!NoCall, Life!bounded, Life!history
<1>6. KeptAlone' /\ MarkedThere' /\ SettledWhole' /\ SweepStage'
  BY LifeBounds DEF OnlyReaper, LifeInv, LifeTyped, LifeStages, KeptAlone, MarkedThere,
     SettledWhole, SweepStage, Life!UndoMark, Life!Have, Unregistered, Life!Return, Life!Same,
     Life!NoCall, Life!bounded, Life!history, UndoStage
<1>7. Life!OwnData' /\ Life!KeptUntilPurged' /\ Life!PromotedPair' /\ Life!Converged'
  BY LifeBounds DEF LifeInv, LifeTyped, LifeStages, Life!OwnData, Life!KeptUntilPurged,
     Life!PromotedPair, Life!Converged, Life!UndoMark, Life!Have, Life!Usable, Life!Return,
     Life!Same, Life!NoCall, Life!bounded, Life!history
<1>. QED BY <1>1, <1>2, <1>3, <1>4, <1>5, <1>6, <1>7 DEF LifeInv, LifeTyped, LifeStages

(* A deletion starts from a record.                                          *)
LEMMA BeginDeleteKeeps == ASSUME LifeInv, OnlyReaper, NEW drop \in BOOLEAN,
                                 Life!BeginDelete(drop)
                          PROVE  LifeInv'
<1>1. ThingsTyped'
  BY LifeBounds DEF LifeInv, LifeStages, LifeTyped, ThingsTyped, Life!BeginDelete, Life!Have,
     Life!Locked, Life!NoCall, Life!bounded, Life!things
<1>2. WorkTyped'
  BY LifeBounds, NoCallIsACall DEF LifeInv, LifeStages, LifeTyped, WorkTyped, Life!BeginDelete,
     Life!Steps, Life!CreateSteps, Life!DeleteSteps, Calls
<1>3. LifeCounted'
  BY LifeBounds DEF LifeInv, LifeStages, LifeTyped, LifeCounted, Life!BeginDelete, Life!Have,
     Life!Locked, Life!NoCall, Life!bounded, Life!things
<1>4. CreateStage' /\ UndoStage' /\ CopyStage'
  BY LifeBounds DEF LifeInv, LifeTyped, LifeStages, CreateStage, UndoStage, CopyStage,
     Life!BeginDelete, Creating, HasData, HasSpace, Life!Have, Life!CreateSteps, Life!Locked,
     Life!NoCall, Life!bounded, Life!things
<1>5. ChangeStage' /\ DeleteStage'
  BY LifeBounds DEF LifeInv, LifeTyped, LifeStages, ChangeStage, DeleteStage, Life!BeginDelete,
     Life!Built, Life!ChangeSteps, Life!Have, OnBranch, Life!DeleteSteps, Life!Locked, Life!NoCall,
     Life!bounded, Life!things, Life!Usable
<1>6. KeptAlone' /\ MarkedThere' /\ SettledWhole' /\ SweepStage'
  BY LifeBounds DEF OnlyReaper, LifeInv, LifeTyped, LifeStages, KeptAlone, MarkedThere,
     SettledWhole, SweepStage, Life!BeginDelete, Life!Have, Unregistered, Life!Locked, Life!NoCall,
     Life!bounded, Life!things
<1>7. Life!OwnData' /\ Life!KeptUntilPurged' /\ Life!PromotedPair' /\ Life!Converged'
  BY LifeBounds DEF LifeInv, LifeTyped, LifeStages, Life!OwnData, Life!KeptUntilPurged,
     Life!PromotedPair, Life!Converged, Life!BeginDelete, Life!Have, Life!Usable, Life!Locked,
     Life!NoCall, Life!bounded, Life!things
<1>. QED BY <1>1, <1>2, <1>3, <1>4, <1>5, <1>6, <1>7 DEF LifeInv, LifeTyped, LifeStages

(* Its container goes, or stays.                                             *)
LEMMA RemoveContainerKeeps == ASSUME LifeInv, OnlyReaper, Life!RemoveContainer PROVE LifeInv'
<1>1. ThingsTyped'
  BY LifeBounds DEF LifeInv, LifeStages, LifeTyped, ThingsTyped, Life!RemoveContainer, Life!Go,
     Life!Have, Life!history
<1>2. WorkTyped'
  BY LifeBounds, NoCallIsACall DEF LifeInv, LifeStages, LifeTyped, WorkTyped, Life!RemoveContainer,
     Life!Steps, Life!Go, Life!Have, Life!history, Life!ChangeSteps, Life!CreateSteps,
     Life!DeleteSteps, Life!UndoSteps
<1>3. LifeCounted'
  BY LifeBounds DEF LifeInv, LifeStages, LifeTyped, LifeCounted, Life!RemoveContainer, Life!Go,
     Life!Have, Life!history
<1>4. CreateStage' /\ UndoStage' /\ CopyStage'
  BY LifeBounds DEF LifeInv, LifeTyped, LifeStages, CreateStage, UndoStage, CopyStage,
     Life!RemoveContainer, Creating, HasData, HasSpace, Life!Have, Life!CreateSteps, Life!Go,
     Life!history
<1>5. ChangeStage' /\ DeleteStage'
  BY LifeBounds DEF LifeInv, LifeTyped, LifeStages, ChangeStage, DeleteStage, Life!RemoveContainer,
     Life!Built, Life!ChangeSteps, Life!Have, OnBranch, Life!DeleteSteps, Life!Go, Life!history,
     Life!Usable
<1>6. KeptAlone' /\ MarkedThere' /\ SettledWhole' /\ SweepStage'
  BY LifeBounds DEF OnlyReaper, LifeInv, LifeTyped, LifeStages, KeptAlone, MarkedThere,
     SettledWhole, SweepStage, Life!RemoveContainer, Life!Have, Unregistered, Life!Go, Life!history
<1>7. Life!OwnData' /\ Life!KeptUntilPurged' /\ Life!PromotedPair' /\ Life!Converged'
  BY LifeBounds DEF LifeInv, LifeTyped, LifeStages, Life!OwnData, Life!KeptUntilPurged,
     Life!PromotedPair, Life!Converged, Life!RemoveContainer, Life!Have, Life!Usable, Life!Go,
     Life!history
<1>. QED BY <1>1, <1>2, <1>3, <1>4, <1>5, <1>6, <1>7 DEF LifeInv, LifeTyped, LifeStages

(* What it keeps it marks, what it drops is not whole any more.              *)
LEMMA DeleteDataKeeps == ASSUME LifeInv, OnlyReaper, Life!DeleteData PROVE LifeInv'
<1>1. ThingsTyped'
  BY RecordEdits, LifeBounds, EmptySpace DEF LifeInv, LifeStages, LifeTyped, ThingsTyped,
     Life!DeleteData, DeleteStage, Life!DeleteSteps, Life!Have, Life!WriteTombstone
<1>2. WorkTyped'
  BY LifeBounds, NoCallIsACall DEF LifeInv, LifeStages, LifeTyped, WorkTyped, Life!DeleteData,
     Life!Steps, Life!Go, Life!Have, Life!WriteTombstone, Life!history, Life!ChangeSteps,
     Life!CreateSteps, Life!DeleteSteps, Life!UndoSteps
<1>3. LifeCounted'
  BY LifeBounds DEF LifeInv, LifeStages, LifeTyped, LifeCounted, Life!DeleteData, Life!Go,
     Life!Have, Life!WriteTombstone, Life!history
<1>4. CreateStage' /\ UndoStage' /\ CopyStage'
  BY LifeBounds DEF LifeInv, LifeTyped, LifeStages, CreateStage, UndoStage, CopyStage,
     Life!DeleteData, Creating, HasData, HasSpace, Life!Have, Life!CreateSteps, Life!Go,
     Life!WriteTombstone, Life!history
<1>5. ChangeStage' /\ DeleteStage'
  <2>1. \A r \in Life!Records : [r EXCEPT !.whole = FALSE] # Nil BY RecordEdits, LifeBounds
  <2>. QED BY <2>1 DEF LifeInv, LifeStages, LifeTyped, ThingsTyped, ChangeStage, DeleteStage,
              Life!DeleteData, Life!WriteTombstone, Life!Go, Life!Have, Life!ChangeSteps,
              Life!DeleteSteps, OnBranch
<1>6. KeptAlone' /\ MarkedThere' /\ SettledWhole' /\ SweepStage'
  BY LifeBounds DEF OnlyReaper, LifeInv, LifeTyped, LifeStages, KeptAlone, MarkedThere,
     SettledWhole, SweepStage, Life!DeleteData, Life!Have, Unregistered, Life!Go,
     Life!WriteTombstone, Life!history, Life!Databases, Life!Spaces, DeleteStage, Life!DeleteSteps
<1>7. Life!OwnData' /\ Life!KeptUntilPurged' /\ Life!PromotedPair' /\ Life!Converged'
  BY LifeBounds DEF OnlyReaper, LifeInv, LifeTyped, LifeStages, Life!OwnData, Life!KeptUntilPurged,
     Life!PromotedPair, Life!Converged, Life!DeleteData, Life!Have, Life!WriteTombstone,
     Life!history, ThingsTyped, WorkTyped, LifeCounted, Life!Records, DeleteStage, KeptAlone,
     Life!DeleteSteps
<1>. QED BY <1>1, <1>2, <1>3, <1>4, <1>5, <1>6, <1>7 DEF LifeInv, LifeTyped, LifeStages

(* What it kept is what the record had.                                      *)
LEMMA DeleteRecordKeeps == ASSUME LifeInv, OnlyReaper, Life!DeleteRecord PROVE LifeInv'
<1>1. ThingsTyped'
  BY LifeBounds DEF LifeInv, LifeStages, LifeTyped, ThingsTyped, Life!DeleteRecord, Life!Return,
     Life!bounded, Life!NoCall
<1>2. WorkTyped'
  BY LifeBounds, NoCallIsACall DEF LifeInv, LifeStages, LifeTyped, WorkTyped, Life!DeleteRecord,
     Life!Steps, Life!Return, Life!bounded, Life!ChangeSteps, Life!CreateSteps, Life!DeleteSteps,
     Life!UndoSteps, Life!NoCall
<1>3. LifeCounted'
  BY LifeBounds DEF LifeInv, LifeStages, LifeTyped, LifeCounted, Life!DeleteRecord, Life!Return,
     Life!bounded, Life!NoCall, ThingsTyped, WorkTyped, Life!Records, DeleteStage, KeptAlone,
     Life!Have, Life!DeleteSteps
<1>4. CreateStage' /\ UndoStage' /\ CopyStage'
  BY LifeBounds DEF LifeInv, LifeTyped, LifeStages, CreateStage, UndoStage, CopyStage,
     Life!DeleteRecord, Creating, HasData, HasSpace, Life!Have, Life!CreateSteps, Life!Return,
     Life!bounded, Life!NoCall
<1>5. ChangeStage' /\ DeleteStage'
  BY LifeBounds DEF LifeInv, LifeTyped, LifeStages, ChangeStage, DeleteStage, Life!DeleteRecord,
     Life!Built, Life!ChangeSteps, Life!Have, OnBranch, Life!DeleteSteps, Life!Return,
     Life!bounded, Life!Usable, Life!NoCall
<1>6. KeptAlone' /\ MarkedThere' /\ SettledWhole' /\ SweepStage'
  BY LifeBounds DEF OnlyReaper, LifeInv, LifeTyped, LifeStages, KeptAlone, MarkedThere,
     SettledWhole, SweepStage, Life!DeleteRecord, Life!Have, Unregistered, Life!Return,
     Life!bounded, Life!NoCall
<1>7. Life!OwnData' /\ Life!KeptUntilPurged' /\ Life!PromotedPair' /\ Life!Converged'
  BY LifeBounds DEF OnlyReaper, LifeInv, LifeTyped, LifeStages, Life!OwnData, Life!KeptUntilPurged,
     Life!PromotedPair, Life!Converged, Life!DeleteRecord, Life!Have, DeleteStage, Life!DeleteSteps
<1>. QED BY <1>1, <1>2, <1>3, <1>4, <1>5, <1>6, <1>7 DEF LifeInv, LifeTyped, LifeStages

(* A sweep begins with whether the name is registered.                       *)
LEMMA BeginSweepKeeps == ASSUME LifeInv, OnlyReaper, NEW who \in Sweepers,
                                Life!BeginSweep(who)
                         PROVE  LifeInv'
<1>1. ThingsTyped'
  BY LifeBounds DEF LifeInv, LifeStages, LifeTyped, ThingsTyped, Life!BeginSweep, Life!Have,
     Life!bounded, Life!history, Life!things
<1>2. WorkTyped'
  BY LifeBounds, NoCallIsACall DEF LifeInv, LifeStages, LifeTyped, WorkTyped, Life!BeginSweep,
     Life!Steps, Life!Have, Sweeps
<1>3. LifeCounted'
  BY LifeBounds DEF LifeInv, LifeStages, LifeTyped, LifeCounted, Life!BeginSweep, Life!Have,
     Life!bounded, Life!history, Life!things
<1>4. CreateStage' /\ UndoStage' /\ CopyStage'
  BY LifeBounds DEF LifeInv, LifeTyped, LifeStages, CreateStage, UndoStage, CopyStage,
     Life!BeginSweep, Creating, HasData, HasSpace, Life!Have, Life!CreateSteps, Life!bounded,
     Life!history, Life!things
<1>5. ChangeStage' /\ DeleteStage'
  BY LifeBounds DEF LifeInv, LifeTyped, LifeStages, ChangeStage, DeleteStage, Life!BeginSweep,
     Life!Built, Life!ChangeSteps, Life!Have, OnBranch, Life!DeleteSteps, Life!bounded,
     Life!history, Life!things, Life!Usable
<1>6. KeptAlone' /\ MarkedThere' /\ SettledWhole' /\ SweepStage'
  BY LifeBounds DEF OnlyReaper, LifeInv, LifeTyped, LifeStages, KeptAlone, MarkedThere,
     SettledWhole, SweepStage, Life!BeginSweep, Life!Have, Unregistered, Life!bounded,
     Life!history, Life!things
<1>7. Life!OwnData' /\ Life!KeptUntilPurged' /\ Life!PromotedPair' /\ Life!Converged'
  BY LifeBounds DEF LifeInv, LifeTyped, LifeStages, Life!OwnData, Life!KeptUntilPurged,
     Life!PromotedPair, Life!Converged, Life!BeginSweep, Life!Have, Life!Usable, Life!bounded,
     Life!history, Life!things
<1>. QED BY <1>1, <1>2, <1>3, <1>4, <1>5, <1>6, <1>7 DEF LifeInv, LifeTyped, LifeStages

(* A mark on a registered name is wiped.                                     *)
LEMMA ClearStaleKeeps == ASSUME LifeInv, OnlyReaper, Life!ClearStale PROVE LifeInv'
<1>1. ThingsTyped'
  BY LifeBounds DEF LifeInv, LifeStages, LifeTyped, ThingsTyped, Life!ClearStale, Life!Pass,
     Life!Registered, Life!bounded, Life!history
<1>2. WorkTyped'
  BY PassedSweeps, NoCallIsACall DEF LifeInv, LifeStages, LifeTyped, WorkTyped, Life!ClearStale,
     Life!things, Life!history, Life!Pass, Life!NameBusy
<1>3. LifeCounted'
  BY LifeBounds DEF LifeInv, LifeStages, LifeTyped, LifeCounted, Life!ClearStale, Life!Pass,
     Life!Registered, Life!bounded, Life!history
<1>4. CreateStage' /\ UndoStage' /\ CopyStage'
  BY LifeBounds DEF LifeInv, LifeTyped, LifeStages, CreateStage, UndoStage, CopyStage,
     Life!ClearStale, Creating, HasData, HasSpace, Life!Have, Life!CreateSteps, Life!Pass,
     Life!Registered, Life!bounded, Life!history
<1>5. ChangeStage' /\ DeleteStage'
  BY LifeBounds DEF LifeInv, LifeTyped, LifeStages, ChangeStage, DeleteStage, Life!ClearStale,
     Life!Built, Life!ChangeSteps, Life!Have, OnBranch, Life!DeleteSteps, Life!Pass,
     Life!Registered, Life!bounded, Life!history, Life!Usable
<1>6. KeptAlone' /\ MarkedThere' /\ SettledWhole' /\ SweepStage'
  BY LifeBounds DEF OnlyReaper, LifeInv, LifeTyped, LifeStages, KeptAlone, MarkedThere,
     SettledWhole, SweepStage, Life!ClearStale, Life!Have, Unregistered, Life!Pass,
     Life!Registered, Life!bounded, Life!history
<1>7. Life!OwnData' /\ Life!KeptUntilPurged' /\ Life!PromotedPair' /\ Life!Converged'
  BY LifeBounds DEF LifeInv, LifeTyped, LifeStages, Life!OwnData, Life!KeptUntilPurged,
     Life!PromotedPair, Life!Converged, Life!ClearStale, Life!Have, Life!Usable, Life!Pass,
     Life!Registered, Life!bounded, Life!history
<1>. QED BY <1>1, <1>2, <1>3, <1>4, <1>5, <1>6, <1>7 DEF LifeInv, LifeTyped, LifeStages

(* Nothing to do.                                                            *)
LEMMA PassByKeeps == ASSUME LifeInv, OnlyReaper, Life!PassBy PROVE LifeInv'
<1>1. ThingsTyped'
  BY LifeBounds DEF LifeInv, LifeStages, LifeTyped, ThingsTyped, Life!PassBy, Life!Pass,
     Life!Registered, Life!bounded, Life!history, Life!things
<1>2. WorkTyped'
  BY PassedSweeps, NoCallIsACall DEF LifeInv, LifeStages, LifeTyped, WorkTyped, Life!PassBy,
     Life!things, Life!history, Life!Pass, Life!NameBusy
<1>3. LifeCounted'
  BY LifeBounds DEF LifeInv, LifeStages, LifeTyped, LifeCounted, Life!PassBy, Life!Pass,
     Life!Registered, Life!bounded, Life!history, Life!things
<1>4. CreateStage' /\ UndoStage' /\ CopyStage'
  BY LifeBounds DEF LifeInv, LifeTyped, LifeStages, CreateStage, UndoStage, CopyStage, Life!PassBy,
     Creating, HasData, HasSpace, Life!Have, Life!CreateSteps, Life!Pass, Life!Registered,
     Life!bounded, Life!history, Life!things
<1>5. ChangeStage' /\ DeleteStage'
  BY LifeBounds DEF LifeInv, LifeTyped, LifeStages, ChangeStage, DeleteStage, Life!PassBy,
     Life!Built, Life!ChangeSteps, Life!Have, OnBranch, Life!DeleteSteps, Life!Pass,
     Life!Registered, Life!bounded, Life!history, Life!things, Life!Usable
<1>6. KeptAlone' /\ MarkedThere' /\ SettledWhole' /\ SweepStage'
  BY LifeBounds DEF OnlyReaper, LifeInv, LifeTyped, LifeStages, KeptAlone, MarkedThere,
     SettledWhole, SweepStage, Life!PassBy, Life!Have, Unregistered, Life!Pass, Life!Registered,
     Life!bounded, Life!history, Life!things
<1>7. Life!OwnData' /\ Life!KeptUntilPurged' /\ Life!PromotedPair' /\ Life!Converged'
  BY LifeBounds DEF LifeInv, LifeTyped, LifeStages, Life!OwnData, Life!KeptUntilPurged,
     Life!PromotedPair, Life!Converged, Life!PassBy, Life!Have, Life!Usable, Life!Pass,
     Life!Registered, Life!bounded, Life!history, Life!things
<1>. QED BY <1>1, <1>2, <1>3, <1>4, <1>5, <1>6, <1>7 DEF LifeInv, LifeTyped, LifeStages

(* What it finds due has no record, or is about to lose it.                  *)
LEMMA FindDueKeeps == ASSUME LifeInv, OnlyReaper, Life!FindDue PROVE LifeInv'
<1>1. ThingsTyped'
  BY LifeBounds DEF LifeInv, LifeStages, LifeTyped, ThingsTyped, Life!FindDue, Life!Registered,
     Life!bounded, Life!history, Life!things
<1>2. WorkTyped'
  BY LifeBounds, NoCallIsACall DEF LifeInv, LifeStages, LifeTyped, WorkTyped, Life!FindDue, Sweeps
<1>3. LifeCounted'
  BY LifeBounds DEF LifeInv, LifeStages, LifeTyped, LifeCounted, Life!FindDue, Life!Registered,
     Life!bounded, Life!history, Life!things
<1>4. CreateStage' /\ UndoStage' /\ CopyStage'
  BY LifeBounds DEF LifeInv, LifeTyped, LifeStages, CreateStage, UndoStage, CopyStage,
     Life!FindDue, Creating, HasData, HasSpace, Life!Have, Life!CreateSteps, Life!Registered,
     Life!bounded, Life!history, Life!things
<1>5. ChangeStage' /\ DeleteStage'
  BY LifeBounds DEF LifeInv, LifeTyped, LifeStages, ChangeStage, DeleteStage, Life!FindDue,
     Life!Built, Life!ChangeSteps, Life!Have, OnBranch, Life!DeleteSteps, Life!Registered,
     Life!bounded, Life!history, Life!things, Life!Usable
<1>6. KeptAlone' /\ MarkedThere' /\ SettledWhole' /\ SweepStage'
  BY LifeBounds DEF OnlyReaper, LifeInv, LifeTyped, LifeStages, KeptAlone, MarkedThere,
     SettledWhole, SweepStage, Life!FindDue, Life!Have, Unregistered, Life!Registered,
     Life!bounded, Life!history, Life!things
<1>7. Life!OwnData' /\ Life!KeptUntilPurged' /\ Life!PromotedPair' /\ Life!Converged'
  BY LifeBounds DEF LifeInv, LifeTyped, LifeStages, Life!OwnData, Life!KeptUntilPurged,
     Life!PromotedPair, Life!Converged, Life!FindDue, Life!Have, Life!Usable, Life!Registered,
     Life!bounded, Life!history, Life!things
<1>. QED BY <1>1, <1>2, <1>3, <1>4, <1>5, <1>6, <1>7 DEF LifeInv, LifeTyped, LifeStages

(* Under the lock it has none.                                               *)
LEMMA LockNameKeeps == ASSUME LifeInv, OnlyReaper, Life!LockName PROVE LifeInv'
<1>1. ThingsTyped'
  BY LifeBounds DEF LifeInv, LifeStages, LifeTyped, ThingsTyped, Life!LockName, Life!NameBusy,
     Life!Pass, Life!bounded, Life!history, Life!things
<1>2. WorkTyped'
  BY PassedSweeps, LockedSweeps DEF LifeInv, LifeStages, LifeTyped, WorkTyped, Life!LockName,
     Life!Pass, Life!NameBusy
<1>3. LifeCounted'
  BY LifeBounds DEF LifeInv, LifeStages, LifeTyped, LifeCounted, Life!LockName, Life!NameBusy,
     Life!Pass, Life!bounded, Life!history, Life!things
<1>4. CreateStage' /\ UndoStage' /\ CopyStage'
  BY LifeBounds DEF LifeInv, LifeTyped, LifeStages, CreateStage, UndoStage, CopyStage,
     Life!LockName, Creating, HasData, HasSpace, Life!Have, Life!CreateSteps, Life!NameBusy,
     Life!Pass, Life!bounded, Life!history, Life!things
<1>5. ChangeStage' /\ DeleteStage'
  BY LifeBounds DEF LifeInv, LifeTyped, LifeStages, ChangeStage, DeleteStage, Life!LockName,
     Life!Built, Life!ChangeSteps, Life!Have, OnBranch, Life!DeleteSteps, Life!NameBusy, Life!Pass,
     Life!bounded, Life!history, Life!things, Life!Usable
<1>6. KeptAlone' /\ MarkedThere' /\ SettledWhole' /\ SweepStage'
  <2>1. sweep.by = "reaper"
    BY DEF OnlyReaper, LifeInv, LifeTyped, WorkTyped, Sweeps, Life!LockName
  <2>2. CASE place # "idle"
    <3>1. sweep'.by = "nobody" /\ sweep'.at = "look"
      BY <2>1, <2>2 DEF Life!LockName, Life!NameBusy, Life!Pass, LifeInv, LifeTyped, WorkTyped,
         Sweeps
    <3>. QED BY <3>1 DEF LifeInv, LifeStages, KeptAlone, MarkedThere, SettledWhole, SweepStage,
                Life!LockName, Life!things, Life!history, Life!Have
  <2>3. CASE place = "idle"
    <3>1. sweep' = [sweep EXCEPT !.at = "drop"] BY <2>1, <2>3 DEF Life!LockName, Life!NameBusy
    <3>2. sweep'.by = sweep.by /\ sweep'.seen = sweep.seen /\ sweep'.at = "drop"
      BY <3>1 DEF LifeInv, LifeTyped, WorkTyped, Sweeps
    <3>. QED BY <2>1, <2>3, <3>2 DEF LifeInv, LifeStages, KeptAlone, MarkedThere, SettledWhole,
                SweepStage, Unregistered, Life!LockName, Life!things, Life!history, Life!Have
  <2>. QED BY <2>2, <2>3
<1>7. Life!OwnData' /\ Life!KeptUntilPurged' /\ Life!PromotedPair' /\ Life!Converged'
  BY LifeBounds DEF LifeInv, LifeTyped, LifeStages, Life!OwnData, Life!KeptUntilPurged,
     Life!PromotedPair, Life!Converged, Life!LockName, Life!Have, Life!Usable, Life!NameBusy,
     Life!Pass, Life!bounded, Life!history, Life!things
<1>. QED BY <1>1, <1>2, <1>3, <1>4, <1>5, <1>6, <1>7 DEF LifeInv, LifeTyped, LifeStages

(* So it is nobody's database that goes,                                     *)
LEMMA DropDatabaseKeeps == ASSUME LifeInv, OnlyReaper, Life!DropDatabase PROVE LifeInv'
<1>1. ThingsTyped'
  BY LifeBounds DEF LifeInv, LifeStages, LifeTyped, ThingsTyped, Life!DropDatabase, Life!Have,
     Life!Pass, Life!Spend, Life!bounded
<1>2. WorkTyped'
  BY PassedSweeps, LockedSweeps DEF LifeInv, LifeStages, LifeTyped, WorkTyped, Life!DropDatabase,
     Life!Pass, Life!NameBusy
<1>3. LifeCounted'
  BY LifeBounds DEF LifeInv, LifeStages, LifeTyped, LifeCounted, Life!DropDatabase, Life!Have,
     Life!Pass, Life!Spend, Life!bounded
<1>4. CreateStage' /\ UndoStage' /\ CopyStage'
  BY LifeBounds DEF OnlyReaper, LifeInv, LifeTyped, LifeStages, CreateStage, UndoStage, CopyStage,
     Life!DropDatabase, Creating, HasData, HasSpace, Life!CreateSteps, SweepStage
<1>5. ChangeStage' /\ DeleteStage'
  BY LifeBounds DEF LifeInv, LifeTyped, LifeStages, ChangeStage, DeleteStage, Life!DropDatabase,
     Life!Built, Life!ChangeSteps, Life!Have, OnBranch, Life!DeleteSteps, Life!Pass, Life!Spend,
     Life!bounded, Life!Usable
<1>6. KeptAlone' /\ MarkedThere' /\ SettledWhole' /\ SweepStage'
  <2>1. /\ kept' = 0 /\ sweep.at = "drop"
        /\ UNCHANGED <<record, space, marked, place, settled>>
    BY DEF Life!DropDatabase
  <2>2. \/ sweep'.by = sweep.by /\ sweep'.seen = sweep.seen /\ sweep'.at = "remove"
        \/ sweep'.by = "nobody" /\ sweep'.at = "look"
    BY DEF Life!DropDatabase, Life!Pass, LifeInv, LifeTyped, WorkTyped, Sweeps
  <2>. QED BY <2>1, <2>2 DEF LifeInv, LifeStages, KeptAlone, MarkedThere, SettledWhole, SweepStage,
              Unregistered, Life!Have
<1>7. Life!OwnData' /\ Life!KeptUntilPurged' /\ Life!PromotedPair' /\ Life!Converged'
  BY LifeBounds DEF OnlyReaper, LifeInv, LifeTyped, LifeStages, Life!OwnData, Life!KeptUntilPurged,
     Life!PromotedPair, Life!Converged, Life!DropDatabase, Life!Have, SweepStage
<1>. QED BY <1>1, <1>2, <1>3, <1>4, <1>5, <1>6, <1>7 DEF LifeInv, LifeTyped, LifeStages

(* and nobody's workspace.                                                   *)
LEMMA RemoveWorkspaceKeeps == ASSUME LifeInv, OnlyReaper, Life!RemoveWorkspace PROVE LifeInv'
<1>1. ThingsTyped'
  BY LifeBounds DEF LifeInv, LifeStages, LifeTyped, ThingsTyped, Life!RemoveWorkspace, Life!Pass,
     Life!bounded, Life!history
<1>2. WorkTyped'
  BY PassedSweeps, NoCallIsACall DEF LifeInv, LifeStages, LifeTyped, WorkTyped,
     Life!RemoveWorkspace, Life!things, Life!history, Life!Pass, Life!NameBusy
<1>3. LifeCounted'
  BY LifeBounds DEF LifeInv, LifeStages, LifeTyped, LifeCounted, Life!RemoveWorkspace, Life!Pass,
     Life!bounded, Life!history
<1>4. CreateStage' /\ UndoStage' /\ CopyStage'
  BY LifeBounds DEF OnlyReaper, LifeInv, LifeTyped, LifeStages, CreateStage, UndoStage, CopyStage,
     Life!RemoveWorkspace, Creating, HasData, HasSpace, Life!CreateSteps, SweepStage
<1>5. ChangeStage' /\ DeleteStage'
  BY LifeBounds DEF OnlyReaper, LifeInv, LifeTyped, LifeStages, ChangeStage, DeleteStage,
     Life!RemoveWorkspace, SweepStage
<1>6. KeptAlone' /\ MarkedThere' /\ SettledWhole' /\ SweepStage'
  BY LifeBounds DEF OnlyReaper, LifeInv, LifeTyped, LifeStages, KeptAlone, MarkedThere,
     SettledWhole, SweepStage, Life!RemoveWorkspace, Life!Have, Unregistered, Life!Pass,
     Life!bounded, Life!history
<1>7. Life!OwnData' /\ Life!KeptUntilPurged' /\ Life!PromotedPair' /\ Life!Converged'
  BY LifeBounds DEF OnlyReaper, LifeInv, LifeTyped, LifeStages, Life!OwnData, Life!KeptUntilPurged,
     Life!PromotedPair, Life!Converged, Life!RemoveWorkspace, Life!Have, Life!bounded,
     Life!history, SweepStage
<1>. QED BY <1>1, <1>2, <1>3, <1>4, <1>5, <1>6, <1>7 DEF LifeInv, LifeTyped, LifeStages

(* A reconfiguration with nothing to do found everything as recorded.        *)
LEMMA BeginChangeKeeps == ASSUME LifeInv, OnlyReaper, NEW updates \in Life!Changes,
                                 NEW force \in BOOLEAN, Life!BeginChange(updates, force)
                          PROVE  LifeInv'
<1>1. ThingsTyped'
  BY LifeBounds DEF LifeInv, LifeStages, LifeTyped, ThingsTyped, Life!BeginChange, Life!Drift,
     Life!Have, Life!Locked, Life!NoCall, Life!Return, Life!things, Life!BranchDrift,
     Life!RoutingDrift, Life!Usable
<1>2. WorkTyped'
  BY LifeBounds, NoCallIsACall DEF LifeInv, LifeStages, LifeTyped, WorkTyped, LifeCounted,
     Life!Clones, Calls, Sweeps, Life!Steps, Life!ChangeSteps, Life!DeleteSteps, Creating,
     Life!BeginChange, Life!Go, Life!Return, Life!Changes
<1>3. LifeCounted'
  <2>1. settled' \in BOOLEAN
    BY DEF LifeInv, LifeStages, LifeTyped, LifeCounted, Life!BeginChange, Life!Return
  <2>2. calls \in 0..MaxCalls /\ calls < MaxCalls /\ calls' = calls + 1
    BY DEF LifeInv, LifeStages, LifeTyped, LifeCounted, Life!BeginChange
  <2>3. calls' \in 0..MaxCalls BY <2>2, LifeBounds
  <2>. QED BY <2>1, <2>3 DEF LifeInv, LifeStages, LifeTyped, LifeCounted, Life!BeginChange,
              Life!bounded, Life!things
<1>4. CreateStage' /\ UndoStage' /\ CopyStage'
  BY LifeBounds DEF LifeInv, LifeTyped, LifeStages, CreateStage, UndoStage, CopyStage,
     Life!BeginChange, Creating, HasData, HasSpace, Life!Have, Life!CreateSteps, Life!Drift,
     Life!Locked, Life!NoCall, Life!Return, Life!things, Life!BranchDrift, Life!RoutingDrift,
     Life!Usable
<1>5. ChangeStage' /\ DeleteStage'
  BY LifeBounds DEF LifeInv, LifeTyped, LifeStages, ChangeStage, DeleteStage, Life!BeginChange,
     Life!Built, Life!ChangeSteps, Life!Have, OnBranch, Life!DeleteSteps, Life!Drift, Life!Locked,
     Life!NoCall, Life!Return, Life!things, Life!Usable, Life!BranchDrift, Life!RoutingDrift
<1>6. KeptAlone' /\ MarkedThere' /\ SettledWhole' /\ SweepStage'
  BY LifeBounds DEF OnlyReaper, LifeInv, LifeTyped, LifeStages, KeptAlone, MarkedThere,
     SettledWhole, SweepStage, Life!BeginChange, Life!Have, Unregistered, Life!Drift, Life!Locked,
     Life!NoCall, Life!Return, Life!things, Life!BranchDrift, Life!RoutingDrift, Life!Usable
<1>7. Life!OwnData' /\ Life!KeptUntilPurged' /\ Life!PromotedPair' /\ Life!Converged'
  BY LifeBounds DEF LifeInv, LifeTyped, LifeStages, Life!OwnData, Life!KeptUntilPurged,
     Life!PromotedPair, Life!Converged, Life!BeginChange, Life!Have, Life!Usable, Life!Drift,
     Life!Locked, Life!NoCall, Life!Return, Life!things, Life!BranchDrift, Life!RoutingDrift
<1>. QED BY <1>1, <1>2, <1>3, <1>4, <1>5, <1>6, <1>7 DEF LifeInv, LifeTyped, LifeStages

(* One with something to do records it,                                      *)
LEMMA ChangeRecordKeeps == ASSUME LifeInv, OnlyReaper, Life!ChangeRecord PROVE LifeInv'
<1>1. ThingsTyped'
  BY LifeBounds DEF LifeInv, LifeStages, LifeTyped, ThingsTyped, Life!ChangeRecord, Life!Go,
     LifeCounted, Life!Records, Life!Settings, Life!Fields, CopyStage, ChangeStage, Life!Have,
     Life!ChangeSteps
<1>2. WorkTyped'
  BY LifeBounds, NoCallIsACall DEF LifeInv, LifeStages, LifeTyped, WorkTyped, Life!ChangeRecord,
     Life!Steps, Life!Go, Life!Same, Life!ChangeSteps, Life!CreateSteps, Life!DeleteSteps,
     Life!UndoSteps, Life!bounded, Life!history
<1>3. LifeCounted'
  BY LifeBounds DEF LifeInv, LifeStages, LifeTyped, LifeCounted, Life!ChangeRecord, Life!Go,
     Life!Same, Life!bounded, Life!history
<1>4. CreateStage' /\ UndoStage' /\ CopyStage'
  BY LifeBounds DEF LifeInv, LifeTyped, LifeStages, CreateStage, UndoStage, CopyStage,
     Life!ChangeRecord, Creating, HasData, HasSpace, Life!Have, Life!CreateSteps, Life!Go,
     Life!Same, Life!bounded, Life!history
<1>5. ChangeStage' /\ DeleteStage'
  BY LifeBounds DEF LifeInv, LifeTyped, LifeStages, ChangeStage, DeleteStage, Life!ChangeRecord,
     Life!Built, Life!ChangeSteps, Life!Have, OnBranch, Life!DeleteSteps, Life!Go, ThingsTyped,
     WorkTyped, LifeCounted, Life!Records, Life!Settings
<1>6. KeptAlone' /\ MarkedThere' /\ SettledWhole' /\ SweepStage'
  BY LifeBounds DEF OnlyReaper, LifeInv, LifeTyped, LifeStages, KeptAlone, MarkedThere,
     SettledWhole, SweepStage, Life!ChangeRecord, Life!Have, Unregistered, Life!Go, Life!Same,
     Life!bounded, Life!history, CopyStage, ChangeStage, Life!ChangeSteps
<1>7. Life!OwnData' /\ Life!KeptUntilPurged' /\ Life!PromotedPair' /\ Life!Converged'
  BY LifeBounds DEF OnlyReaper, LifeInv, LifeTyped, LifeStages, Life!OwnData, Life!KeptUntilPurged,
     Life!PromotedPair, Life!Converged, Life!ChangeRecord, Life!Go, Life!Same, Life!bounded,
     Life!history, CopyStage, ChangeStage, Life!ChangeSteps
<1>. QED BY <1>1, <1>2, <1>3, <1>4, <1>5, <1>6, <1>7 DEF LifeInv, LifeTyped, LifeStages

(* brings the checkout to the branch, or stages a clone that is on it,       *)
LEMMA ConvergeKeeps == ASSUME LifeInv, OnlyReaper, Life!Converge PROVE LifeInv'
<1>a. record \in Life!Records
  BY DEF LifeInv, LifeStages, LifeTyped, ThingsTyped, ChangeStage, Life!Converge, Life!ChangeSteps,
     Life!Have
<1>b. /\ record.set["branch"] \in {1, 2} /\ record.set["repo"] \in {1, 2}
      /\ record.set["addons"] \in {1, 2}
  BY <1>a, RecordFields DEF Life!Fields
<1>1. ThingsTyped'
  <2>1. space' = space
          \/ (space \in Life!Spaces
              /\ space' = [space EXCEPT !.branch = record.set["branch"]])
    BY DEF LifeInv, LifeStages, LifeTyped, ThingsTyped, Life!Converge, Life!Usable, Life!Have
  <2>2. ASSUME space \in Life!Spaces
        PROVE  [space EXCEPT !.branch = record.set["branch"]] \in Life!Spaces
    BY <1>b, <2>2 DEF Life!Spaces
  <2>3. space' \in Life!Spaces \cup {Nil}
    BY <2>1, <2>2 DEF LifeInv, LifeStages, LifeTyped, ThingsTyped
  <2>. QED BY <2>3 DEF LifeInv, LifeStages, LifeTyped, ThingsTyped, Life!Converge, Life!Same
<1>2. WorkTyped'
  <2>1. [repo |-> record.set["repo"], branch |-> record.set["branch"]] \in Life!Clones
    BY <1>b DEF Life!Clones
  <2>. QED BY <2>1, StagedCalls DEF LifeInv, LifeStages, LifeTyped, WorkTyped, Life!Converge,
              Life!Same, Life!Steps, Life!ChangeSteps
<1>3. LifeCounted'
  BY LifeBounds DEF LifeInv, LifeStages, LifeTyped, LifeCounted, Life!Converge, Life!BranchDrift,
     Life!Same, Life!Usable, Life!Have, Life!bounded, Life!history
<1>4. CreateStage' /\ UndoStage' /\ CopyStage'
  BY LifeBounds DEF LifeInv, LifeTyped, LifeStages, CreateStage, UndoStage, CopyStage,
     Life!Converge, Creating, HasData, HasSpace, Life!Have, Life!CreateSteps, Life!BranchDrift,
     Life!Same, Life!Usable, Life!bounded, Life!history
<1>5. ChangeStage' /\ DeleteStage'
  BY LifeBounds DEF LifeInv, LifeTyped, LifeStages, ChangeStage, DeleteStage, Life!Converge,
     Life!Built, Life!ChangeSteps, Life!Have, OnBranch, Life!DeleteSteps, Life!BranchDrift,
     Life!Same, Life!Usable, ThingsTyped, WorkTyped, LifeCounted, Life!Records, Life!Databases,
     Life!Spaces, Life!Containers, Life!Clones, Calls, Life!Settings, Life!Fields
<1>6. KeptAlone' /\ MarkedThere' /\ SettledWhole' /\ SweepStage'
  BY LifeBounds DEF OnlyReaper, LifeInv, LifeTyped, LifeStages, KeptAlone, MarkedThere,
     SettledWhole, SweepStage, Life!Converge, Life!Have, Unregistered, Life!BranchDrift, Life!Same,
     Life!history, ThingsTyped, Life!Records, Life!Databases, Life!Spaces, Life!Containers, Sweeps,
     Life!Settings, Life!Fields, CreateStage, ChangeStage, Life!ChangeSteps
<1>7. Life!OwnData' /\ Life!KeptUntilPurged' /\ Life!PromotedPair' /\ Life!Converged'
  BY LifeBounds DEF OnlyReaper, LifeInv, LifeTyped, LifeStages, Life!OwnData, Life!KeptUntilPurged,
     Life!PromotedPair, Life!Converged, Life!Converge, Life!Have, Life!Usable, Life!BranchDrift,
     Life!Same, Life!bounded, Life!history, ThingsTyped, WorkTyped, LifeCounted, Life!Records,
     Life!Databases, Life!Spaces, Life!Settings, Life!Fields, KeptAlone
<1>. QED BY <1>1, <1>2, <1>3, <1>4, <1>5, <1>6, <1>7 DEF LifeInv, LifeTyped, LifeStages

(* the worktree,                                                             *)
LEMMA ConvergeAddonsKeeps == ASSUME LifeInv, OnlyReaper, Life!ConvergeAddons PROVE LifeInv'
<1>a. record \in Life!Records
  BY DEF LifeInv, LifeStages, LifeTyped, ThingsTyped, ChangeStage, Life!ConvergeAddons,
     Life!ChangeSteps, Life!Have
<1>b. /\ record.set["branch"] \in {1, 2} /\ record.set["repo"] \in {1, 2}
      /\ record.set["addons"] \in {1, 2}
  BY <1>a, RecordFields DEF Life!Fields
<1>1. ThingsTyped'
  <2>1. space' = space
          \/ (space \in Life!Spaces
              /\ space' = [space EXCEPT !.addons = record.set["addons"]])
    BY DEF LifeInv, LifeStages, LifeTyped, ThingsTyped, Life!ConvergeAddons, Life!Usable, Life!Have
  <2>2. ASSUME space \in Life!Spaces
        PROVE  [space EXCEPT !.addons = record.set["addons"]] \in Life!Spaces
    BY <1>b, <2>2 DEF Life!Spaces
  <2>3. space' \in Life!Spaces \cup {Nil}
    BY <2>1, <2>2 DEF LifeInv, LifeStages, LifeTyped, ThingsTyped
  <2>. QED BY <2>3 DEF LifeInv, LifeStages, LifeTyped, ThingsTyped, Life!ConvergeAddons, Life!Same
<1>2. WorkTyped'
  BY DEF LifeInv, LifeStages, LifeTyped, WorkTyped, Life!ConvergeAddons, Life!Same, Life!Go,
     Life!Steps, Life!ChangeSteps
<1>3. LifeCounted'
  BY LifeBounds DEF LifeInv, LifeStages, LifeTyped, LifeCounted, Life!ConvergeAddons, Life!Go,
     Life!Same, Life!Usable, Life!bounded, Life!history, Life!Have
<1>4. CreateStage' /\ UndoStage' /\ CopyStage'
  BY LifeBounds DEF LifeInv, LifeTyped, LifeStages, CreateStage, UndoStage, CopyStage,
     Life!ConvergeAddons, Creating, HasData, HasSpace, Life!Have, Life!CreateSteps, Life!Go,
     Life!Same, Life!Usable, Life!bounded, Life!history
<1>5. ChangeStage' /\ DeleteStage'
  BY LifeBounds DEF LifeInv, LifeTyped, LifeStages, ChangeStage, DeleteStage, Life!ConvergeAddons,
     Life!Built, Life!ChangeSteps, Life!Have, OnBranch, Life!DeleteSteps, Life!Go, Life!Same,
     Life!Usable, ThingsTyped, WorkTyped, LifeCounted, Life!Records, Life!Databases, Life!Spaces,
     Life!Settings, Life!Fields
<1>6. KeptAlone' /\ MarkedThere' /\ SettledWhole' /\ SweepStage'
  BY LifeBounds DEF OnlyReaper, LifeInv, LifeTyped, LifeStages, KeptAlone, MarkedThere,
     SettledWhole, SweepStage, Life!ConvergeAddons, Life!Have, Unregistered, Life!Go, Life!Same,
     Life!history, ThingsTyped, Life!Records, Life!Databases, Life!Spaces, Life!Containers, Sweeps,
     Life!Settings, Life!Fields, CreateStage, ChangeStage, Life!ChangeSteps
<1>7. Life!OwnData' /\ Life!KeptUntilPurged' /\ Life!PromotedPair' /\ Life!Converged'
  BY LifeBounds DEF OnlyReaper, LifeInv, LifeTyped, LifeStages, Life!OwnData, Life!KeptUntilPurged,
     Life!PromotedPair, Life!Converged, Life!ConvergeAddons, Life!Have, Life!Usable, Life!Go,
     Life!Same, Life!bounded, Life!history, ThingsTyped, WorkTyped, LifeCounted, Life!Records,
     Life!Databases, Life!Spaces, Life!Settings, Life!Fields, KeptAlone
<1>. QED BY <1>1, <1>2, <1>3, <1>4, <1>5, <1>6, <1>7 DEF LifeInv, LifeTyped, LifeStages

(* removes the container,                                                    *)
LEMMA RemoveOldKeeps == ASSUME LifeInv, OnlyReaper, Life!RemoveOld PROVE LifeInv'
<1>1. ThingsTyped'
  BY LifeBounds DEF LifeInv, LifeStages, LifeTyped, ThingsTyped, Life!RemoveOld, Life!Go,
     Life!Same, Life!bounded, Life!history
<1>2. WorkTyped'
  BY LifeBounds, NoCallIsACall DEF LifeInv, LifeStages, LifeTyped, WorkTyped, Life!RemoveOld,
     Life!Steps, Life!Go, Life!Same, Life!ChangeSteps, Life!CreateSteps, Life!DeleteSteps,
     Life!UndoSteps, Life!bounded, Life!history
<1>3. LifeCounted'
  BY LifeBounds DEF LifeInv, LifeStages, LifeTyped, LifeCounted, Life!RemoveOld, Life!Go,
     Life!Same, Life!bounded, Life!history
<1>4. CreateStage' /\ UndoStage' /\ CopyStage'
  BY LifeBounds DEF LifeInv, LifeTyped, LifeStages, CreateStage, UndoStage, CopyStage,
     Life!RemoveOld, Creating, HasData, HasSpace, Life!Have, Life!CreateSteps, Life!Go, Life!Same,
     Life!bounded, Life!history
<1>5. ChangeStage' /\ DeleteStage'
  BY LifeBounds DEF LifeInv, LifeTyped, LifeStages, ChangeStage, DeleteStage, Life!RemoveOld,
     Life!Built, Life!ChangeSteps, Life!Have, OnBranch, Life!DeleteSteps, Life!Go, Life!Same,
     Life!Usable, Life!bounded, Life!history
<1>6. KeptAlone' /\ MarkedThere' /\ SettledWhole' /\ SweepStage'
  BY LifeBounds DEF OnlyReaper, LifeInv, LifeTyped, LifeStages, KeptAlone, MarkedThere,
     SettledWhole, SweepStage, Life!RemoveOld, Life!Have, Unregistered, Life!Go, Life!Same,
     Life!bounded, Life!history
<1>7. Life!OwnData' /\ Life!KeptUntilPurged' /\ Life!PromotedPair' /\ Life!Converged'
  BY LifeBounds DEF LifeInv, LifeTyped, LifeStages, Life!OwnData, Life!KeptUntilPurged,
     Life!PromotedPair, Life!Converged, Life!RemoveOld, Life!Have, Life!Usable, Life!Go, Life!Same,
     Life!bounded, Life!history
<1>. QED BY <1>1, <1>2, <1>3, <1>4, <1>5, <1>6, <1>7 DEF LifeInv, LifeTyped, LifeStages

(* puts the clone in place,                                                  *)
LEMMA SwapCloneKeeps == ASSUME LifeInv, OnlyReaper, Life!SwapClone PROVE LifeInv'
<1>1. ThingsTyped'
  <2>1. CASE call.staged # Nil /\ Life!Have(space)
    <3>1. /\ space \in Life!Spaces /\ call.staged.repo \in 0..2
              /\ call.staged.branch \in 0..2
      BY <2>1, StagedFields DEF LifeInv, LifeStages, LifeTyped, ThingsTyped, WorkTyped, Life!Have
    <3>2. [space EXCEPT !.repo = call.staged.repo, !.branch = call.staged.branch]
            \in Life!Spaces
      BY <3>1, CloneEdits
    <3>. QED BY <2>1, <3>2 DEF LifeInv, LifeStages, LifeTyped, ThingsTyped, Life!SwapClone,
                Life!Same
  <2>2. CASE ~(call.staged # Nil /\ Life!Have(space))
    BY <2>2 DEF LifeInv, LifeStages, LifeTyped, ThingsTyped, Life!SwapClone, Life!Same
  <2>. QED BY <2>1, <2>2
<1>2. WorkTyped'
  BY LifeBounds, NoCallIsACall DEF LifeInv, LifeStages, LifeTyped, WorkTyped, Life!SwapClone,
     Life!Steps, Life!Go, Life!Have, Life!Same, Life!ChangeSteps, Life!CreateSteps,
     Life!DeleteSteps, Life!UndoSteps, Life!bounded, Life!history
<1>3. LifeCounted'
  BY LifeBounds DEF LifeInv, LifeStages, LifeTyped, LifeCounted, Life!SwapClone, Life!Go,
     Life!Have, Life!Same, Life!bounded, Life!history
<1>4. CreateStage' /\ UndoStage' /\ CopyStage'
  BY LifeBounds DEF LifeInv, LifeTyped, LifeStages, CreateStage, UndoStage, CopyStage,
     Life!SwapClone, Creating, HasData, HasSpace, Life!Have, Life!CreateSteps, Life!Go, Life!Same,
     Life!bounded, Life!history
<1>u. space \in Life!Spaces /\ Life!Have(space) /\ Life!Have(record) /\ record.whole
        /\ place = "swap"
  BY DEF LifeInv, LifeStages, LifeTyped, ThingsTyped, ChangeStage, Life!OwnData, Life!SwapClone,
     Life!ChangeSteps, Life!Have
<1>v. /\ space' \in Life!Spaces /\ space'.gen = space.gen /\ space'.data = space.data
      /\ call.staged = Nil => space' = space
      /\ call.staged # Nil => space'.branch = call.staged.branch
          /\ space'.repo = call.staged.repo
                               /\ space'.repo # 0
  <2>1. call.staged # Nil => call.staged.repo \in {1, 2}
          /\ call.staged.branch \in {1, 2}
    BY DEF LifeInv, LifeTyped, WorkTyped, Calls, Life!Clones
  <2>2. CASE call.staged = Nil BY <1>u, <2>2 DEF Life!SwapClone
  <2>3. CASE call.staged # Nil
    <3>1. space' = [space EXCEPT !.repo = call.staged.repo,
              !.branch = call.staged.branch]
      BY <1>u, <2>3 DEF Life!SwapClone
    <3>a. call.staged.repo \in 0..2 /\ call.staged.branch \in 0..2 BY <2>1, <2>3
    <3>2. space' \in Life!Spaces BY <1>u, <3>a, <3>1, CloneEdits
    <3>. QED BY <1>u, <2>1, <2>3, <3>1, <3>2 DEF Life!Spaces
  <2>. QED BY <2>2, <2>3
<1>w. /\ Life!Have(space') /\ place' = "recreate"
      /\ UNCHANGED <<record, dbase, marked, container, source, call, sweep, settled,
            kept>>
  BY <1>v, LifeBounds DEF Life!SwapClone, Life!Have, Life!Go, Life!Same, Life!history
<1>5. ChangeStage' /\ DeleteStage'
  BY <1>u, <1>v, <1>w DEF LifeInv, LifeStages, ChangeStage, DeleteStage, Life!ChangeSteps,
     Life!DeleteSteps, OnBranch, Life!Usable, Life!Have
<1>6. KeptAlone' /\ MarkedThere' /\ SettledWhole' /\ SweepStage'
  BY <1>u, <1>v, <1>w DEF LifeInv, LifeStages, KeptAlone, MarkedThere, SettledWhole, SweepStage,
     Unregistered, Life!Have
<1>7. Life!OwnData' /\ Life!KeptUntilPurged' /\ Life!PromotedPair' /\ Life!Converged'
  BY <1>u, <1>v, <1>w DEF LifeInv, LifeStages, Life!OwnData, Life!KeptUntilPurged,
     Life!PromotedPair, Life!Converged, SettledWhole, Life!Have
<1>. QED BY <1>1, <1>2, <1>3, <1>4, <1>5, <1>6, <1>7 DEF LifeInv, LifeTyped, LifeStages

(* runs what is recorded,                                                    *)
LEMMA RunChangedKeeps == ASSUME LifeInv, OnlyReaper, Life!RunChanged PROVE LifeInv'
<1>1. ThingsTyped'
  BY LifeBounds DEF LifeInv, LifeStages, LifeTyped, ThingsTyped, Life!RunChanged, Life!Built,
     Life!Records, Life!Databases, Life!Spaces, Life!Containers, ChangeStage, DeleteStage,
     HasSpace, Life!Have, Life!ChangeSteps
<1>2. WorkTyped'
  BY LifeBounds, NoCallIsACall DEF LifeInv, LifeStages, LifeTyped, WorkTyped, Life!RunChanged,
     Life!Steps, Life!Built, Life!Go, Life!Same, Life!ChangeSteps, Life!CreateSteps,
     Life!DeleteSteps, Life!UndoSteps, Life!bounded, Life!history
<1>3. LifeCounted'
  BY LifeBounds DEF LifeInv, LifeStages, LifeTyped, LifeCounted, Life!RunChanged, Life!Built,
     Life!Go, Life!Same, Life!bounded, Life!history
<1>4. CreateStage' /\ UndoStage' /\ CopyStage'
  BY LifeBounds DEF LifeInv, LifeTyped, LifeStages, CreateStage, UndoStage, CopyStage,
     Life!RunChanged, Creating, HasData, HasSpace, Life!Have, Life!CreateSteps, Life!Built,
     Life!Go, Life!Same, Life!bounded, Life!history
<1>5. ChangeStage' /\ DeleteStage'
  BY LifeBounds DEF LifeInv, LifeTyped, LifeStages, ChangeStage, DeleteStage, Life!RunChanged,
     Life!Built, Life!ChangeSteps, Life!Have, OnBranch, Life!DeleteSteps, Life!Go, Life!Same,
     Life!Usable, Life!bounded, Life!history
<1>6. KeptAlone' /\ MarkedThere' /\ SettledWhole' /\ SweepStage'
  BY LifeBounds DEF OnlyReaper, LifeInv, LifeTyped, LifeStages, KeptAlone, MarkedThere,
     SettledWhole, SweepStage, Life!RunChanged, Life!Have, Unregistered, Life!Built, Life!Go,
     Life!Same, Life!bounded, Life!history
<1>7. Life!OwnData' /\ Life!KeptUntilPurged' /\ Life!PromotedPair' /\ Life!Converged'
  BY LifeBounds DEF LifeInv, LifeTyped, LifeStages, Life!OwnData, Life!KeptUntilPurged,
     Life!PromotedPair, Life!Converged, Life!RunChanged, Life!Have, Life!Usable, Life!Built,
     Life!Go, Life!Same, Life!bounded, Life!history
<1>. QED BY <1>1, <1>2, <1>3, <1>4, <1>5, <1>6, <1>7 DEF LifeInv, LifeTyped, LifeStages

(* and returns.                                                              *)
LEMMA JudgeKeeps == ASSUME LifeInv, OnlyReaper, Life!Judge PROVE LifeInv'
<1>1. ThingsTyped'
  BY LifeBounds DEF LifeInv, LifeStages, LifeTyped, ThingsTyped, Life!Judge, Life!Return,
     Life!bounded, Life!things, Life!NoCall
<1>2. WorkTyped'
  BY LifeBounds, NoCallIsACall DEF LifeInv, LifeStages, LifeTyped, WorkTyped, Life!Judge,
     Life!Steps, Life!Return, Life!bounded, Life!things, Life!ChangeSteps, Life!CreateSteps,
     Life!DeleteSteps, Life!UndoSteps, Life!NoCall
<1>3. LifeCounted'
  BY LifeBounds DEF LifeInv, LifeStages, LifeTyped, LifeCounted, Life!Judge, Life!Return,
     Life!bounded, Life!things, Life!NoCall
<1>4. CreateStage' /\ UndoStage' /\ CopyStage'
  BY LifeBounds DEF LifeInv, LifeTyped, LifeStages, CreateStage, UndoStage, CopyStage, Life!Judge,
     Creating, HasData, HasSpace, Life!Have, Life!CreateSteps, Life!Return, Life!bounded,
     Life!things, Life!NoCall
<1>5. ChangeStage' /\ DeleteStage'
  BY LifeBounds DEF LifeInv, LifeTyped, LifeStages, ChangeStage, DeleteStage, Life!Judge,
     Life!Built, Life!ChangeSteps, Life!Have, OnBranch, Life!DeleteSteps, Life!Return,
     Life!bounded, Life!things, Life!Usable, Life!NoCall
<1>6. KeptAlone' /\ MarkedThere' /\ SettledWhole' /\ SweepStage'
  BY LifeBounds DEF OnlyReaper, LifeInv, LifeTyped, LifeStages, KeptAlone, MarkedThere,
     SettledWhole, SweepStage, Life!Judge, Life!Have, Unregistered, Life!Return, Life!bounded,
     Life!things, Life!NoCall, CopyStage, ChangeStage, Life!ChangeSteps
<1>7. Life!OwnData' /\ Life!KeptUntilPurged' /\ Life!PromotedPair' /\ Life!Converged'
  <2>1. record \in Life!Records /\ container = Life!Built(record) /\ OnBranch /\ place = "judge"
    BY DEF LifeInv, LifeStages, LifeTyped, ThingsTyped, ChangeStage, Life!ChangeSteps, Life!Judge,
       Life!Have
  <2>2. Life!Built(record) \in Life!Containers BY <2>1 DEF Life!Records, Life!Containers, Life!Built
  <2>3. Life!Have(container) /\ container.set = record.set
    BY <2>1, <2>2, LifeBounds DEF Life!Have, Life!Built
  <2>. QED BY <2>1, <2>3 DEF LifeInv, LifeStages, Life!Judge, Life!things, Life!OwnData,
              Life!KeptUntilPurged, Life!PromotedPair, Life!Converged, OnBranch, Life!Have,
              Life!Usable
<1>. QED BY <1>1, <1>2, <1>3, <1>4, <1>5, <1>6, <1>7 DEF LifeInv, LifeTyped, LifeStages

(* Wherever it fails, it does not return.                                    *)
LEMMA ChangeFailsKeeps == ASSUME LifeInv, OnlyReaper, Life!ChangeFails PROVE LifeInv'
<1>1. ThingsTyped'
  BY LifeBounds DEF LifeInv, LifeStages, LifeTyped, ThingsTyped, Life!ChangeFails,
     Life!ChangeSteps, Life!Return, Life!Spend, Life!history, Life!things, Life!NoCall
<1>2. WorkTyped'
  BY LifeBounds, NoCallIsACall DEF LifeInv, LifeStages, LifeTyped, WorkTyped, Life!ChangeFails,
     Life!Steps, Life!ChangeSteps, Life!Return, Life!Spend, Life!history, Life!things,
     Life!CreateSteps, Life!DeleteSteps, Life!UndoSteps, Life!NoCall
<1>3. LifeCounted'
  BY LifeBounds DEF LifeInv, LifeStages, LifeTyped, LifeCounted, Life!ChangeFails,
     Life!ChangeSteps, Life!Return, Life!Spend, Life!history, Life!things, Life!NoCall
<1>4. CreateStage' /\ UndoStage' /\ CopyStage'
  BY LifeBounds DEF LifeInv, LifeTyped, LifeStages, CreateStage, UndoStage, CopyStage,
     Life!ChangeFails, Creating, HasData, HasSpace, Life!Have, Life!CreateSteps, Life!ChangeSteps,
     Life!Return, Life!Spend, Life!history, Life!things, Life!NoCall
<1>5. ChangeStage' /\ DeleteStage'
  BY LifeBounds DEF LifeInv, LifeTyped, LifeStages, ChangeStage, DeleteStage, Life!ChangeFails,
     Life!Built, Life!ChangeSteps, Life!Have, OnBranch, Life!DeleteSteps, Life!Return, Life!Spend,
     Life!history, Life!things, Life!Usable, Life!NoCall
<1>6. KeptAlone' /\ MarkedThere' /\ SettledWhole' /\ SweepStage'
  BY LifeBounds DEF OnlyReaper, LifeInv, LifeTyped, LifeStages, KeptAlone, MarkedThere,
     SettledWhole, SweepStage, Life!ChangeFails, Life!Have, Unregistered, Life!ChangeSteps,
     Life!Return, Life!Spend, Life!history, Life!things, Life!NoCall
<1>7. Life!OwnData' /\ Life!KeptUntilPurged' /\ Life!PromotedPair' /\ Life!Converged'
  BY LifeBounds DEF LifeInv, LifeTyped, LifeStages, Life!OwnData, Life!KeptUntilPurged,
     Life!PromotedPair, Life!Converged, Life!ChangeFails, Life!Have, Life!Usable, Life!ChangeSteps,
     Life!Return, Life!Spend, Life!history, Life!things, Life!NoCall
<1>. QED BY <1>1, <1>2, <1>3, <1>4, <1>5, <1>6, <1>7 DEF LifeInv, LifeTyped, LifeStages

(* Whoever works in the environment changes nothing of a production.         *)
LEMMA UserWritesKeeps == ASSUME LifeInv, OnlyReaper, Life!UserWrites PROVE LifeInv'
<1>1. ThingsTyped'
  BY LifeBounds DEF LifeInv, LifeStages, LifeTyped, ThingsTyped, Life!UserWrites, Life!history,
     WorkTyped, LifeCounted
<1>2. WorkTyped'
  BY LifeBounds, NoCallIsACall DEF LifeInv, LifeStages, LifeTyped, WorkTyped, Life!UserWrites,
     Life!Steps, Life!history, Life!ChangeSteps, Life!CreateSteps, Life!DeleteSteps, Life!UndoSteps
<1>3. LifeCounted'
  BY LifeBounds DEF LifeInv, LifeStages, LifeTyped, LifeCounted, Life!UserWrites, Life!history
<1>4. CreateStage' /\ UndoStage' /\ CopyStage'
  BY LifeBounds DEF LifeInv, LifeTyped, LifeStages, CreateStage, UndoStage, CopyStage,
     Life!UserWrites, Creating, HasData, HasSpace, Life!Have, Life!CreateSteps, Life!history
<1>5. ChangeStage' /\ DeleteStage'
  BY LifeBounds DEF LifeInv, LifeTyped, LifeStages, ChangeStage, DeleteStage, Life!UserWrites,
     Life!Built, Life!ChangeSteps, Life!Have, OnBranch, Life!DeleteSteps, Life!history, Life!Usable
<1>6. KeptAlone' /\ MarkedThere' /\ SettledWhole' /\ SweepStage'
  BY LifeBounds DEF OnlyReaper, LifeInv, LifeTyped, LifeStages, KeptAlone, MarkedThere,
     SettledWhole, SweepStage, Life!UserWrites, Life!Have, Unregistered, Life!history
<1>7. Life!OwnData' /\ Life!KeptUntilPurged' /\ Life!PromotedPair' /\ Life!Converged'
  BY LifeBounds DEF LifeInv, LifeTyped, LifeStages, Life!OwnData, Life!KeptUntilPurged,
     Life!PromotedPair, Life!Converged, Life!UserWrites, Life!Have, Life!Usable, Life!history
<1>. QED BY <1>1, <1>2, <1>3, <1>4, <1>5, <1>6, <1>7 DEF LifeInv, LifeTyped, LifeStages

(* Nor does whoever starts or stops it, while it is not being copied.        *)
LEMMA StartOrStopKeeps == ASSUME LifeInv, OnlyReaper, Life!StartOrStop PROVE LifeInv'
<1>1. ThingsTyped'
  BY LifeBounds DEF LifeInv, LifeStages, LifeTyped, ThingsTyped, Life!StartOrStop, Life!EnvLocked,
     Life!bounded, Life!history
<1>2. WorkTyped'
  BY LifeBounds, NoCallIsACall DEF LifeInv, LifeStages, LifeTyped, WorkTyped, Life!StartOrStop,
     Life!Steps, Life!EnvLocked, Life!bounded, Life!history, Life!ChangeSteps, Life!CreateSteps,
     Life!DeleteSteps, Life!UndoSteps
<1>3. LifeCounted'
  BY LifeBounds DEF LifeInv, LifeStages, LifeTyped, LifeCounted, Life!StartOrStop, Life!EnvLocked,
     Life!bounded, Life!history
<1>4. CreateStage' /\ UndoStage' /\ CopyStage'
  BY LifeBounds DEF LifeInv, LifeTyped, LifeStages, CreateStage, UndoStage, CopyStage,
     Life!StartOrStop, Creating, HasData, HasSpace, Life!Have, Life!CreateSteps, Life!EnvLocked,
     Life!bounded, Life!history
<1>5. ChangeStage' /\ DeleteStage'
  BY LifeBounds DEF LifeInv, LifeTyped, LifeStages, ChangeStage, DeleteStage, Life!StartOrStop,
     Life!Built, Life!ChangeSteps, Life!Have, OnBranch, Life!DeleteSteps, Life!EnvLocked,
     Life!bounded, Life!history, Life!Usable
<1>6. KeptAlone' /\ MarkedThere' /\ SettledWhole' /\ SweepStage'
  BY LifeBounds DEF OnlyReaper, LifeInv, LifeTyped, LifeStages, KeptAlone, MarkedThere,
     SettledWhole, SweepStage, Life!StartOrStop, Life!Have, Unregistered, Life!EnvLocked,
     Life!bounded, Life!history
<1>7. Life!OwnData' /\ Life!KeptUntilPurged' /\ Life!PromotedPair' /\ Life!Converged'
  BY LifeBounds DEF LifeInv, LifeTyped, LifeStages, Life!OwnData, Life!KeptUntilPurged,
     Life!PromotedPair, Life!Converged, Life!StartOrStop, Life!Have, Life!Usable, Life!EnvLocked,
     Life!bounded, Life!history
<1>. QED BY <1>1, <1>2, <1>3, <1>4, <1>5, <1>6, <1>7 DEF LifeInv, LifeTyped, LifeStages

(* A death ends operation and sweep.                                         *)
LEMMA LifeDieKeeps == ASSUME LifeInv, OnlyReaper, Life!Die PROVE LifeInv'
<1>1. ThingsTyped'
  BY LifeBounds DEF LifeInv, LifeStages, LifeTyped, ThingsTyped, Life!Die, Life!Return, Life!Spend,
     Life!history, Life!things, Life!NoCall
<1>2. WorkTyped'
  BY LifeBounds, NoCallIsACall DEF LifeInv, LifeStages, LifeTyped, WorkTyped, Life!Die, Life!Steps,
     Life!Return, Sweeps
<1>3. LifeCounted'
  BY LifeBounds DEF LifeInv, LifeStages, LifeTyped, LifeCounted, Life!Die, Life!Return, Life!Spend,
     Life!history, Life!things, Life!NoCall
<1>4. CreateStage' /\ UndoStage' /\ CopyStage'
  BY LifeBounds DEF LifeInv, LifeTyped, LifeStages, CreateStage, UndoStage, CopyStage, Life!Die,
     Creating, HasData, HasSpace, Life!Have, Life!CreateSteps, Life!Return, Life!Spend,
     Life!history, Life!things, Life!NoCall
<1>5. ChangeStage' /\ DeleteStage'
  BY LifeBounds DEF LifeInv, LifeTyped, LifeStages, ChangeStage, DeleteStage, Life!Die, Life!Built,
     Life!ChangeSteps, Life!Have, OnBranch, Life!DeleteSteps, Life!Return, Life!Spend,
     Life!history, Life!things, Life!Usable, Life!NoCall
<1>6. KeptAlone' /\ MarkedThere' /\ SettledWhole' /\ SweepStage'
  BY LifeBounds DEF OnlyReaper, LifeInv, LifeTyped, LifeStages, KeptAlone, MarkedThere,
     SettledWhole, SweepStage, Life!Die, Life!Have, Unregistered, Life!Return, Life!Spend,
     Life!history, Life!things, Life!NoCall, ThingsTyped, WorkTyped, Sweeps
<1>7. Life!OwnData' /\ Life!KeptUntilPurged' /\ Life!PromotedPair' /\ Life!Converged'
  BY LifeBounds DEF LifeInv, LifeTyped, LifeStages, Life!OwnData, Life!KeptUntilPurged,
     Life!PromotedPair, Life!Converged, Life!Die, Life!Have, Life!Usable, Life!Return, Life!Spend,
     Life!history, Life!things, Life!NoCall
<1>. QED BY <1>1, <1>2, <1>3, <1>4, <1>5, <1>6, <1>7 DEF LifeInv, LifeTyped, LifeStages

(* No action, no change.                                                     *)
LEMMA LifeStands == ASSUME LifeInv, UNCHANGED Life!prodVars PROVE LifeInv'
<1>1. /\ UNCHANGED <<record, dbase, space, marked, container, source, place, call, sweep>>
      /\ UNCHANGED <<settled, kept, creates, calls, lifeMishaps, edits>>
  BY DEF Life!prodVars, Life!history, Life!bounded
<1>2. LifeTyped' BY <1>1 DEF LifeInv, LifeTyped, ThingsTyped, WorkTyped, LifeCounted
<1>3. CreateStage' /\ UndoStage' /\ CopyStage' /\ ChangeStage' /\ DeleteStage'
  BY <1>1 DEF LifeInv, LifeStages, CreateStage, UndoStage, CopyStage, ChangeStage, DeleteStage,
     OnBranch, Life!Usable, Life!Have
<1>4. KeptAlone' /\ MarkedThere' /\ SettledWhole' /\ SweepStage'
  BY <1>1 DEF LifeInv, LifeStages, KeptAlone, MarkedThere, SettledWhole, SweepStage, Unregistered,
     Life!Have
<1>5. Life!OwnData' /\ Life!KeptUntilPurged' /\ Life!PromotedPair' /\ Life!Converged'
  BY <1>1 DEF LifeInv, LifeStages, Life!OwnData, Life!KeptUntilPurged, Life!PromotedPair,
     Life!Converged, Life!Usable, Life!Have
<1>. QED BY <1>2, <1>3, <1>4, <1>5 DEF LifeInv, LifeStages

(* A name starts with nothing.                                               *)
LEMMA LifeInitially == Life!PLInit => LifeInv
<1> SUFFICES ASSUME Life!PLInit PROVE LifeInv OBVIOUS
<1>1. LifeTyped
  <2>0. /\ 0 \in 0..MaxCreates /\ 0 \in 0..MaxCalls /\ 0 \in 0..MaxMishaps /\ 0 \in 0..MaxEdits
    BY LifeBounds
  <2>1. ThingsTyped BY <2>0 DEF Life!PLInit, ThingsTyped
  <2>2. sweep \in Sweeps BY DEF Life!PLInit, Sweeps
  <2>3. WorkTyped BY <2>2, NoCallIsACall DEF Life!PLInit, WorkTyped, Life!Steps
  <2>4. LifeCounted BY <2>0 DEF Life!PLInit, LifeCounted
  <2>. QED BY <2>1, <2>3, <2>4 DEF LifeTyped
<1>2. LifeStages
  BY DEF Life!PLInit, LifeStages, CreateStage, UndoStage, CopyStage, ChangeStage, DeleteStage,
     KeptAlone, MarkedThere, SettledWhole, SweepStage, Life!OwnData, Life!KeptUntilPurged,
     Life!PromotedPair, Life!Converged, Creating, HasSpace, HasData, Life!CreateSteps,
     Life!ChangeSteps, Life!DeleteSteps, Life!Have
<1>. QED BY <1>1, <1>2 DEF LifeInv

(* So every step keeps it.                                                   *)
LEMMA LifeKept == ASSUME LifeInv, OnlyReaper, Life!PLNext PROVE LifeInv'
<1>1. CASE \/ \E seed \in {"none", "template", "env"} : Life!BeginCreate(seed)
           \/ Life!Register \/ Life!RefuseName \/ Life!MakeWorkspace \/ Life!MakeWorktrees
               \/ Life!CreateDatabase
           \/ Life!SeedTemplate \/ Life!StopSource \/ Life!CopyDatabase \/ Life!CopyFilestore
               \/ Life!RunContainer
           \/ Life!FinishCreate
  BY <1>1, BeginCreateKeeps, RegisterKeeps, RefuseNameKeeps, MakeWorkspaceKeeps,
     MakeWorktreesKeeps, CreateDatabaseKeeps, SeedTemplateKeeps, StopSourceKeeps,
     CopyDatabaseKeeps, CopyFilestoreKeeps, RunContainerKeeps, FinishCreateKeeps
<1>2. CASE Life!CreateFails \/ Life!UndoContainer \/ Life!UndoData \/ Life!UndoRecord
             \/ Life!UndoMark
  BY <1>2, CreateFailsKeeps, UndoContainerKeeps, UndoDataKeeps, UndoRecordKeeps, UndoMarkKeeps
<1>3. CASE (\E drop \in BOOLEAN : Life!BeginDelete(drop)) \/ Life!RemoveContainer \/ Life!DeleteData
           \/ Life!DeleteRecord
  BY <1>3, BeginDeleteKeeps, RemoveContainerKeeps, DeleteDataKeeps, DeleteRecordKeeps
<1>4. CASE (\E who \in Sweepers : Life!BeginSweep(who)) \/ Life!ClearStale \/ Life!PassBy
             \/ Life!FindDue \/ Life!LockName
           \/ Life!DropDatabase \/ Life!RemoveWorkspace
  BY <1>4, BeginSweepKeeps, ClearStaleKeeps, PassByKeeps, FindDueKeeps, LockNameKeeps,
     DropDatabaseKeeps, RemoveWorkspaceKeeps
<1>5. CASE (\E updates \in Life!Changes, force \in BOOLEAN : Life!BeginChange(updates, force))
           \/ Life!ChangeRecord \/ Life!Converge \/ Life!ConvergeAddons \/ Life!RemoveOld
               \/ Life!SwapClone \/ Life!RunChanged
           \/ Life!Judge \/ Life!ChangeFails
  BY <1>5, BeginChangeKeeps, ChangeRecordKeeps, ConvergeKeeps, ConvergeAddonsKeeps, RemoveOldKeeps,
     SwapCloneKeeps, RunChangedKeeps, JudgeKeeps, ChangeFailsKeeps
<1>6. CASE Life!UserWrites \/ Life!StartOrStop \/ Life!Die
  BY <1>6, UserWritesKeeps, StartOrStopKeeps, LifeDieKeeps
<1>. QED BY <1>1, <1>2, <1>3, <1>4, <1>5, <1>6 DEF Life!PLNext

-----------------------------------------------------------------------------
(* The life of a production, when it is in focus.                            *)

LifeHolds == focus = "life" => LifeInv

(* The run keeps one list of its variables, the component another.           *)
LEMMA LifeStandsStill == UNCHANGED prodVars => UNCHANGED Life!prodVars
BY DEF prodVars, Life!prodVars, Life!history, Life!bounded

LEMMA LivesKept == ASSUME OnlyReaper PROVE ProductionsSpec => []LifeHolds
<1>1. ProductionsInit => LifeHolds BY LifeInitially DEF ProductionsInit, LifeHolds
<1>2. LifeHolds /\ [ProductionsNext]_<<focus, vars, deployVars, prodVars>> => LifeHolds'
  <2>1. ASSUME LifeHolds, ProductionsNext PROVE LifeHolds'
    BY <2>1, LifeKept, LifeStands, LifeStandsStill DEF LifeHolds, ProductionsNext
  <2>2. ASSUME LifeHolds, UNCHANGED <<focus, vars, deployVars, prodVars>> PROVE LifeHolds'
    BY <2>2, LifeStands, LifeStandsStill DEF LifeHolds
  <2>. QED BY <2>1, <2>2
<1>. QED BY <1>1, <1>2, PTL DEF ProductionsSpec

(* The record, its parts, the operation under way and the purge keep types.   *)
THEOREM LifeTypes == ASSUME OnlyReaper PROVE ProductionsSpec => [](focus = "life" => Life!PLTypeOK)
<1>1. LifeHolds => (focus = "life" => Life!PLTypeOK)
  BY DEF LifeHolds, LifeInv, LifeTyped, ThingsTyped, WorkTyped, Calls, Sweeps, LifeCounted,
     Life!PLTypeOK
<1>. QED BY <1>1, LivesKept, PTL

(* A production that was created has the database and the workspace of its    *)
(* own creation, whatever failed before, and whatever purge of an earlier one *)
(* of its name was under way.                                                 *)
THEOREM OwnDataOnly == ASSUME OnlyReaper PROVE ProductionsSpec => []OwnData
<1>1. LifeHolds => OwnData BY DEF LifeHolds, LifeInv, LifeStages, OwnData
<1>. QED BY <1>1, LivesKept, PTL

(* A deletion that keeps the data leaves both halves of it, marked for the    *)
(* purge, until the purge takes them (delete_production).                     *)
THEOREM KeptIsThere == ASSUME OnlyReaper PROVE ProductionsSpec => []KeptUntilPurged
<1>1. LifeHolds => KeptUntilPurged BY DEF LifeHolds, LifeInv, LifeStages, KeptUntilPurged
<1>. QED BY <1>1, LivesKept, PTL

(* A promotion copies a database and files that belong together, although the *)
(* environment it copies from was in use before (create_production).          *)
THEOREM PromotionsArePairs == ASSUME OnlyReaper PROVE ProductionsSpec => []PromotedPair
<1>1. LifeHolds => PromotedPair BY DEF LifeHolds, LifeInv, LifeStages, PromotedPair
<1>. QED BY <1>1, LivesKept, PTL

(* When a reconfiguration has returned, checkout and container are what the   *)
(* record says, however many failed before it (reconfigure_production).       *)
THEOREM ReconfiguredConverged == ASSUME OnlyReaper PROVE ProductionsSpec => []Converged
<1>1. LifeHolds => Converged BY DEF LifeHolds, LifeInv, LifeStages, Converged
<1>. QED BY <1>1, LivesKept, PTL
=============================================================================
