--------------------------- MODULE SnapshotVault ---------------------------
(***************************************************************************)
(* What the backups of a team promise: a snapshot, once taken, can be      *)
(* restored with the content it was taken with until retention expires it, *)
(* and retention never expires the newest snapshot of a production.        *)
(* BackupStore is shown to implement it.                                   *)
(***************************************************************************)
EXTENDS Naturals

CONSTANTS Prods, Trees, MaxRev

VARIABLE vault      \* the snapshots that can be restored

Snapshots == [prod : Prods, rev : 1..MaxRev, tree : Trees]

Init == vault = {}

Take(s) ==
    /\ \A o \in vault : o.prod = s.prod => o.rev < s.rev
    /\ vault' = vault \cup {s}

Expire(gone) ==
    /\ \A s \in gone : \E o \in vault \ gone : o.prod = s.prod /\ o.rev > s.rev
    /\ vault' = vault \ gone

Next == \/ \E s \in Snapshots : Take(s)
        \/ \E gone \in SUBSET vault : Expire(gone)

Spec == Init /\ [][Next]_vault
=============================================================================
