--------------------------- MODULE MCBackupStore ---------------------------
(* TLC instances of BackupStore: the contents a filestore may have.        *)
EXTENDS BackupStore, TLC

CONSTANTS t1, t2, d1, d2, d3, m1, m2

(* Two contents that share the data chunk d2.                              *)
SharedData == t1 :> {d1, d2} @@ t2 :> {d2, d3}
TwoMeta    == t1 :> {m1} @@ t2 :> {m2}

Symmetry == Permutations(Prods)
=============================================================================
