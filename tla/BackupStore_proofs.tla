------------------------- MODULE BackupStore_proofs -------------------------
(***************************************************************************)
(* Theorems about BackupStore, for every set of productions and contents.  *)
(*                                                                         *)
(* Typing holds of the store as it is.  The others assume ~PreUpdate: all  *)
(* snapshots hold the store's lock, as the comments of the code say.  What *)
(* happens without it is shown by runs of TLC.                             *)
(***************************************************************************)
EXTENDS BackupStore, TLAPS

(* A snapshot holds the lock while it runs, and so does a prune.           *)
LockInv ==
    /\ \A p \in Prods : snap[p].pc # "idle" => holder = p /\ snap[p].locked
    /\ prune.pc # "idle" => holder = Pruner

(* What retention must not touch: revisions with a manifest, and the       *)
(* newest of each production, on which the next backup builds.             *)
Protected(p, n) == <<p, n>> \in manifests \/ IsLatest(p, n)

ProtectedWhole == \A p \in Prods, n \in Revs : Protected(p, n) => Whole(p, n)

(* A backup in progress counts on chunks that are there, under the next    *)
(* free number.                                                            *)
BackupInv ==
    /\ SplicedChunksExist
    /\ \A p \in Prods :
        /\ snap[p].pc = "uploading" => IsLatest(p, snap[p].rev - 1)
        /\ snap[p].pc = "publishing" => IsLatest(p, snap[p].rev)

(* Retention keeps the revisions of all surviving manifests, and once the  *)
(* collection is planned it leaves everything protected alone.             *)
PruneInv ==
    /\ prune.pc \in {"manifests", "sweep"} =>
        \A p \in prune.listed \ prune.pending, n \in Revs :
            <<p, n>> \in manifests => n \in prune.keep[p]
    /\ prune.pc = "sweep" => prune.pending = {}
    /\ prune.pc \in {"fossilize", "delete"} =>
        \A p \in Prods, n \in Revs : Protected(p, n) =>
            <<p, n>> \notin prune.targets /\ RefsOf(revs[p][n]) \cap prune.doomed = {}

Inv == TypeOK /\ LockInv /\ ProtectedWhole /\ BackupInv /\ PruneInv

-----------------------------------------------------------------------------
(* The references of a content are chunks.                                 *)
LEMMA Refs == \A t \in Trees : RefsOf(t) \in SUBSET Chunks
BY StoreConstants DEF RefsOf

(* So are those of any set of stored revisions.                            *)
LEMMA ReferencesType ==
    ASSUME TypeOK, NEW pn \in SUBSET Stored
    PROVE  References(pn) \in SUBSET Chunks
<1>1. \A x \in pn : revs[x[1]][x[2]] \in Trees
  BY DEF Stored, HasRev, TypeOK
<1> QED
  BY <1>1, Refs DEF References

(* A snapshot that is published keeps its type.                            *)
LEMMA Published ==
    ASSUME NEW s \in SnapType PROVE [s EXCEPT !.pc = "publishing"] \in SnapType
  BY DEF SnapType

(* So do a snapshot with other chunks to send, and a prune's changed sets. *)
LEMMA Fields ==
    /\ \A s \in SnapType : \A A, B \in SUBSET Chunks :
          [s EXCEPT !.todo = A, !.putting = B] \in SnapType
    /\ \A q \in PruneType : \A A, B \in SUBSET Chunks :
          /\ [q EXCEPT !.doomed = A] \in PruneType
          /\ [q EXCEPT !.doomed = A, !.moved = B] \in PruneType
<1>1. \A s \in SnapType : \A A, B \in SUBSET Chunks :
          [s EXCEPT !.todo = A, !.putting = B] \in SnapType
  BY DEF SnapType
<1>2. \A q \in PruneType : \A A, B \in SUBSET Chunks :
          [q EXCEPT !.doomed = A, !.moved = B] \in PruneType
  BY DEF PruneType
<1>3. \A q \in PruneType : \A A \in SUBSET Chunks : [q EXCEPT !.doomed = A] \in PruneType
  BY DEF PruneType
<1> QED
  BY <1>1, <1>2, <1>3

(* Every action keeps the types.                                           *)
LEMMA Typing == Spec => []TypeOK
<1> USE StoreConstants
<1>1. Init => TypeOK
  BY DEF Init, TypeOK, Idle, NotPruning, Revs, SnapType, PruneType
<1>2. TypeOK /\ [Next]_vars => TypeOK'
  <2> SUFFICES ASSUME TypeOK, [Next]_vars PROVE TypeOK'
    OBVIOUS
  <2> USE DEF TypeOK, store
  <2>1. ASSUME NEW p \in Prods, CreateProduction(p)
        PROVE TypeOK'
    BY <2>1 DEF CreateProduction
  <2>2. ASSUME NEW p \in Prods, DeleteProduction(p)
        PROVE TypeOK'
    BY <2>2 DEF DeleteProduction
  <2>3. ASSUME NEW p \in Prods, NEW t \in Trees, SnapshotProduction(p, t)
        PROVE TypeOK'
    BY <2>3, Refs DEF SnapshotProduction, Backup, SnapType, Revs
  <2>4. ASSUME NEW p \in Prods, NEW t \in Trees, PreUpdateSnapshot(p, t)
        PROVE TypeOK'
    BY <2>4, Refs DEF PreUpdateSnapshot, Backup, SnapType, Revs
  <2>5. ASSUME NEW p \in Prods, NEW c \in Chunks, ChunkExists(p, c)
        PROVE TypeOK'
    <3>1. snap' \in [Prods -> SnapType]
      <4>1. /\ snap[p] \in SnapType /\ snap[p].todo \in SUBSET Chunks
            /\ snap[p].putting \in SUBSET Chunks
        BY DEF SnapType
      <4> DEFINE left == snap[p].todo \ {c}
                 put  == IF c \in chunks THEN snap[p].putting ELSE snap[p].putting \cup {c}
                 r    == [snap[p] EXCEPT !.todo = left, !.putting = put]
      <4>2. r \in SnapType
        <5>1. left \in SUBSET Chunks /\ put \in SUBSET Chunks
          BY <4>1
        <5> HIDE DEF left, put
        <5> QED
          BY <4>1, <5>1, Fields
      <4> QED
        <5>1. snap' = [snap EXCEPT ![p] = r]
          BY <2>5 DEF ChunkExists
        <5> HIDE DEF r
        <5> QED
          BY <4>2, <5>1
    <3>2. \A q \in Prods : /\ snap'[q].pc = snap[q].pc /\ snap'[q].rev = snap[q].rev
                           /\ snap'[q].tree = snap[q].tree
      BY <2>5 DEF ChunkExists, SnapType
    <3> QED
      BY <2>5, <3>1, <3>2 DEF ChunkExists
  <2>6. ASSUME NEW p \in Prods, NEW c \in Chunks, PutChunk(p, c)
        PROVE TypeOK'
    <3>1. snap' \in [Prods -> SnapType]
      BY <2>6 DEF PutChunk, SnapType
    <3>2. \A q \in Prods : /\ snap'[q].pc = snap[q].pc /\ snap'[q].rev = snap[q].rev
                           /\ snap'[q].tree = snap[q].tree
      BY <2>6 DEF PutChunk, SnapType
    <3> QED
      BY <2>6, <3>1, <3>2 DEF PutChunk
  <2>7. ASSUME NEW p \in Prods, PutRevision(p)
        PROVE TypeOK'
    <3>1. snap[p].rev \in Revs /\ snap[p].tree \in Trees
      BY <2>7 DEF PutRevision
    <3>2. revs' \in [Prods -> [Revs -> Trees \cup {NoTree}]]
      BY <2>7, <3>1 DEF PutRevision
    <3>3. snap' \in [Prods -> SnapType]
      <4> DEFINE r == [snap[p] EXCEPT !.pc = "publishing"]
      <4>1. r \in SnapType
        <5>1. snap[p] \in SnapType
          OBVIOUS
        <5> QED
          BY <5>1, Published
      <4>2. snap' = [snap EXCEPT ![p] = r]
        BY <2>7 DEF PutRevision
      <4> HIDE DEF r
      <4> QED
        BY <4>1, <4>2
    <3>4. \A q \in Prods : /\ snap'[q].pc # "idle" => snap[q].pc # "idle"
                           /\ snap'[q].rev = snap[q].rev /\ snap'[q].tree = snap[q].tree
      BY <2>7 DEF PutRevision, SnapType
    <3> QED
      BY <2>7, <3>2, <3>3, <3>4 DEF PutRevision
  <2>8. ASSUME NEW p \in Prods, PutManifest(p)
        PROVE TypeOK'
    BY <2>8 DEF PutManifest, Release, Idle, SnapType, Revs
  <2>9. ASSUME NEW p \in Prods, FailSnapshot(p)
        PROVE TypeOK'
    BY <2>9, Refs DEF FailSnapshot, Release, Idle, SnapType, Revs
  <2>10. ASSUME StartPrune
        PROVE TypeOK'
    <3>1. prune' \in PruneType
      <4>1. NotPruning \in PruneType
        BY DEF NotPruning, PruneType
      <4> QED
        BY <2>10, <4>1 DEF StartPrune, PruneType
    <3> QED
      BY <2>10, <3>1 DEF StartPrune
  <2>11. ASSUME NEW p \in Prods, NEW kept \in SUBSET Revs, RetainManifests(p, kept)
        PROVE TypeOK'
    BY <2>11 DEF RetainManifests, PruneType, CollType
  <2>12. ASSUME NEW p \in Prods, ProductionGone(p)
        PROVE TypeOK'
    BY <2>12 DEF ProductionGone, AbandonPrune, NotPruning, PruneType
  <2>13. ASSUME NEW last \in [Prods -> 0..MaxRev], Sweep(last)
        PROVE TypeOK'
    BY <2>13, ReferencesType DEF Sweep, PruneType, CollType
  <2>14. ASSUME NEW coll, NEW c \in Chunks, SweepFossil(coll, c)
        PROVE TypeOK'
    BY <2>14 DEF SweepFossil, PruneType, CollType
  <2>15. ASSUME NEW coll, SweepCollection(coll)
        PROVE TypeOK'
    BY <2>15 DEF SweepCollection, PruneType, CollType
  <2>16. ASSUME NEW last \in [Prods -> 0..MaxRev], NothingToPrune(last)
        PROVE TypeOK'
    BY <2>16 DEF NothingToPrune, AbandonPrune, NotPruning, PruneType
  <2>17. ASSUME NEW last \in [Prods -> 0..MaxRev], KeptUnreadable(last)
        PROVE TypeOK'
    BY <2>17 DEF KeptUnreadable, AbandonPrune, NotPruning, PruneType
  <2>18. ASSUME NEW last \in [Prods -> 0..MaxRev], Collect(last)
        PROVE TypeOK'
    <3>0. Stored \subseteq Prods \X Revs
      BY DEF Stored
    <3>1. prune' \in PruneType
      BY <2>18, ReferencesType, <3>0 DEF Collect, PruneType, CollType
    <3> QED
      BY <2>18, <3>1 DEF Collect
  <2>19. ASSUME NEW c \in Chunks, Fossilize(c)
        PROVE TypeOK'
    <3>1. prune' \in PruneType
      <4>1. prune.doomed \in SUBSET Chunks /\ prune.moved \in SUBSET Chunks
        BY DEF PruneType
      <4>2. /\ [prune EXCEPT !.doomed = @ \ {c}, !.moved = @ \cup {c}] \in PruneType
            /\ [prune EXCEPT !.doomed = @ \ {c}] \in PruneType
        BY <4>1, Fields
      <4> QED
        BY <2>19, <4>2 DEF Fossilize
    <3> QED
      BY <2>19, <3>1 DEF Fossilize
  <2>20. ASSUME PutCollection
        PROVE TypeOK'
    <3>1. prune' \in PruneType
      BY <2>20 DEF PutCollection, PruneType, CollType
    <3> QED
      <4>1. [last |-> prune.last, fossils |-> prune.moved, mature |-> FALSE] \in CollType
        BY DEF PruneType, CollType
      <4> QED
        BY <2>20, <3>1, <4>1 DEF PutCollection
  <2>21. ASSUME NEW p \in Prods, NEW n \in Revs, DeleteRevision(p, n)
        PROVE TypeOK'
    BY <2>21 DEF DeleteRevision, PruneType, CollType
  <2>22. ASSUME FinishPrune
        PROVE TypeOK'
    BY <2>22 DEF FinishPrune, AbandonPrune, NotPruning, PruneType
  <2>23. ASSUME FailPrune
        PROVE TypeOK'
    BY <2>23 DEF FailPrune, AbandonPrune, NotPruning, PruneType
  <2>24. ASSUME NEW coll, Mature(coll)
        PROVE TypeOK'
    BY <2>24 DEF Mature, PruneType, CollType
  <2>25. CASE UNCHANGED vars
    BY <2>25 DEF vars
  <2> QED
    BY <2>1, <2>2, <2>3, <2>4, <2>5, <2>6, <2>7, <2>8, <2>9, <2>10, <2>11, <2>12, <2>13, <2>14,
       <2>15, <2>16, <2>17, <2>18, <2>19, <2>20, <2>21, <2>22, <2>23, <2>24, <2>25 DEF Next,
       SnapshotStep, PruneStep
<1> QED
  BY <1>1, <1>2, PTL DEF Spec

-----------------------------------------------------------------------------
(* A production has one newest revision.                                   *)
LEMMA LatestUnique ==
    ASSUME NEW p, NEW n \in 0..MaxRev, NEW m \in 0..MaxRev, IsLatest(p, n), IsLatest(p, m)
    PROVE  n = m
BY StoreConstants DEF IsLatest, HasRev, Revs

Unchanged == UNCHANGED <<holder, chunks, revs, manifests, snap, prune>>

(* Steps that touch none of the variables of Inv but colls.                *)
LEMMA UnchangedKeeps == ASSUME Inv, Unchanged
                        PROVE  LockInv' /\ ProtectedWhole' /\ BackupInv' /\ PruneInv'
<1> USE DEF Inv, Unchanged
<1>1. LockInv'
  BY DEF LockInv
<1>2. ProtectedWhole'
  BY DEF ProtectedWhole, Protected, IsLatest, HasRev, Whole
<1>3. BackupInv'
  BY DEF BackupInv, SplicedChunksExist, IsLatest, HasRev
<1>4. PruneInv'
  BY DEF PruneInv, Protected, IsLatest, HasRev
<1> QED
  BY <1>1, <1>2, <1>3, <1>4

(* A prune that ends leaves the store as it is.                            *)
LEMMA AbandonKeeps ==
    ASSUME Inv, prune.pc # "idle", AbandonPrune, UNCHANGED <<store, snap>>
    PROVE  LockInv' /\ ProtectedWhole' /\ BackupInv' /\ PruneInv'
<1> USE DEF Inv, AbandonPrune, store
<1>1. LockInv'
  BY StoreConstants DEF LockInv, NotPruning
<1>2. ProtectedWhole'
  BY DEF ProtectedWhole, Protected, IsLatest, HasRev, Whole
<1>3. BackupInv'
  BY DEF BackupInv, SplicedChunksExist, IsLatest, HasRev
<1>4. PruneInv'
  BY DEF PruneInv, NotPruning
<1> QED
  BY <1>1, <1>2, <1>3, <1>4

(* While a prune holds the lock no snapshot runs, and the reverse.         *)
LEMMA OneAtATime ==
    ASSUME LockInv
    PROVE  /\ prune.pc # "idle" => \A p \in Prods : snap[p].pc = "idle"
           /\ \A p \in Prods : snap[p].pc # "idle" =>
                 prune.pc = "idle" /\ \A q \in Prods \ {p} : snap[q].pc = "idle"
BY StoreConstants DEF LockInv

(* The actions of a snapshot keep the invariant.                           *)
LEMMA SnapshotKeeps ==
    ASSUME Inv, TypeOK', ~PreUpdate, NEW p \in Prods, SnapshotStep(p)
    PROVE  LockInv' /\ ProtectedWhole' /\ BackupInv' /\ PruneInv'
<1> USE DEF Inv
<1>0. (\A q \in Prods \ {p} : snap'[q] = snap[q]) /\ prune' = prune
  <2> DEFINE Others == (\A q \in Prods \ {p} : snap'[q] = snap[q]) /\ prune' = prune
  <2> USE DEF TypeOK
  <2>1. ASSUME NEW t \in Trees, SnapshotProduction(p, t) PROVE Others
    BY <2>1 DEF SnapshotProduction, Backup
  <2>2. ASSUME NEW c \in Chunks, ChunkExists(p, c) \/ PutChunk(p, c) PROVE Others
    BY <2>2 DEF ChunkExists, PutChunk
  <2>3. ASSUME PutRevision(p) \/ PutManifest(p) \/ FailSnapshot(p) PROVE Others
    BY <2>3 DEF PutRevision, PutManifest, FailSnapshot
  <2> QED
    BY <2>1, <2>2, <2>3 DEF SnapshotStep, PreUpdateSnapshot
<1>1. ASSUME NEW t \in Trees, SnapshotProduction(p, t)
      PROVE  LockInv' /\ ProtectedWhole' /\ BackupInv' /\ PruneInv'
  <2>0. holder = NoOne /\ prune.pc = "idle" /\ \A q \in Prods : snap[q].pc = "idle"
    BY <1>1, StoreConstants DEF SnapshotProduction, LockInv
  <2>1. PICK last \in 0..MaxRev :
          /\ IsLatest(p, last) /\ last < MaxRev
          /\ snap'[p] = [pc |-> "uploading", locked |-> TRUE, rev |-> last + 1, tree |-> t,
                         todo |-> RefsOf(t) \ KnownOf(p, last), putting |-> {}]
    BY <1>1 DEF SnapshotProduction, Backup, TypeOK
  <2>2. UNCHANGED <<store, prune>> /\ holder' = p
    BY <1>1 DEF SnapshotProduction, Backup
  <2>3. LockInv'
    BY <1>0, <2>0, <2>1, <2>2 DEF LockInv
  <2>4. ProtectedWhole'
    BY <2>2 DEF store, ProtectedWhole, Protected, IsLatest, HasRev, Whole
  <2>5. KnownOf(p, last) \subseteq chunks
    <3>1. CASE last # 0 /\ Readable(p, last)
      <4>1. last \in Revs
        BY <3>1, StoreConstants DEF Revs
      <4>2. Whole(p, last)
        BY <4>1, <2>1 DEF ProtectedWhole, Protected
      <4> QED
        BY <3>1, <4>2 DEF KnownOf, Whole, RefsOf
    <3>2. CASE ~(last # 0 /\ Readable(p, last))
      BY <3>2 DEF KnownOf
    <3> QED
      BY <3>1, <3>2
  <2>6. BackupInv'
    <3>1. SplicedChunksExist'
      BY <1>0, <2>0, <2>1, <2>2, <2>5 DEF SplicedChunksExist, store
    <3>2. last + 1 - 1 = last
      BY <2>1
    <3>3. \A q \in Prods : \A n : IsLatest(q, n)' <=> IsLatest(q, n)
      BY <2>2 DEF store, IsLatest, HasRev
    <3>4. ASSUME NEW q \in Prods
          PROVE  /\ snap'[q].pc = "uploading" => IsLatest(q, snap'[q].rev - 1)
                 /\ snap'[q].pc = "publishing" => IsLatest(q, snap'[q].rev)
      <4>1. CASE q = p
        BY <4>1, <2>1, <3>2
      <4>2. CASE q # p
        BY <4>2, <1>0, <2>0
      <4> QED
        BY <4>1, <4>2
    <3> QED
      BY <3>1, <3>3, <3>4 DEF BackupInv
  <2>7. PruneInv'
    BY <2>0, <2>2 DEF PruneInv
  <2> QED
    BY <2>3, <2>4, <2>6, <2>7
<1>2. ASSUME NEW c \in Chunks, ChunkExists(p, c) \/ PutChunk(p, c)
      PROVE  LockInv' /\ ProtectedWhole' /\ BackupInv' /\ PruneInv'
  <2>1. /\ UNCHANGED <<holder, revs, manifests, prune>>
        /\ chunks \subseteq chunks' /\ chunks' \subseteq chunks \cup {c}
    BY <1>2 DEF ChunkExists, PutChunk, store
  <2>2. /\ snap'[p].pc = snap[p].pc /\ snap'[p].locked = snap[p].locked
        /\ snap'[p].rev = snap[p].rev /\ snap'[p].tree = snap[p].tree
        /\ snap[p].todo \cup snap[p].putting
             \subseteq snap'[p].todo \cup snap'[p].putting \cup chunks'
    <3>1. CASE ChunkExists(p, c)
      BY <3>1 DEF ChunkExists, TypeOK, SnapType, store
    <3>2. CASE PutChunk(p, c)
      BY <3>2 DEF PutChunk, TypeOK, SnapType
    <3> QED
      BY <1>2, <3>1, <3>2
  <2>3. LockInv'
    BY <1>0, <2>1, <2>2 DEF LockInv
  <2>4. ProtectedWhole'
    BY <2>1 DEF ProtectedWhole, Protected, IsLatest, HasRev, Whole
  <2>5. BackupInv'
    <3>1. SplicedChunksExist'
      BY <1>0, <2>1, <2>2 DEF BackupInv, SplicedChunksExist
    <3>2. \A q \in Prods : snap'[q].pc = snap[q].pc /\ snap'[q].rev = snap[q].rev
      BY <1>0, <2>2
    <3> QED
      BY <2>1, <3>1, <3>2 DEF BackupInv, IsLatest, HasRev
  <2>6. PruneInv'
    BY <2>1 DEF PruneInv, Protected, IsLatest, HasRev
  <2> QED
    BY <2>3, <2>4, <2>5, <2>6
<1>3. ASSUME PutRevision(p)
      PROVE  LockInv' /\ ProtectedWhole' /\ BackupInv' /\ PruneInv'
  <2> DEFINE r == snap[p].rev
             t == snap[p].tree
  <2>0. /\ snap[p].pc = "uploading" /\ snap'[p].pc = "publishing"
        /\ snap'[p].locked = snap[p].locked /\ snap'[p].rev = r
        /\ UNCHANGED <<holder, chunks, manifests, prune>>
        /\ r \in Revs /\ t \in Trees /\ r - 1 \in 0..MaxRev /\ r - 1 < r
        /\ \A q \in Prods : q # p => snap[q].pc = "idle" /\ snap'[q].pc = "idle"
        /\ prune.pc = "idle"
    BY <1>0, <1>3, OneAtATime, StoreConstants DEF PutRevision, TypeOK, SnapType, Revs
  <2>1. /\ \A q \in Prods, n \in Revs : q # p \/ n # r => revs'[q][n] = revs[q][n]
        /\ revs'[p][r] = t
    BY <1>3, <2>0 DEF PutRevision, TypeOK
  <2>2. RefsOf(t) \subseteq chunks
    BY <1>3 DEF PutRevision, BackupInv, SplicedChunksExist
  <2>3. IsLatest(p, r)' /\ \A m \in Revs : IsLatest(p, m)' => m = r
    <3>1. HasRev(p, r)'
      BY <2>0, <2>1, StoreConstants DEF HasRev
    <3>2. \A m \in Revs : HasRev(p, m)' => m <= r
      BY <2>0, <2>1, StoreConstants DEF HasRev, BackupInv, IsLatest, Revs
    <3> QED
      BY <3>1, <3>2, <2>0, StoreConstants DEF IsLatest, Revs
  <2>4. LockInv'
    BY <1>0, <2>0 DEF LockInv
  <2>5. ProtectedWhole'
    <3> SUFFICES ASSUME NEW q \in Prods, NEW n \in Revs, Protected(q, n)'
                 PROVE  Whole(q, n)'
      BY DEF ProtectedWhole
    <3>1. CASE q = p /\ n = r
      BY <3>1, <2>0, <2>1, <2>2, StoreConstants DEF Whole, HasRev
    <3>2. CASE q = p /\ n # r
      <4>1. <<q, n>> \in manifests
        BY <3>2, <2>0, <2>3 DEF Protected
      <4> QED
        BY <3>2, <4>1, <2>0, <2>1 DEF ProtectedWhole, Protected, Whole, HasRev
    <3>3. CASE q # p
      <4>1. Protected(q, n)
        BY <3>3, <2>0, <2>1 DEF Protected, IsLatest, HasRev
      <4> QED
        BY <3>3, <4>1, <2>0, <2>1 DEF ProtectedWhole, Whole, HasRev
    <3> QED
      BY <3>1, <3>2, <3>3
  <2>6. BackupInv'
    BY <2>0, <2>3 DEF BackupInv, SplicedChunksExist
  <2>7. PruneInv'
    BY <2>0 DEF PruneInv
  <2> QED
    BY <2>4, <2>5, <2>6, <2>7
<1>4. ASSUME PutManifest(p) \/ FailSnapshot(p)
      PROVE  LockInv' /\ ProtectedWhole' /\ BackupInv' /\ PruneInv'
  <2>0. /\ snap[p].pc # "idle" /\ snap'[p] = Idle
        /\ UNCHANGED <<chunks, revs, prune>> /\ holder' = NoOne
        /\ \A q \in Prods : q # p => snap[q].pc = "idle" /\ snap'[q].pc = "idle"
        /\ prune.pc = "idle"
    BY <1>0, <1>4, OneAtATime
       DEF PutManifest, FailSnapshot, store, Release, LockInv, TypeOK, SnapType
  <2>1. \A q \in Prods : snap'[q].pc = "idle"
    BY <2>0 DEF Idle
  <2>2. LockInv'
    BY <2>0, <2>1 DEF LockInv
  <2>3. ProtectedWhole'
    <3>1. CASE PutManifest(p)
      BY <2>0, <3>1 DEF PutManifest, ProtectedWhole, Protected, IsLatest, HasRev, Whole, BackupInv
    <3>2. CASE FailSnapshot(p)
      BY <2>0, <3>2 DEF FailSnapshot, store, ProtectedWhole, Protected, IsLatest, HasRev, Whole
    <3> QED
      BY <1>4, <3>1, <3>2
  <2>4. BackupInv'
    BY <2>1 DEF BackupInv, SplicedChunksExist
  <2>5. PruneInv'
    BY <2>0 DEF PruneInv
  <2> QED
    BY <2>2, <2>3, <2>4, <2>5
<1> QED
  BY <1>1, <1>2, <1>3, <1>4 DEF SnapshotStep, PreUpdateSnapshot

(* The actions of a prune keep the invariant.                              *)
LEMMA PruneKeeps ==
    ASSUME Inv, TypeOK', PruneStep
    PROVE  LockInv' /\ ProtectedWhole' /\ BackupInv' /\ PruneInv'
<1> USE DEF Inv
<1>1. ASSUME StartPrune
      PROVE  LockInv' /\ ProtectedWhole' /\ BackupInv' /\ PruneInv'
  <2>0. /\ UNCHANGED <<store, snap>> /\ holder = NoOne /\ holder' = Pruner
        /\ prune' = [NotPruning EXCEPT !.pc = "manifests", !.listed = tracked, !.pending = tracked]
    BY <1>1 DEF StartPrune
  <2>1. prune'.pc = "manifests" /\ prune'.listed = prune'.pending
    BY <2>0 DEF NotPruning
  <2>2. LockInv'
    BY <2>0, StoreConstants DEF LockInv
  <2>3. ProtectedWhole'
    BY <2>0 DEF store, ProtectedWhole, Protected, IsLatest, HasRev, Whole
  <2>4. BackupInv'
    BY <2>0 DEF store, BackupInv, SplicedChunksExist, IsLatest, HasRev
  <2>5. PruneInv'
    BY <2>1 DEF PruneInv
  <2> QED
    BY <2>2, <2>3, <2>4, <2>5
<1>2. ASSUME NEW p \in Prods, NEW kept \in SUBSET Revs, RetainManifests(p, kept)
      PROVE  LockInv' /\ ProtectedWhole' /\ BackupInv' /\ PruneInv'
  <2>0. /\ UNCHANGED <<holder, chunks, revs, snap>>
        /\ manifests' = {x \in manifests : x[1] = p => x[2] \in kept}
        /\ prune.pc = "manifests" /\ prune'.pc = "manifests"
        /\ prune'.listed = prune.listed /\ prune'.pending = prune.pending \ {p}
        /\ prune'.keep[p] = kept
        /\ \A q \in Prods : q # p => prune'.keep[q] = prune.keep[q]
        /\ prune.listed \subseteq Prods
    BY <1>2 DEF RetainManifests, TypeOK, PruneType
  <2>1. manifests' \subseteq manifests
    BY <2>0
  <2>2. LockInv'
    BY <2>0 DEF LockInv
  <2>3. ProtectedWhole'
    BY <2>0, <2>1 DEF ProtectedWhole, Protected, IsLatest, HasRev, Whole
  <2>4. BackupInv'
    BY <2>0 DEF BackupInv, SplicedChunksExist, IsLatest, HasRev
  <2>5. PruneInv'
    <3>1. ASSUME NEW q \in prune'.listed \ prune'.pending, NEW n \in Revs,
                 <<q, n>> \in manifests'
          PROVE  n \in prune'.keep[q]
      <4>1. CASE q = p
        BY <3>1, <4>1, <2>0
      <4>2. CASE q # p
        BY <3>1, <4>2, <2>0, <2>1 DEF PruneInv
      <4> QED
        BY <4>1, <4>2
    <3> QED
      BY <3>1, <2>0 DEF PruneInv
  <2> QED
    BY <2>2, <2>3, <2>4, <2>5
<1>3. ASSUME NEW last, Sweep(last)
      PROVE  LockInv' /\ ProtectedWhole' /\ BackupInv' /\ PruneInv'
  <2>0. /\ UNCHANGED <<holder, store, snap>>
        /\ prune.pc = "manifests" /\ prune.pending = {} /\ prune'.pc = "sweep"
        /\ prune'.listed = prune.listed /\ prune'.pending = prune.pending
        /\ prune'.keep = prune.keep
    BY <1>3 DEF Sweep, TypeOK, PruneType
  <2>2. LockInv'
    BY <2>0 DEF LockInv
  <2>3. ProtectedWhole'
    BY <2>0 DEF store, ProtectedWhole, Protected, IsLatest, HasRev, Whole
  <2>4. BackupInv'
    BY <2>0 DEF store, BackupInv, SplicedChunksExist, IsLatest, HasRev
  <2>5. PruneInv'
    BY <2>0 DEF PruneInv, store
  <2> QED
    BY <2>2, <2>3, <2>4, <2>5
<1>4. ASSUME NEW coll, SweepCollection(coll) \/ \E c \in Chunks : SweepFossil(coll, c)
      PROVE  LockInv' /\ ProtectedWhole' /\ BackupInv' /\ PruneInv'
  <2>0. /\ UNCHANGED <<holder, revs, manifests, snap>> /\ chunks \subseteq chunks'
        /\ prune.pc = "sweep" /\ prune'.pc = "sweep"
        /\ prune'.listed = prune.listed /\ prune'.pending = prune.pending
        /\ prune'.keep = prune.keep
    BY <1>4 DEF SweepFossil, SweepCollection, TypeOK, PruneType
  <2>2. LockInv'
    BY <2>0 DEF LockInv
  <2>3. ProtectedWhole'
    BY <2>0 DEF ProtectedWhole, Protected, IsLatest, HasRev, Whole
  <2>4. BackupInv'
    BY <2>0 DEF BackupInv, SplicedChunksExist, IsLatest, HasRev
  <2>5. PruneInv'
    BY <2>0 DEF PruneInv
  <2> QED
    BY <2>2, <2>3, <2>4, <2>5
<1>5. ASSUME NEW last \in [Prods -> 0..MaxRev], Collect(last)
      PROVE  LockInv' /\ ProtectedWhole' /\ BackupInv' /\ PruneInv'
  <2> DEFINE kept == KeptRevs(last)
  <2>0. /\ UNCHANGED <<holder, store, snap>>
        /\ prune.pc = "sweep" /\ Latest(last) /\ AllReadable(kept)
        /\ prune'.pc = "fossilize" /\ prune'.targets = Stored \ kept
        /\ prune'.doomed = References(Stored \ kept) \ References(kept)
    BY <1>5 DEF Collect, CollectReady, TypeOK, PruneType
  <2>2. LockInv'
    BY <2>0 DEF LockInv
  <2>3. ProtectedWhole'
    BY <2>0 DEF store, ProtectedWhole, Protected, IsLatest, HasRev, Whole
  <2>4. BackupInv'
    BY <2>0 DEF store, BackupInv, SplicedChunksExist, IsLatest, HasRev
  <2>5. ASSUME NEW p \in Prods, NEW n \in Revs, Protected(p, n)
        PROVE  <<p, n>> \in kept
    <3>1. <<p, n>> \in Stored
      BY <2>5 DEF ProtectedWhole, Whole, Stored
    <3>2. CASE <<p, n>> \in manifests
      BY <2>0, <3>1, <3>2 DEF PruneInv, KeptRevs
    <3>3. CASE IsLatest(p, n)
      <4>1. last[p] \in 0..MaxRev /\ n \in 0..MaxRev /\ IsLatest(p, last[p])
        BY <2>0, StoreConstants DEF Latest, Revs
      <4>2. n = last[p]
        BY <3>3, <4>1, LatestUnique
      <4> QED
        BY <3>1, <4>2 DEF KeptRevs
    <3> QED
      BY <2>5, <3>2, <3>3 DEF Protected
  <2>6. ASSUME NEW p \in Prods, NEW n \in Revs, <<p, n>> \in kept
        PROVE  RefsOf(revs[p][n]) \subseteq References(kept)
    BY <2>0, <2>6 DEF AllReadable, References
  <2>7. PruneInv'
    <3> HIDE DEF kept
    <3>1. ASSUME NEW p \in Prods, NEW n \in Revs, Protected(p, n)
          PROVE  /\ <<p, n>> \notin prune'.targets
                 /\ RefsOf(revs[p][n]) \cap prune'.doomed = {}
      BY <2>0, <2>5, <2>6, <3>1
    <3>2. \A p, n : Protected(p, n)' <=> Protected(p, n)
      BY <2>0 DEF store, Protected, IsLatest, HasRev
    <3> QED
      BY <2>0, <3>1, <3>2 DEF PruneInv, store
  <2> QED
    BY <2>2, <2>3, <2>4, <2>7
<1>6. ASSUME NEW c \in Chunks, Fossilize(c)
      PROVE  LockInv' /\ ProtectedWhole' /\ BackupInv' /\ PruneInv'
  <2>0. /\ UNCHANGED <<holder, revs, manifests, snap>>
        /\ chunks \ {c} \subseteq chunks' /\ c \in prune.doomed
        /\ prune.pc = "fossilize" /\ prune'.pc = "fossilize"
        /\ prune'.targets = prune.targets /\ prune'.doomed = prune.doomed \ {c}
    BY <1>6 DEF Fossilize, TypeOK, PruneType
  <2>1. \A p, n : Protected(p, n)' <=> Protected(p, n)
    BY <2>0 DEF Protected, IsLatest, HasRev
  <2>2. LockInv'
    BY <2>0 DEF LockInv
  <2>3. ProtectedWhole'
    <3> SUFFICES ASSUME NEW p \in Prods, NEW n \in Revs, Protected(p, n)
                 PROVE  Whole(p, n)'
      BY <2>1 DEF ProtectedWhole
    <3>1. HasRev(p, n) /\ RefsOf(revs[p][n]) \subseteq chunks
      BY DEF ProtectedWhole, Whole
    <3>2. RefsOf(revs[p][n]) \cap prune.doomed = {}
      BY <2>0 DEF PruneInv
    <3> QED
      BY <2>0, <3>1, <3>2 DEF Whole, HasRev
  <2>4. BackupInv'
    BY <2>0, OneAtATime DEF BackupInv, SplicedChunksExist
  <2>5. PruneInv'
    BY <2>0, <2>1 DEF PruneInv
  <2> QED
    BY <2>2, <2>3, <2>4, <2>5
<1>7. ASSUME PutCollection
      PROVE  LockInv' /\ ProtectedWhole' /\ BackupInv' /\ PruneInv'
  <2>0. /\ UNCHANGED <<holder, chunks, revs, manifests, snap>>
        /\ prune.pc = "fossilize" /\ prune'.pc = "delete"
        /\ prune'.targets = prune.targets /\ prune'.doomed = prune.doomed
    BY <1>7 DEF PutCollection, TypeOK, PruneType
  <2>1. \A p, n : Protected(p, n)' <=> Protected(p, n)
    BY <2>0 DEF Protected, IsLatest, HasRev
  <2>2. LockInv'
    BY <2>0 DEF LockInv
  <2>3. ProtectedWhole'
    BY <2>0, <2>1 DEF ProtectedWhole, HasRev, Whole
  <2>4. BackupInv'
    BY <2>0 DEF BackupInv, SplicedChunksExist, IsLatest, HasRev
  <2>5. PruneInv'
    BY <2>0, <2>1 DEF PruneInv
  <2> QED
    BY <2>2, <2>3, <2>4, <2>5
<1>8. ASSUME NEW p \in Prods, NEW n \in Revs, DeleteRevision(p, n)
      PROVE  LockInv' /\ ProtectedWhole' /\ BackupInv' /\ PruneInv'
  <2>0. /\ UNCHANGED <<holder, chunks, manifests, snap>>
        /\ prune.pc = "delete" /\ prune'.pc = "delete" /\ <<p, n>> \in prune.targets
        /\ prune'.targets = prune.targets \ {<<p, n>>} /\ prune'.doomed = prune.doomed
    BY <1>8 DEF DeleteRevision, TypeOK, PruneType
  <2>1. /\ revs'[p][n] = NoTree
        /\ \A q \in Prods, m \in Revs : <<q, m>> # <<p, n>> => revs'[q][m] = revs[q][m]
    BY <1>8 DEF DeleteRevision, TypeOK
  <2>2. ~Protected(p, n)
    BY <2>0 DEF PruneInv
  <2>3. ASSUME NEW q \in Prods, NEW m \in Revs, Protected(q, m)'
        PROVE  Protected(q, m) /\ <<q, m>> # <<p, n>>
    <3>1. CASE <<q, m>> \in manifests
      BY <3>1, <2>2 DEF Protected
    <3>2. CASE IsLatest(q, m)'
      <4>1. HasRev(q, m)' /\ \A k \in Revs : HasRev(q, k)' => k <= m
        BY <3>2 DEF IsLatest, Revs
      <4>2. <<q, m>> # <<p, n>> /\ HasRev(q, m)
        BY <4>1, <2>1 DEF HasRev
      <4>3. ASSUME NEW k \in Revs, HasRev(q, k) PROVE k <= m
        <5>1. CASE <<q, k>> = <<p, n>>
          <6>1. ~IsLatest(p, n) /\ HasRev(p, n)
            BY <2>2, <4>3, <5>1 DEF Protected
          <6>2. PICK j \in Revs : HasRev(p, j) /\ ~(j <= n)
            BY <6>1 DEF IsLatest
          <6>3. j # n
            BY <6>2 DEF Revs
          <6>4. HasRev(q, j)'
            BY <6>2, <6>3, <2>1, <5>1 DEF HasRev
          <6>5. j <= m
            BY <6>4, <4>1
          <6> QED
            BY <6>2, <6>5, <5>1 DEF Revs
        <5>2. CASE <<q, k>> # <<p, n>>
          BY <5>2, <4>3, <2>1, <4>1 DEF HasRev
        <5> QED
          BY <5>1, <5>2
      <4> QED
        BY <4>2, <4>3 DEF Protected, IsLatest
    <3> QED
      BY <2>3, <2>0, <3>1, <3>2 DEF Protected
  <2>4. LockInv'
    BY <2>0 DEF LockInv
  <2>5. ProtectedWhole'
    BY <2>0, <2>1, <2>3 DEF ProtectedWhole, Whole, HasRev
  <2>6. BackupInv'
    BY <2>0, OneAtATime DEF BackupInv, SplicedChunksExist
  <2>7. PruneInv'
    BY <2>0, <2>1, <2>3 DEF PruneInv
  <2> QED
    BY <2>4, <2>5, <2>6, <2>7
<1>9. ASSUME \/ \E p \in Prods : ProductionGone(p)
             \/ \E last \in [Prods -> 0..MaxRev] : NothingToPrune(last) \/ KeptUnreadable(last)
             \/ FinishPrune \/ FailPrune
      PROVE  LockInv' /\ ProtectedWhole' /\ BackupInv' /\ PruneInv'
  <2>1. prune.pc # "idle" /\ AbandonPrune /\ UNCHANGED <<store, snap>>
    BY <1>9 DEF ProductionGone, NothingToPrune, KeptUnreadable, CollectReady, FinishPrune, FailPrune
  <2> QED
    BY <2>1, AbandonKeeps
<1> QED
  <2>1. CASE \/ \E p \in Prods, n \in Revs : DeleteRevision(p, n)
             \/ \E p \in Prods, kept \in SUBSET Revs : RetainManifests(p, kept)
    BY <2>1, <1>2, <1>8
  <2>2. CASE \/ \E last \in [Prods -> 0..MaxRev] : Sweep(last)
             \/ \E last \in [Prods -> 0..MaxRev] : Collect(last)
    BY <2>2, <1>3, <1>5
  <2>3. CASE \/ \E coll \in prune.queue, c \in Chunks : SweepFossil(coll, c)
             \/ \E coll \in prune.queue : SweepCollection(coll)
    BY <2>3, <1>4
  <2>4. CASE StartPrune \/ PutCollection \/ \E c \in Chunks : Fossilize(c)
    BY <2>4, <1>1, <1>6, <1>7
  <2> QED
    BY <2>1, <2>2, <2>3, <2>4, <1>9 DEF PruneStep

(* The invariant holds when every snapshot takes the lock.                 *)
LEMMA Inductive == ASSUME ~PreUpdate PROVE Spec => []Inv
<1>1. Init => Inv
  <2> SUFFICES ASSUME Init PROVE LockInv /\ ProtectedWhole /\ BackupInv /\ PruneInv /\ TypeOK
    BY DEF Inv
  <2>1. /\ \A p \in Prods : snap[p].pc = "idle"
        /\ prune.pc = "idle"
    BY DEF Init, Idle, NotPruning
  <2>2. \A p \in Prods, n \in Revs : ~HasRev(p, n) /\ ~IsLatest(p, n)
    BY StoreConstants DEF Init, HasRev, IsLatest, Revs
  <2>3. TypeOK
    BY StoreConstants DEF Init, TypeOK, Idle, NotPruning, Revs, SnapType, PruneType
  <2> QED
    BY <2>1, <2>2, <2>3 DEF Init, LockInv, ProtectedWhole, Protected, BackupInv,
                            SplicedChunksExist, PruneInv
<1>2. Inv /\ TypeOK' /\ [Next]_vars => Inv'
  <2> SUFFICES ASSUME Inv, TypeOK', [Next]_vars
               PROVE  LockInv' /\ ProtectedWhole' /\ BackupInv' /\ PruneInv'
    BY DEF Inv
  <2>1. CASE \E p \in Prods : CreateProduction(p) \/ DeleteProduction(p)
    BY <2>1, UnchangedKeeps DEF CreateProduction, DeleteProduction, Unchanged, store
  <2>2. CASE \E p \in Prods : SnapshotStep(p)
    BY <2>2, SnapshotKeeps
  <2>3. CASE PruneStep
    BY <2>3, PruneKeeps
  <2>4. CASE (\E coll \in colls : Mature(coll)) \/ UNCHANGED vars
    BY <2>4, UnchangedKeeps DEF Mature, vars, Unchanged, store
  <2> QED
    BY <2>1, <2>2, <2>3, <2>4 DEF Next
<1> QED
  BY <1>1, <1>2, Typing, PTL DEF Spec

(* The store keeps its types, with or without the snapshots of deploys.    *)
THEOREM TypeCorrect == Spec => []TypeOK
BY Typing

(* When every snapshot holds the store's lock, what has a manifest can be  *)
(* restored.                                                               *)
THEOREM Restorable == ASSUME ~PreUpdate PROVE Spec => []SnapshotsRestorable
<1>1. Inv => SnapshotsRestorable
  BY DEF Inv, ProtectedWhole, Protected, SnapshotsRestorable, TypeOK
<1> QED
  BY <1>1, Inductive, PTL

(* And a chunk a backup does not upload is stored.                         *)
THEOREM SplicedExist == ASSUME ~PreUpdate PROVE Spec => []SplicedChunksExist
<1>1. Inv => SplicedChunksExist
  BY DEF Inv, BackupInv
<1> QED
  BY <1>1, Inductive, PTL

-----------------------------------------------------------------------------
SnapOf(x) == [prod |-> x[1], rev |-> x[2], tree |-> revs[x[1]][x[2]]]

(* Then the vault holds exactly the snapshots that have a manifest.        *)
LEMMA AllVaulted == Inv => Vaulted = {SnapOf(x) : x \in manifests}
<1> SUFFICES ASSUME Inv PROVE Vaulted = {SnapOf(x) : x \in manifests}
  OBVIOUS
<1>1. \A y \in manifests : Whole(y[1], y[2])
  BY DEF Inv, ProtectedWhole, Protected, TypeOK
<1>2. {y \in manifests : Whole(y[1], y[2])} = manifests
  BY <1>1
<1> QED
  BY <1>2 DEF Vaulted, SnapOf

(* Two steps matter to the vault: a manifest is written, retention runs.   *)
LEMMA ManifestStep ==
    ASSUME Inv, NEW p \in Prods, PutManifest(p)
    PROVE  \/ manifests' = manifests
           \/ /\ \A x \in manifests : x[1] = p => x[2] < snap[p].rev
              /\ manifests' = manifests \cup {<<p, snap[p].rev>>}
<1>1. IsLatest(p, snap[p].rev) /\ manifests' = manifests \cup {<<p, snap[p].rev>>}
  BY DEF PutManifest, Inv, BackupInv
<1>2. ASSUME NEW x \in manifests, x[1] = p, <<p, snap[p].rev>> \notin manifests
      PROVE  x[2] < snap[p].rev
  <2>1. x = <<p, x[2]>> /\ x[2] \in Revs /\ snap[p].rev \in 0..MaxRev
    BY <1>2 DEF Inv, TypeOK, SnapType
  <2>2. HasRev(p, x[2])
    BY <1>2, <2>1 DEF Inv, ProtectedWhole, Protected, Whole
  <2>3. x[2] <= snap[p].rev /\ x[2] # snap[p].rev
    BY <1>1, <1>2, <2>1, <2>2 DEF IsLatest
  <2> QED
    BY <2>1, <2>3, StoreConstants DEF Revs
<1> QED
  BY <1>1, <1>2

(* Steps other than publishing and retention leave the vault alone.        *)
LEMMA OthersKeepManifests ==
    ASSUME ~PreUpdate, Inv, [Next]_vars,
           \A p \in Prods : ~PutManifest(p),
           \A p \in Prods, kept \in SUBSET Revs : ~RetainManifests(p, kept)
    PROVE  manifests' = manifests /\ \A x \in manifests : revs'[x[1]][x[2]] = revs[x[1]][x[2]]
<1> DEFINE Same == manifests' = manifests /\ \A x \in manifests : revs'[x[1]][x[2]] = revs[x[1]][x[2]]
<1>1. ASSUME NEW p \in Prods, PutRevision(p) PROVE Same
  <2>1. ~HasRev(p, snap[p].rev)
    <3>1. snap[p].rev \in Revs /\ IsLatest(p, snap[p].rev - 1)
      BY <1>1 DEF PutRevision, Inv, BackupInv, TypeOK
    <3>2. ~(snap[p].rev <= snap[p].rev - 1)
      BY <3>1 DEF Revs
    <3> QED
      BY <3>1, <3>2 DEF IsLatest
  <2>2. \A x \in manifests : HasRev(x[1], x[2]) /\ x[1] \in Prods /\ x[2] \in Revs
    BY DEF Inv, ProtectedWhole, Protected, Whole, TypeOK
  <2> QED
    BY <1>1, <2>1, <2>2 DEF PutRevision, Inv, TypeOK
<1>2. ASSUME NEW p \in Prods, NEW n \in Revs, DeleteRevision(p, n) PROVE Same
  <2>1. <<p, n>> \notin manifests
    BY <1>2 DEF DeleteRevision, Inv, PruneInv, Protected
  <2>2. \A x \in manifests : x = <<x[1], x[2]>> /\ x[1] \in Prods /\ x[2] \in Revs
    BY DEF Inv, TypeOK
  <2> QED
    BY <1>2, <2>1, <2>2 DEF DeleteRevision, Inv, TypeOK
<1>3. ASSUME NEW p \in Prods, CreateProduction(p) \/ DeleteProduction(p) PROVE Same
  BY <1>3 DEF CreateProduction, DeleteProduction, store
<1>4. ASSUME NEW p \in Prods, SnapshotStep(p) PROVE Same
  <2>1. ASSUME NEW t \in Trees, SnapshotProduction(p, t) PROVE Same
    BY <2>1 DEF SnapshotProduction, Backup, store
  <2>2. ASSUME NEW c \in Chunks, ChunkExists(p, c) \/ PutChunk(p, c) PROVE Same
    BY <2>2 DEF ChunkExists, PutChunk, store
  <2>3. CASE FailSnapshot(p)
    BY <2>3 DEF FailSnapshot, store
  <2> QED
    BY <1>1, <1>4, <2>1, <2>2, <2>3 DEF SnapshotStep, PreUpdateSnapshot
<1>5. ASSUME PruneStep PROVE Same
  <2>1. CASE StartPrune \/ PutCollection \/ FinishPrune \/ FailPrune
    BY <2>1 DEF StartPrune, PutCollection, FinishPrune, FailPrune, store
  <2>2. ASSUME NEW p \in Prods, ProductionGone(p) PROVE Same
    BY <2>2 DEF ProductionGone, store
  <2>3. ASSUME NEW last, Sweep(last) \/ NothingToPrune(last) \/ KeptUnreadable(last) \/ Collect(last)
        PROVE  Same
    BY <2>3 DEF Sweep, NothingToPrune, KeptUnreadable, Collect, store
  <2>4. ASSUME NEW coll, SweepCollection(coll) \/ \E c \in Chunks : SweepFossil(coll, c)
        PROVE  Same
    BY <2>4 DEF SweepFossil, SweepCollection
  <2>5. ASSUME NEW c \in Chunks, Fossilize(c) PROVE Same
    BY <2>5 DEF Fossilize
  <2> HIDE DEF Same
  <2>6. CASE \/ \E last \in [Prods -> 0..MaxRev] : Sweep(last)
             \/ \E last \in [Prods -> 0..MaxRev] : NothingToPrune(last)
             \/ \E last \in [Prods -> 0..MaxRev] : KeptUnreadable(last)
             \/ \E last \in [Prods -> 0..MaxRev] : Collect(last)
    BY <2>6, <2>3
  <2>7. CASE \/ \E coll \in prune.queue, c \in Chunks : SweepFossil(coll, c)
             \/ \E coll \in prune.queue : SweepCollection(coll)
    BY <2>7, <2>4
  <2> QED
    BY <1>2, <1>5, <2>1, <2>2, <2>5, <2>6, <2>7 DEF PruneStep
<1>6. ASSUME (\E coll \in colls : Mature(coll)) \/ UNCHANGED vars PROVE Same
  BY <1>6 DEF Mature, vars, store
<1> HIDE DEF Same
<1> QED
  <2>1. Same
    BY <1>3, <1>4, <1>5, <1>6 DEF Next
  <2> QED
    BY <2>1 DEF Same

(* When every snapshot holds the store's lock the store is a vault: no     *)
(* step loses a snapshot that retention did not expire.                    *)
THEOREM Refinement == ASSUME ~PreUpdate PROVE Spec => ImplementsVault
<1>1. Init => Vault!Init
  BY DEF Init, Vault!Init, Vaulted
<1>2. Inv /\ Inv' /\ [Next]_vars => [Vault!Next]_Vaulted
  <2> SUFFICES ASSUME Inv, Inv', [Next]_vars
               PROVE  Vault!Next \/ Vaulted' = Vaulted
    OBVIOUS
  <2>1. /\ Vaulted = {SnapOf(x) : x \in manifests}
        /\ Vaulted' = {SnapOf(x)' : x \in manifests'}
    <3>1. Vaulted = {SnapOf(x) : x \in manifests}
      BY AllVaulted
    <3>2. \A y \in manifests' : Whole(y[1], y[2])'
      BY DEF Inv, ProtectedWhole, Protected, TypeOK
    <3>3. {y \in manifests' : Whole(y[1], y[2])'} = manifests'
      BY <3>2
    <3>4. Vaulted' = {SnapOf(x)' : x \in {y \in manifests' : Whole(y[1], y[2])'}}
      BY DEF Vaulted, SnapOf
    <3> QED
      BY <3>1, <3>3, <3>4
  <2>2. ASSUME NEW p \in Prods, PutManifest(p) PROVE Vault!Next \/ Vaulted' = Vaulted
    <3>0. revs' = revs /\ \A x : SnapOf(x)' = SnapOf(x)
      BY <2>2 DEF PutManifest, SnapOf
    <3>1. CASE manifests' = manifests
      BY <3>0, <3>1, <2>1
    <3>2. CASE /\ \A x \in manifests : x[1] = p => x[2] < snap[p].rev
               /\ manifests' = manifests \cup {<<p, snap[p].rev>>}
      <4> DEFINE s == SnapOf(<<p, snap[p].rev>>)
      <4>1. Vaulted' = Vaulted \cup {s}
        BY <3>0, <3>2, <2>1
      <4>2. s \in Vault!Snapshots
        <5>1. snap[p].rev \in Revs
          BY <2>2 DEF PutManifest, Inv, TypeOK
        <5>2. HasRev(p, snap[p].rev)
          BY <2>2, <5>1, StoreConstants DEF PutManifest, Inv, BackupInv, IsLatest, Revs
        <5>3. revs[p][snap[p].rev] \in Trees
          BY <5>1, <5>2 DEF HasRev, Inv, TypeOK
        <5> QED
          BY <5>1, <5>3 DEF Vault!Snapshots, SnapOf, Revs
      <4>3. \A o \in Vaulted : o.prod = s.prod => o.rev < s.rev
        BY <2>1, <3>2 DEF SnapOf
      <4> QED
        BY <4>1, <4>2, <4>3 DEF Vault!Next, Vault!Take
    <3> QED
      BY <2>2, <3>1, <3>2, ManifestStep
  <2>3. ASSUME NEW p \in Prods, NEW kept \in SUBSET Revs, RetainManifests(p, kept)
        PROVE  Vault!Next \/ Vaulted' = Vaulted
    <3>0. /\ revs' = revs /\ \A x : SnapOf(x)' = SnapOf(x)
          /\ manifests' = {x \in manifests : x[1] = p => x[2] \in kept}
      BY <2>3 DEF RetainManifests, SnapOf
    <3> DEFINE gone == Vaulted \ Vaulted'
    <3>1. Vaulted' \subseteq Vaulted
      BY <2>1, <3>0
    <3>2. Vaulted' = Vaulted \ gone /\ gone \in SUBSET Vaulted
      BY <3>1
    <3>3. ASSUME NEW s \in gone
          PROVE  \E o \in Vaulted \ gone : o.prod = s.prod /\ o.rev > s.rev
      <4>1. PICK x \in manifests : s = SnapOf(x) /\ x \notin manifests'
        BY <2>1, <3>0, <3>3
      <4>2. x = <<p, x[2]>> /\ x[2] \in Revs /\ x[2] \notin kept
        BY <4>1, <3>0 DEF Inv, TypeOK
      <4>3. PICK m \in kept : m > x[2] /\ <<p, m>> \in manifests
        BY <4>1, <4>2, <2>3 DEF RetainManifests, Retains
      <4>4. <<p, m>> \in manifests'
        BY <4>3, <3>0
      <4>5. SnapOf(<<p, m>>) \in Vaulted'
        BY <4>4, <2>1, <3>0
      <4>6. SnapOf(<<p, m>>).prod = s.prod /\ SnapOf(<<p, m>>).rev > s.rev
        BY <4>1, <4>2, <4>3 DEF SnapOf
      <4> QED
        BY <4>5, <4>6, <3>2
    <3> QED
      BY <3>2, <3>3 DEF Vault!Next, Vault!Expire
  <2>4. ASSUME \A p \in Prods : ~PutManifest(p),
               \A p \in Prods, kept \in SUBSET Revs : ~RetainManifests(p, kept)
        PROVE  Vaulted' = Vaulted
    BY <2>1, <2>4, OthersKeepManifests DEF SnapOf
  <2> QED
    BY <2>2, <2>3, <2>4
<1> QED
  BY <1>1, <1>2, Inductive, PTL DEF Spec, ImplementsVault, Vault!Spec
=============================================================================
