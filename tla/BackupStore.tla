---------------------------- MODULE BackupStore ----------------------------
(***************************************************************************)
(* The team's backup store on S3: snapshots of productions                 *)
(* (backup_ops.snapshot_production over chunkstore/backup.py) against the  *)
(* retention run (backup_ops.prune_backups over chunkstore/prune.py).      *)
(*                                                                         *)
(* A filestore content is a "tree": the data chunks its bytes are cut into *)
(* and the metadata chunks that hold its file list, chunk hashes and       *)
(* lengths.  Chunks are content-addressed, so a tree determines its        *)
(* chunks and two trees may share some.  A chunk's plain key and its       *)
(* ".fsl" fossil are two objects.                                          *)
(*                                                                         *)
(* Atomicity: each S3 request that changes the store is a step.  The two   *)
(* read phases of a prune (latest revisions and references, once for the   *)
(* sweep and once for the collection) and the read phase of a backup       *)
(* (revision list and previous revision) are one step each.                *)
(*                                                                         *)
(* Definitions marked "Fault:" are plausible bugs; no action uses them.    *)
(* They are put in place of the definition that follows them to see that   *)
(* a property notices.                                                     *)
(*                                                                         *)
(* Left out: a production whose filestore directory does not exist         *)
(* (revision 0 in its manifest), the database dump that goes with each     *)
(* manifest, and corrupt JSON objects.                                     *)
(***************************************************************************)
EXTENDS Naturals, FiniteSets

CONSTANTS
    Prods,          \* productions of the team; each is a snapshot id of the store
    Trees, Chunks,
    DataOf, MetaOf, \* the data and the metadata chunks of a tree
    NoTree, NoOne, Pruner,
    PreUpdate,      \* deploys run the pre-update snapshot hook
    MaxRev,         \* bound: revisions per production
    MaxFailures     \* bound: snapshots and prunes that die half way

ASSUME StoreConstants ==
    /\ DataOf \in [Trees -> SUBSET Chunks]
    /\ MetaOf \in [Trees -> (SUBSET Chunks) \ {{}}]
    /\ NoTree \notin Trees
    /\ Pruner \notin Prods /\ NoOne \notin Prods \cup {Pruner}
    /\ PreUpdate \in BOOLEAN
    /\ MaxRev \in Nat /\ MaxFailures \in Nat

Revs == 1..MaxRev
RefsOf(t) == DataOf[t] \cup MetaOf[t]

VARIABLES
    tracked,     \* the production registry
    holder,      \* who holds the "prod-backups:<team>" lock
    chunks,      \* chunks/xx/yyyy
    fossils,     \* chunks/xx/yyyy.fsl
    revs,        \* revs[p][n]: the tree of snapshots/<p>/<n>, NoTree if absent
    manifests,   \* <<p, n>>: a manifest of p that points at revision n
    colls,       \* fossils/<id>.json
    snap,        \* snap[p]: the snapshot of p in progress
    prune,       \* the prune in progress
    failures

store == <<chunks, fossils, revs, manifests, colls>>
vars  == <<tracked, holder, store, snap, prune, failures>>

HasRev(p, n)   == n \in Revs /\ revs[p][n] # NoTree
IsLatest(p, n) == /\ n = 0 \/ HasRev(p, n)
                  /\ \A m \in Revs : HasRev(p, m) => m <= n

Readable(p, n) == MetaOf[revs[p][n]] \subseteq chunks          \* load_revision succeeds
Whole(p, n)    == HasRev(p, n) /\ RefsOf(revs[p][n]) \subseteq chunks

(* revs[p] -> the newest revision of every production, 0 without one.      *)
Latest(last) == last \in [Prods -> 0..MaxRev] /\ \A p \in Prods : IsLatest(p, last[p])

(* Chunks the readable ones among a set of revisions <<p, n>> depend on.   *)
References(pn) == UNION {RefsOf(revs[x[1]][x[2]]) : x \in {y \in pn : Readable(y[1], y[2])}}

Stored == {x \in Prods \X Revs : HasRev(x[1], x[2])}

Idle     == [pc |-> "idle", locked |-> FALSE, rev |-> 0, tree |-> NoTree,
             todo |-> {}, putting |-> {}]
NotPruning == [pc |-> "idle", listed |-> {}, pending |-> {},
               keep |-> [p \in Prods |-> {}], queue |-> {}, live |-> {},
               targets |-> {}, doomed |-> {}, moved |-> {},
               last |-> [p \in Prods |-> 0]]

Init ==
    /\ tracked = {} /\ holder = NoOne
    /\ chunks = {} /\ fossils = {} /\ manifests = {} /\ colls = {}
    /\ revs = [p \in Prods |-> [n \in Revs |-> NoTree]]
    /\ snap = [p \in Prods |-> Idle]
    /\ prune = NotPruning
    /\ failures = 0

-----------------------------------------------------------------------------
(* The production registry.  Deleting a production keeps its backups.      *)

CreateProduction(p) ==
    /\ p \notin tracked
    /\ tracked' = tracked \cup {p}
    /\ UNCHANGED <<holder, store, snap, prune, failures>>

DeleteProduction(p) ==
    /\ p \in tracked /\ snap[p].pc = "idle"
    /\ tracked' = tracked \ {p}
    /\ UNCHANGED <<holder, store, snap, prune, failures>>

-----------------------------------------------------------------------------
(* A snapshot of production p whose filestore has content t.  Every path   *)
(* to it holds the production's own lock: one snapshot of p at a time.     *)

KnownOf(p, last) == IF last # 0 /\ Readable(p, last) THEN DataOf[revs[p][last]] ELSE {}

Backup(p, t, locked) ==
    /\ p \in tracked /\ snap[p].pc = "idle"
    /\ \E last \in 0..MaxRev :
        /\ IsLatest(p, last) /\ last < MaxRev
        /\ snap' = [snap EXCEPT ![p] =
             [pc |-> "uploading", locked |-> locked, rev |-> last + 1, tree |-> t,
              todo |-> RefsOf(t) \ KnownOf(p, last), putting |-> {}]]
    /\ UNCHANGED <<tracked, store, prune, failures>>

(* The MCP tool, the dashboard and the scheduler take the store's lock ... *)
SnapshotProduction(p, t) ==
    /\ holder = NoOne /\ holder' = p
    /\ Backup(p, t, TRUE)

(* ... the hook of a deploy runs under the production's lock alone.        *)
PreUpdateSnapshot(p, t) ==
    /\ PreUpdate
    /\ Backup(p, t, FALSE)
    /\ UNCHANGED holder

(* _store on an upload thread: the existence check, then the put.          *)
ChunkExists(p, c) ==
    /\ c \in snap[p].todo
    /\ LET s == snap[p]
       IN  snap' = [snap EXCEPT ![p] = [s EXCEPT !.todo = s.todo \ {c},
             !.putting = IF c \in chunks THEN s.putting ELSE s.putting \cup {c}]]
    /\ UNCHANGED <<tracked, holder, store, prune, failures>>

PutChunk(p, c) ==
    /\ c \in snap[p].putting
    /\ chunks' = chunks \cup {c}
    /\ snap' = [snap EXCEPT ![p].putting = @ \ {c}]
    /\ UNCHANGED <<tracked, holder, fossils, revs, manifests, colls, prune, failures>>

(* The revision file, after sink.wait().                                   *)
PutRevision(p) ==
    /\ snap[p].pc = "uploading" /\ snap[p].todo = {} /\ snap[p].putting = {}
    /\ revs' = [revs EXCEPT ![p][snap[p].rev] = snap[p].tree]
    /\ snap' = [snap EXCEPT ![p].pc = "publishing"]
    /\ UNCHANGED <<tracked, holder, chunks, fossils, manifests, colls, prune, failures>>

Release(p) == holder' = IF snap[p].locked THEN NoOne ELSE holder

PutManifest(p) ==
    /\ snap[p].pc = "publishing"
    /\ manifests' = manifests \cup {<<p, snap[p].rev>>}
    /\ snap' = [snap EXCEPT ![p] = Idle]
    /\ Release(p)
    /\ UNCHANGED <<tracked, chunks, fossils, revs, colls, prune, failures>>

(* A request fails or the server dies.  Nothing written is taken back.     *)
FailSnapshot(p) ==
    /\ snap[p].pc # "idle" /\ failures < MaxFailures
    /\ failures' = failures + 1
    /\ snap' = [snap EXCEPT ![p] = Idle]
    /\ Release(p)
    /\ UNCHANGED <<tracked, store, prune>>

-----------------------------------------------------------------------------
(* prune_backups.                                                          *)

StartPrune ==
    /\ holder = NoOne /\ holder' = Pruner
    /\ prune' = [NotPruning EXCEPT !.pc = "manifests", !.listed = tracked,
                                   !.pending = tracked]
    /\ UNCHANGED <<tracked, store, snap, failures>>

(* Fault: retention may expire the newest manifest.                        *)
RetainsAny(p, kept) == kept \subseteq {n \in Revs : <<p, n>> \in manifests}

(* Retention of one production: any choice that keeps the newest manifest. *)
Retains(p, kept) ==
    LET mine == {n \in Revs : <<p, n>> \in manifests}
    IN  /\ kept \subseteq mine
        /\ \A n \in mine : n \in kept \/ \E m \in kept : m > n

RetainManifests(p, kept) ==
    /\ prune.pc = "manifests" /\ p \in prune.pending /\ p \in tracked
    /\ Retains(p, kept)
    /\ manifests' = {x \in manifests : x[1] = p => x[2] \in kept}
    /\ prune' = [prune EXCEPT !.pending = @ \ {p}, !.keep[p] = kept]
    /\ UNCHANGED <<tracked, holder, chunks, fossils, revs, colls, snap, failures>>

(* The prune raises: its caller logs it and lets go of the lock.           *)
AbandonPrune == prune' = NotPruning /\ holder' = NoOne

(* list_snapshots of a production deleted since the list was taken.        *)
ProductionGone(p) ==
    /\ prune.pc = "manifests" /\ p \in prune.pending /\ p \notin tracked
    /\ AbandonPrune
    /\ UNCHANGED <<tracked, store, snap, failures>>

(* _sweep: a collection is deletable when it is an hour old and every      *)
(* production it recorded has a newer revision, or none at all.            *)
Deletable(coll, last) ==
    /\ coll.mature
    /\ \A p \in Prods : coll.last[p] = 0 \/ last[p] = 0 \/ last[p] > coll.last[p]

Sweep(last) ==
    /\ prune.pc = "manifests" /\ prune.pending = {}
    /\ Latest(last)
    /\ prune' = [prune EXCEPT !.pc = "sweep", !.live = References(Stored),
                              !.queue = {c \in colls : Deletable(c, last)}]
    /\ UNCHANGED <<tracked, holder, store, snap, failures>>

SweepFossil(coll, c) ==
    /\ prune.pc = "sweep" /\ coll \in prune.queue
    /\ c \in coll.fossils \cap fossils
    /\ fossils' = fossils \ {c}
    /\ chunks' = IF c \in prune.live THEN chunks \cup {c} ELSE chunks
    /\ UNCHANGED <<tracked, holder, revs, manifests, colls, snap, prune, failures>>

SweepCollection(coll) ==
    /\ prune.pc = "sweep" /\ coll \in prune.queue
    /\ coll.fossils \cap fossils = {}
    /\ colls' = colls \ {coll}
    /\ prune' = [prune EXCEPT !.queue = @ \ {coll}]
    /\ UNCHANGED <<tracked, holder, chunks, fossils, revs, manifests, snap, failures>>

(* Fault: a production the caller does not track is cut to its newest.     *)
KeptRevsUntrackedNewest(last) ==
    {x \in Stored : x[2] \in prune.keep[x[1]] \/ x[2] = last[x[1]]}

(* _collect.  The revisions kept: of a production the caller tracks, those *)
(* of its surviving manifests and the newest; of any other, all.           *)
KeptRevs(last) == {x \in Stored : \/ x[1] \notin prune.listed
                                  \/ x[2] \in prune.keep[x[1]]
                                  \/ x[2] = last[x[1]]}

CollectReady(last) == prune.pc = "sweep" /\ prune.queue = {} /\ Latest(last)

AllReadable(pn) == \A x \in pn : Readable(x[1], x[2])

NothingToPrune(last) ==
    /\ CollectReady(last)
    /\ AllReadable(KeptRevs(last)) /\ KeptRevs(last) = Stored
    /\ AbandonPrune
    /\ UNCHANGED <<tracked, store, snap, failures>>

(* Reading the references of a kept revision is not inside a try.          *)
KeptUnreadable(last) ==
    /\ CollectReady(last)
    /\ ~AllReadable(KeptRevs(last))
    /\ AbandonPrune
    /\ UNCHANGED <<tracked, store, snap, failures>>

Collect(last) ==
    /\ CollectReady(last)
    /\ AllReadable(KeptRevs(last)) /\ KeptRevs(last) # Stored
    /\ LET targets == Stored \ KeptRevs(last)
       IN  prune' = [prune EXCEPT !.pc = "fossilize", !.last = last,
                       !.targets = targets,
                       !.doomed = References(targets) \ References(KeptRevs(last))]
    /\ UNCHANGED <<tracked, holder, store, snap, failures>>

Fossilize(c) ==
    /\ prune.pc = "fossilize" /\ c \in prune.doomed
    /\ IF c \in chunks
       THEN /\ chunks' = chunks \ {c}
            /\ fossils' = fossils \cup {c}
            /\ prune' = [prune EXCEPT !.doomed = @ \ {c}, !.moved = @ \cup {c}]
       ELSE /\ prune' = [prune EXCEPT !.doomed = @ \ {c}]
            /\ UNCHANGED <<chunks, fossils>>
    /\ UNCHANGED <<tracked, holder, revs, manifests, colls, snap, failures>>

PutCollection ==
    /\ prune.pc = "fossilize" /\ prune.doomed = {}
    /\ colls' = colls \cup {[last |-> prune.last, fossils |-> prune.moved,
                             mature |-> FALSE]}
    /\ prune' = [prune EXCEPT !.pc = "delete"]
    /\ UNCHANGED <<tracked, holder, chunks, fossils, revs, manifests, snap, failures>>

DeleteRevision(p, n) ==
    /\ prune.pc = "delete" /\ <<p, n>> \in prune.targets
    /\ revs' = [revs EXCEPT ![p][n] = NoTree]
    /\ prune' = [prune EXCEPT !.targets = @ \ {<<p, n>>}]
    /\ UNCHANGED <<tracked, holder, chunks, fossils, manifests, colls, snap, failures>>

FinishPrune ==
    /\ prune.pc = "delete" /\ prune.targets = {}
    /\ AbandonPrune
    /\ UNCHANGED <<tracked, store, snap, failures>>

FailPrune ==
    /\ prune.pc # "idle" /\ failures < MaxFailures
    /\ failures' = failures + 1
    /\ AbandonPrune
    /\ UNCHANGED <<tracked, store, snap>>

(* _COLLECTION_MIN_AGE (one hour) passes.                                  *)
Mature(coll) ==
    /\ coll \in colls /\ ~coll.mature
    /\ colls' = (colls \ {coll}) \cup {[coll EXCEPT !.mature = TRUE]}
    /\ UNCHANGED <<tracked, holder, chunks, fossils, revs, manifests, snap, prune, failures>>

-----------------------------------------------------------------------------
SnapshotStep(p) ==
    \/ \E t \in Trees : SnapshotProduction(p, t)
    \/ \E t \in Trees : PreUpdateSnapshot(p, t)
    \/ \E c \in Chunks : ChunkExists(p, c)
    \/ \E c \in Chunks : PutChunk(p, c)
    \/ PutRevision(p)
    \/ PutManifest(p)
    \/ FailSnapshot(p)

PruneStep ==
    \/ StartPrune
    \/ \E p \in Prods, kept \in SUBSET Revs : RetainManifests(p, kept)
    \/ \E p \in Prods : ProductionGone(p)
    \/ \E last \in [Prods -> 0..MaxRev] : Sweep(last)
    \/ \E coll \in prune.queue, c \in Chunks : SweepFossil(coll, c)
    \/ \E coll \in prune.queue : SweepCollection(coll)
    \/ \E last \in [Prods -> 0..MaxRev] : NothingToPrune(last)
    \/ \E last \in [Prods -> 0..MaxRev] : KeptUnreadable(last)
    \/ \E last \in [Prods -> 0..MaxRev] : Collect(last)
    \/ \E c \in Chunks : Fossilize(c)
    \/ PutCollection
    \/ \E p \in Prods, n \in Revs : DeleteRevision(p, n)
    \/ FinishPrune
    \/ FailPrune

Next ==
    \/ \E p \in Prods : CreateProduction(p)
    \/ \E p \in Prods : DeleteProduction(p)
    \/ \E p \in Prods : SnapshotStep(p)
    \/ PruneStep
    \/ \E coll \in colls : Mature(coll)

Spec == Init /\ [][Next]_vars

-----------------------------------------------------------------------------
SnapType == [pc : {"idle", "uploading", "publishing"}, locked : BOOLEAN, rev : 0..MaxRev,
             tree : Trees \cup {NoTree}, todo : SUBSET Chunks, putting : SUBSET Chunks]
CollType == [last : [Prods -> 0..MaxRev], fossils : SUBSET Chunks, mature : BOOLEAN]
PruneType == [pc : {"idle", "manifests", "sweep", "fossilize", "delete"},
              listed : SUBSET Prods, pending : SUBSET Prods, keep : [Prods -> SUBSET Revs],
              queue : SUBSET CollType, live : SUBSET Chunks,
              targets : SUBSET (Prods \X Revs), doomed : SUBSET Chunks,
              moved : SUBSET Chunks, last : [Prods -> 0..MaxRev]]

(* Every field of the store, of a snapshot in progress and of a prune in   *)
(* progress keeps its type; a snapshot that is running has a content and a *)
(* revision number.                                                        *)
TypeOK ==
    /\ tracked \in SUBSET Prods
    /\ holder \in Prods \cup {Pruner, NoOne}
    /\ chunks \in SUBSET Chunks /\ fossils \in SUBSET Chunks
    /\ revs \in [Prods -> [Revs -> Trees \cup {NoTree}]]
    /\ manifests \in SUBSET (Prods \X Revs)
    /\ colls \in SUBSET CollType
    /\ snap \in [Prods -> SnapType]
    /\ \A p \in Prods : snap[p].pc # "idle" => snap[p].rev \in Revs /\ snap[p].tree \in Trees
    /\ prune \in PruneType
    /\ failures \in Nat

(* A snapshot with a manifest can be restored: its revision file and every *)
(* chunk it depends on are under their plain keys, whatever prunes and     *)
(* snapshots ran or died half way, and after the production is deleted     *)
(* (prune_backups: "no orphaned or dangling references").                  *)
SnapshotsRestorable == \A x \in manifests : Whole(x[1], x[2])

(* A backup counts a chunk as stored without uploading it when the         *)
(* previous revision has it or the existence check found it; it is still   *)
(* stored when the revision file is written (emit_preserved: "the chunk    *)
(* provably exists").                                                      *)
SplicedChunksExist ==
    \A p \in Prods : snap[p].pc = "uploading" =>
        RefsOf(snap[p].tree) \ (snap[p].todo \cup snap[p].putting) \subseteq chunks

(* The revisions of a production are numbered upwards for ever: a new one  *)
(* is above all the stored ones, and no prune removes the newest, not even *)
(* one that overlaps the backup that wrote it.  A number that came back    *)
(* would turn an old manifest into one of another content.                 *)
RevisionNumbersGrow ==
    [][\A p \in Prods, n \in Revs :
         /\ ~HasRev(p, n) /\ HasRev(p, n)' => \A m \in Revs : HasRev(p, m) => m < n
         /\ HasRev(p, n) /\ ~HasRev(p, n)' => \E m \in Revs : HasRev(p, m) /\ m > n]_vars

(* The store implements SnapshotVault: what can be restored grows by whole *)
(* snapshots and shrinks by retention only, never by the newest one.       *)
Vaulted == {[prod |-> x[1], rev |-> x[2], tree |-> revs[x[1]][x[2]]] :
                x \in {y \in manifests : Whole(y[1], y[2])}}
Vault == INSTANCE SnapshotVault WITH vault <- Vaulted
ImplementsVault == Vault!Spec

-----------------------------------------------------------------------------
(* What comments of the code say that the code does not do.                *)

(* server.py, on the lock order of snapshot_production: "Prune takes the   *)
(* store key alone, so it can never run mid-snapshot."  The snapshot a     *)
(* deploy takes does not hold the store key.                               *)
PruneNeverMidSnapshot == prune.pc # "idle" => \A p \in Prods : snap[p].pc = "idle"

(* chunkstore/prune.py: the two-step scheme "keeps the store correct even  *)
(* if that serialization is ever lost".  Without it the chunks of a        *)
(* finished snapshot can be deleted for good.                              *)
NothingLost ==
    \A x \in manifests : HasRev(x[1], x[2]) =>
        RefsOf(revs[x[1]][x[2]]) \subseteq chunks \cup fossils

(* prune_backups: the store keeps exactly the revisions the surviving      *)
(* manifests reference, "lockstep - no orphaned or dangling references".   *)
ManifestsHaveRevisions == \A x \in manifests : HasRev(x[1], x[2])

(* _collect: a kept revision that cannot be read is tolerated, since       *)
(* raising "wedged every future prune".  One whose metadata chunk is       *)
(* missing still raises.                                                   *)
NeverWedged ==
    \A last \in [Prods -> 0..MaxRev] : CollectReady(last) => AllReadable(KeptRevs(last))

(* backup: the orphaned chunks of a backup without its revision file "are  *)
(* reclaimed by prune".  Once a prune has nothing left to collect no chunk *)
(* should be left that no revision file and no running backup wants.       *)
OrphansReclaimed ==
    prune.pc = "delete" /\ prune.targets = {} /\ (\A p \in Prods : snap[p].pc = "idle") =>
        chunks \subseteq UNION {RefsOf(revs[x[1]][x[2]]) : x \in Stored}
=============================================================================
