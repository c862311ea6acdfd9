---------------------------- MODULE Startup_proofs ----------------------------
(* What a new version does to what is there before it serves: the migrations, *)
(* the major upgrade of PostgreSQL, and the reconciliation of bundled files.  *)
EXTENDS Migrations, PostgresUpgrade, BundledFiles, SequenceTheorems, TLAPS

-----------------------------------------------------------------------------
(* For any processes, objects and number of deaths: a step on record has left *)
(* no object in an old form, unless somebody died in one of the two places    *)
(* the rerun does not look at.                                                *)
(*                                                                            *)
(* What a run has dealt with is in the new form (Dealt), because an object it *)
(* passes over is in the new form, or was moved and not opened again, and the *)
(* only such object is the one this run is changing (Moving). Likewise the    *)
(* shared container is only away while this run replaces it (Away). So a step *)
(* that is recorded is complete, and the ledger grows one step at a time      *)
(* (InOrder).                                                                 *)

Tablespaces == Step("tablespaces")

InOrder ==
    lock # Idle => doing = IF ledger = NoLedger THEN 1 ELSE ledger + 1

(* A fresh installation has nothing in an old form.                           *)
Fresh ==
    ledger = NoLedger /\ ~teams =>
        \A i \in Steps, o \in Objects : form[i][o] = "new"

Dealt ==
    lock # Idle /\ doing \in Steps \ BestEffort =>
        \A o \in handled : form[doing][o] = "new"

Moving ==
    \A i \in Steps, o \in Objects :
        form[i][o] = "moved" => i = Tablespaces /\ lock # Idle /\ doing = i /\ o \in busy

Away ==
    /\ shared = "gone" /\ Objects # {} =>
         lock # Idle /\ doing = Tablespaces /\ busy = Objects /\ handled = {}
    /\ shared # "mounted" => \A o \in Objects : form[Tablespaces][o] # "moved"

Orderly == InOrder /\ Fresh
Coherent == Dealt /\ Moving /\ Away

MigInv == MigTypeOK /\ Orderly /\ (~torn => Coherent) /\ AppliedIsDone

-----------------------------------------------------------------------------
LEMMA TenSteps == Len(Registry) = 10 /\ Steps = 1..10 /\ NoLedger = 11
  BY DEF Registry, Steps, NoLedger

LEMMA TablespacesIsAStep == Tablespaces \in Steps /\ Tablespaces = 2
  <1>1. 2 \in Steps /\ Registry[2] = "tablespaces"
    BY DEF Registry, Steps
  <1>2. \A i \in Steps : Registry[i] = "tablespaces" => i = 2
    BY DEF Registry, Steps
  <1> QED BY <1>1, <1>2 DEF Tablespaces, Step

LEMMA TablespacesIsStrict == Tablespaces \notin BestEffort /\ Tablespaces \in TwoPhased
<1>1. \A n \in {"limits", "private", "secrets", "confs", "tokens"} :
        \E i \in Steps : Registry[i] = n
  <2>1. /\ 4 \in Steps /\ 6 \in Steps /\ 8 \in Steps /\ 9 \in Steps /\ 10 \in Steps
        /\ Registry[4] = "limits" /\ Registry[6] = "private" /\ Registry[8] = "secrets"
        /\ Registry[9] = "confs" /\ Registry[10] = "tokens"
    BY DEF Registry, Steps
  <2> QED BY <2>1
<1>2. \A n \in {"limits", "private", "secrets", "confs", "tokens"} : Registry[Step(n)] = n
  BY <1>1 DEF Step
<1>3. Registry[Tablespaces] = "tablespaces"
  BY TablespacesIsAStep DEF Registry
<1> QED BY <1>2, <1>3 DEF BestEffort, TwoPhased, Tablespaces

LEMMA Forms ==
    ASSUME MigTypeOK, NEW i \in Steps, NEW o \in Objects, NEW f \in {"old", "half", "moved", "new"}
    PROVE  LET g == [form EXCEPT ![i][o] = f] IN
             /\ g \in [Steps -> [Objects -> {"old", "half", "moved", "new"}]]
             /\ \A j \in Steps, p \in Objects :
                  g[j][p] = IF j = i /\ p = o THEN f ELSE form[j][p]
  BY DEF MigTypeOK

(* Every variable keeps its type.                                             *)
THEOREM TypeCorrect == ASSUME MigConstants PROVE MigSpec => []MigTypeOK
<1>1. MigInit => MigTypeOK
  <2> SUFFICES ASSUME MigInit PROVE MigTypeOK
    OBVIOUS
  <2>1. form \in [Steps -> [Objects -> {"old", "half", "moved", "new"}]]
    BY DEF MigInit
  <2>2. ledger \in 0..NoLedger /\ shared \in {"bare", "gone", "mounted"}
    BY TenSteps DEF MigInit
  <2>3. doing \in 0..NoLedger /\ deaths \in 0..MaxDeaths
    BY TenSteps DEF MigInit, MigConstants
  <2> QED BY <2>1, <2>2, <2>3 DEF MigInit, MigTypeOK
<1>2. MigTypeOK /\ [MigNext]_migVars => MigTypeOK'
  <2> SUFFICES ASSUME MigTypeOK, [MigNext]_migVars PROVE MigTypeOK'
    OBVIOUS
  <2> USE TenSteps, TablespacesIsAStep DEF MigTypeOK
  <2>1. ASSUME NEW p \in Processes, Enter(p) PROVE MigTypeOK'
    BY <2>1 DEF Enter
  <2>2. ASSUME NEW p \in Processes, Leave(p) PROVE MigTypeOK'
    BY <2>2 DEF Leave
  <2>3. ASSUME RemoveShared PROVE MigTypeOK'
    BY <2>3 DEF RemoveShared
  <2>4. ASSUME CreateShared PROVE MigTypeOK'
    BY <2>4 DEF CreateShared
  <2>5. ASSUME DieInside PROVE MigTypeOK'
    <3>1. torn' \in BOOLEAN
      BY <2>5 DEF DieInside
    <3>2. deaths' \in 0..MaxDeaths
      BY <2>5 DEF DieInside, MigConstants
    <3> QED BY <2>5, <3>1, <3>2 DEF DieInside
  <2>6. ASSUME NEW i \in Steps, Record(i) PROVE MigTypeOK'
    BY <2>6 DEF Record, In
  <2>7. ASSUME NEW i \in Steps, NEW o \in Objects, PassOver(i, o) PROVE MigTypeOK'
    BY <2>7 DEF PassOver
  <2>8. ASSUME NEW i \in Steps, NEW o \in Objects, Advance(i, o) PROVE MigTypeOK'
    <3>1. PICK f \in {"half", "moved", "new"} :
            /\ form' = [form EXCEPT ![i][o] = f]
            /\ busy' \in {{}, {o}} /\ handled' \in {handled, handled \cup {o}}
      BY <2>8 DEF Advance
    <3>2. form' \in [Steps -> [Objects -> {"old", "half", "moved", "new"}]]
      BY <3>1, Forms
    <3> QED BY <2>8, <3>1, <3>2 DEF Advance
  <2>9. CASE UNCHANGED migVars
    BY <2>9 DEF migVars
  <2> QED BY <2>1, <2>2, <2>3, <2>4, <2>5, <2>6, <2>7, <2>8, <2>9 DEF MigNext
<1> QED BY <1>1, <1>2, PTL DEF MigSpec

-----------------------------------------------------------------------------
(* One step of the invariant for each action; the types are given.            *)
LEMMA Entering ==
    ASSUME MigInv, NEW p \in Processes, Enter(p), MigTypeOK'
    PROVE  MigInv'
<1> USE TenSteps, TablespacesIsAStep
<1>1. lock = Idle /\ form' = form /\ teams' = teams /\ shared' = shared /\ busy' = busy /\ torn' = torn
  BY DEF Enter
<1>2. Orderly'
  <2>1. CASE ledger = NoLedger /\ ~teams
    BY <2>1 DEF Enter, Orderly, InOrder, Fresh, MigInv, MigTypeOK
  <2>2. CASE ~(ledger = NoLedger /\ ~teams)
    BY <2>2 DEF Enter, Orderly, InOrder, Fresh, MigInv, MigTypeOK
  <2> QED BY <2>1, <2>2
<1>3. ~torn' => Coherent'
  <2> SUFFICES ASSUME ~torn PROVE Coherent'
    BY <1>1
  <2>1. \A i \in Steps, o \in Objects : form[i][o] # "moved"
    BY <1>1 DEF MigInv, Coherent, Moving
  <2>2. shared # "gone" \/ Objects = {}
    BY <1>1 DEF MigInv, Coherent, Away
  <2>3. handled' = {}
    BY DEF Enter
  <2> QED BY <1>1, <2>1, <2>2, <2>3 DEF Coherent, Dealt, Moving, Away
<1>4. AppliedIsDone'
  <2>1. CASE ledger = NoLedger /\ ~teams
    BY <1>1, <2>1 DEF Enter, MigInv, Orderly, Fresh, AppliedIsDone
  <2>2. CASE ~(ledger = NoLedger /\ ~teams)
    BY <1>1, <2>2 DEF Enter, MigInv, AppliedIsDone
  <2> QED BY <2>1, <2>2
<1> QED BY <1>2, <1>3, <1>4 DEF MigInv

LEMMA Leaving ==
    ASSUME MigConstants, MigInv, NEW p \in Processes, Leave(p), MigTypeOK'
    PROVE  MigInv'
<1> USE TenSteps, TablespacesIsAStep
<1>1. ledger = 10 /\ ledger' = ledger /\ lock # Idle /\ lock' = Idle /\ form' = form /\ torn' = torn
      /\ shared' = "mounted" /\ doing = 11 /\ teams'
  BY DEF Leave, MigInv, Orderly, InOrder, MigTypeOK, MigConstants
<1>2. Orderly'
  BY <1>1 DEF Orderly, InOrder, Fresh
<1>3. ~torn' => Coherent'
  BY <1>1 DEF MigInv, Coherent, Dealt, Moving, Away
<1>4. AppliedIsDone'
  BY <1>1 DEF MigInv, AppliedIsDone
<1> QED BY <1>2, <1>3, <1>4 DEF MigInv

LEMMA Closing ==
    ASSUME MigInv, RemoveShared \/ CreateShared, MigTypeOK'
    PROVE  MigInv'
<1> USE TenSteps, TablespacesIsAStep
<1>1. /\ lock # Idle /\ doing = Tablespaces /\ shared \in {"bare", "gone"}
      /\ UNCHANGED <<ledger, form, teams, lock, doing, handled, torn>>
  BY DEF RemoveShared, CreateShared, In, Tablespaces
<1>2. Orderly'
  BY <1>1 DEF MigInv, Orderly, InOrder, Fresh
<1>3. ~torn' => Coherent'
  <2> SUFFICES ASSUME ~torn PROVE Coherent'
    BY <1>1
  <2>1. \A i \in Steps, o \in Objects : form[i][o] # "moved"
    BY <1>1 DEF MigInv, Coherent, Moving, Away
  <2>2. shared' = "gone" => busy' = Objects /\ handled = {}
    BY DEF RemoveShared, CreateShared
  <2> QED BY <1>1, <2>1, <2>2 DEF MigInv, Coherent, Dealt, Moving, Away
<1>4. AppliedIsDone'
  BY <1>1 DEF MigInv, AppliedIsDone
<1> QED BY <1>2, <1>3, <1>4 DEF MigInv

LEMMA Dying ==
    ASSUME MigInv, DieInside, MigTypeOK'
    PROVE  MigInv'
<1> USE TenSteps, TablespacesIsAStep
<1>1. lock' = Idle /\ UNCHANGED <<ledger, form, teams, shared>>
  BY DEF DieInside
<1>2. Orderly'
  BY <1>1 DEF MigInv, Orderly, InOrder, Fresh
<1>3. ~torn' => Coherent'
  <2> SUFFICES ASSUME ~torn' PROVE Coherent'
    OBVIOUS
  <2>1. ~torn /\ shared # "gone" /\ \A o \in busy : form[Tablespaces][o] # "moved"
    BY DEF DieInside, Tablespaces
  <2>2. \A i \in Steps, o \in Objects : form[i][o] # "moved"
    BY <2>1 DEF MigInv, Coherent, Moving, MigTypeOK
  <2> QED BY <1>1, <2>1, <2>2 DEF Coherent, Dealt, Moving, Away
<1>4. AppliedIsDone'
  BY <1>1 DEF DieInside, MigInv, AppliedIsDone
<1> QED BY <1>2, <1>3, <1>4 DEF MigInv
LEMMA Recording ==
    ASSUME MigInv, NEW i \in Steps, Record(i), MigTypeOK'
    PROVE  MigInv'
<1> USE TenSteps, TablespacesIsAStep
<1>1. /\ lock # Idle /\ doing = i /\ ledger' = i /\ doing' = i + 1 /\ handled' = {}
      /\ UNCHANGED <<form, shared, teams, lock, busy, torn>>
  BY DEF Record, In
<1>2. i = IF ledger = NoLedger THEN 1 ELSE ledger + 1
  BY <1>1 DEF MigInv, Orderly, InOrder
<1>3. Orderly'
  BY <1>1 DEF Orderly, InOrder, Fresh
<1>4. ASSUME ~torn, i \notin BestEffort PROVE \A o \in Objects : form[i][o] = "new"
  <2>1. CASE handled = Objects
    BY <1>1, <1>4, <2>1 DEF MigInv, Coherent, Dealt
  <2>2. CASE NothingToMove(i)
    BY <1>1, <1>4, <2>2 DEF MigInv, Coherent, Away, NothingToMove
  <2> QED BY <2>1, <2>2 DEF Record, Complete
<1>5. ~torn' => Coherent'
  <2> SUFFICES ASSUME ~torn PROVE Coherent'
    BY <1>1
  <2>1. i # Tablespaces => \A j \in Steps, o \in Objects : form[j][o] # "moved"
    BY <1>1 DEF MigInv, Coherent, Moving
  <2>2. i = Tablespaces => \A j \in Steps, o \in Objects : form[j][o] # "moved"
    BY <1>4, TablespacesIsStrict DEF MigInv, Coherent, Moving
  <2>3. shared = "gone" => Objects = {}
    <3>1. (i = Tablespaces /\ busy = Objects /\ handled = {}) \/ shared # "gone" \/ Objects = {}
      BY <1>1 DEF MigInv, Coherent, Away
    <3> QED BY <3>1 DEF Record, Complete, NothingToMove
  <2> QED BY <1>1, <2>1, <2>2, <2>3 DEF MigInv, Coherent, Dealt, Moving, Away
<1>6. AppliedIsDone'
  <2> SUFFICES ASSUME ~torn, NEW j \in Steps \ BestEffort, j <= i, NEW o \in Objects
               PROVE  form[j][o] = "new"
    BY <1>1 DEF AppliedIsDone
  <2>1. CASE j = i
    BY <1>4, <2>1
  <2>2. CASE j # i
    <3>1. ledger # NoLedger /\ j <= ledger
      BY <1>2, <2>2 DEF MigInv, MigTypeOK
    <3> QED BY <3>1 DEF MigInv, AppliedIsDone
  <2> QED BY <2>1, <2>2
<1> QED BY <1>3, <1>5, <1>6 DEF MigInv
LEMMA PassingOver ==
    ASSUME MigInv, NEW i \in Steps, NEW o \in Objects, PassOver(i, o), MigTypeOK'
    PROVE  MigInv'
<1> USE TenSteps, TablespacesIsAStep
<1>1. /\ lock # Idle /\ doing = i /\ busy = {} /\ handled' = handled \cup {o}
      /\ UNCHANGED <<ledger, form, shared, teams, lock, doing, busy, torn>>
  BY DEF PassOver, In
<1>2. Orderly' /\ AppliedIsDone'
  BY <1>1 DEF MigInv, Orderly, InOrder, Fresh, AppliedIsDone
<1>3. ~torn' => Coherent'
  <2> SUFFICES ASSUME ~torn PROVE Coherent'
    BY <1>1
  <2>1. i \notin BestEffort => form[i][o] = "new"
    BY <1>1 DEF MigInv, Coherent, Moving, PassOver
  <2>2. shared # "gone"
    BY <1>1 DEF MigInv, Coherent, Away, PassOver, Ready
  <2> QED BY <1>1, <2>1, <2>2 DEF MigInv, Coherent, Dealt, Moving, Away
<1> QED BY <1>2, <1>3 DEF MigInv

LEMMA Advancing ==
    ASSUME MigInv, NEW i \in Steps, NEW o \in Objects, Advance(i, o), MigTypeOK'
    PROVE  MigInv'
<1> USE TenSteps, TablespacesIsAStep
<1>1. /\ lock # Idle /\ doing = i /\ busy \subseteq {o} /\ o \notin handled
      /\ UNCHANGED <<ledger, shared, teams, lock, doing, torn>>
  BY DEF Advance, In
<1>2. PICK f \in {"half", "moved", "new"} :
        /\ form' = [form EXCEPT ![i][o] = f]
        /\ busy' = IF f = "new" THEN {} ELSE {o}
        /\ handled' = IF f = "new" THEN handled \cup {o} ELSE handled
        /\ f = "moved" => i = Tablespaces
        /\ form[i][o] # "new"
  BY DEF Advance, Tablespaces
<1>3. \A j \in Steps, p \in Objects : form'[j][p] = IF j = i /\ p = o THEN f ELSE form[j][p]
  BY <1>2, Forms DEF MigInv
<1>4. i = IF ledger = NoLedger THEN 1 ELSE ledger + 1
  BY <1>1 DEF MigInv, Orderly, InOrder
<1>5. Orderly'
  <2>1. ~(ledger = NoLedger /\ ~teams)
    BY <1>2 DEF MigInv, Orderly, Fresh
  <2> QED BY <1>1, <2>1 DEF MigInv, Orderly, InOrder, Fresh
<1>6. ~torn' => Coherent'
  <2> SUFFICES ASSUME ~torn PROVE Coherent'
    BY <1>1
  <2>1. Dealt'
    BY <1>1, <1>2, <1>3 DEF MigInv, MigTypeOK, Coherent, Dealt
  <2>2. Moving'
    BY <1>1, <1>2, <1>3 DEF MigInv, Coherent, Moving
  <2>3. shared # "gone"
    BY <1>1 DEF MigInv, Coherent, Away, Advance, Ready, Tablespaces
  <2>4. shared # "mounted" => i # Tablespaces
    BY DEF Advance, Ready, Tablespaces
  <2> QED BY <1>1, <1>3, <2>1, <2>2, <2>3, <2>4 DEF MigInv, Coherent, Away
<1>7. AppliedIsDone'
  BY <1>1, <1>3, <1>4 DEF MigInv, MigTypeOK, AppliedIsDone
<1> QED BY <1>5, <1>6, <1>7 DEF MigInv

(* A step on record has left nothing it answers for in an old form, over any  *)
(* number of deaths, reruns and processes.                                    *)
THEOREM RecordedIsDone == ASSUME MigConstants PROVE MigSpec => []AppliedIsDone
<1>1. MigInit /\ MigTypeOK => MigInv
  <2> SUFFICES ASSUME MigInit, MigTypeOK PROVE MigInv
    OBVIOUS
  <2> USE TenSteps, TablespacesIsAStep
  <2>1. \A i \in Steps, o \in Objects :
          form[i][o] = IF (IF ledger = NoLedger THEN teams ELSE i > ledger) THEN "old" ELSE "new"
    BY DEF MigInit
  <2>2. Orderly
    BY <2>1 DEF MigInit, Orderly, InOrder, Fresh
  <2>3. AppliedIsDone
    BY <2>1 DEF MigInit, AppliedIsDone
  <2>4. Coherent
    BY <2>1 DEF MigInit, Coherent, Dealt, Moving, Away
  <2> QED BY <2>2, <2>3, <2>4 DEF MigInv
<1>2. MigInv /\ [MigNext]_migVars /\ MigTypeOK' => MigInv'
  <2> SUFFICES ASSUME MigInv, [MigNext]_migVars, MigTypeOK' PROVE MigInv'
    OBVIOUS
  <2>1. CASE UNCHANGED migVars
    BY <2>1 DEF migVars, MigInv, MigTypeOK, Orderly, InOrder, Fresh, Coherent, Dealt, Moving, Away,
                AppliedIsDone
  <2> QED BY <2>1, Entering, Leaving, Closing, Dying, Recording, PassingOver, Advancing DEF MigNext
<1>3. MigInv => AppliedIsDone
  BY DEF MigInv
<1> QED BY <1>1, <1>2, <1>3, TypeCorrect, PTL DEF MigSpec

-----------------------------------------------------------------------------
(* The upgrade for any number of servers, writes, edits and deaths. Whatever  *)
(* is about to go is in the journal, or in a dump, before it goes, and leaves *)
(* the journal only when it is back: the invariant says so of the databases   *)
(* (Data), of the applications (Applications), of the template (Templates)    *)
(* and of the archive of production (Archived), each according to how far the *)
(* journal and the server are (Progress).                                     *)

Under == journal # NoJournal
Phase(k) == journal.phase[k]

(* Who does what.                                                             *)
Control ==
    /\ boss = Nobody <=> at = "none"
    /\ \A s \in Servers : up[s] = "upgrading" <=> s = boss
    /\ boss # Nobody => \A s \in Servers \ {boss} : up[s] = "down"
    /\ at = "plan" => ~Under
    /\ Under \/ at \in {"none", "resume", "plan"}
    /\ (\E s \in Servers : up[s] = "serving") => ~Under

(* A command that is at work found no upgrade and none began.                 *)
Apart == cli = "applying" => boss = Nobody /\ ~Under

(* How far the clusters are.                                                  *)
Cancelling == at \in {"cancel", "cancel_dumps", "cancel_journal"}

Progress ==
    /\ Under => \A k \in Clusters :
         /\ Phase(k) = "dump" => vol[k] = "old"
         /\ Phase(k) \in {"create_new", "restore", "done"} => vol[k] # "old"
    /\ at \in {"stop", "dump"} => \A k \in Planned : Phase(k) = "dump"
    /\ Cancelling => Revocable
    /\ at \in {"applications", "saving", "finish"} => Unfinished = {}

(* The last write is in the cluster until its removal is committed, and in    *)
(* the dump, which nothing overtakes, from then until it is restored.         *)
Safe(k) ==
    \/ ~Under
    \/ Phase(k) \in {"out", "dump", "done"}
    \/ Phase(k) = "remove_old" /\ Intact(k)
Committed == at \in {"retire", "clusters"} \/ (Under /\ ~Revocable)
InDump(k) == dump[k] = latest[k] /\ ~app[k]

Data ==
    /\ \A k \in Clusters : Safe(k) => data[k] = latest[k]
    /\ Committed => \A k \in Clusters :
                      Phase(k) \in {"remove_old", "create_new", "restore"} => InDump(k)
    /\ at = "dump" => \A k \in Planned : ~app[k] /\ (k \notin todo => dump[k] = latest[k])

(* An application that is down and should run is on the list of those that    *)
(* the upgrade stopped and has not started again.                             *)
Applications ==
    /\ \A k \in Clusters : wanted[k] /\ ~app[k] =>
         /\ Under /\ k \in journal.stopped /\ ~journal.started
         /\ at \notin {"cancel_dumps", "cancel_journal", "saving", "finish"}
    /\ at = "stop" => ~journal.started

(* A template whose database went with the old cluster is still listed.       *)
Templates ==
    /\ \/ tplDb \/ tplDump = "gone"
       \/ /\ Under /\ journal.template = "listed" /\ at # "finish"
          /\ Phase("dev") \notin {"out", "dump"} /\ vol["dev"] # "old"
    /\ Under /\ journal.template = "settled" => tplDump = "gone" \/ Unfinished = {}

(* The archive is that of production's cluster, or a base backup is due, or   *)
(* its deletion is on record and will be answered by one.                     *)
Archived ==
    /\ \/ baseDue \/ archive = vol["prod"]
       \/ Under /\ journal.deleting /\ at \notin {"cancel_journal", "finish"}
    /\ Under => /\ journal.deleting => Phase("prod") \notin {"out", "dump"}
                /\ journal.deleted => journal.deleting
                /\ Phase("prod") \in {"create_new", "restore", "done"} => journal.deleting
                /\ Phase("prod") # "out" /\ (journal.started \/ at \in {"applications", "saving"})
                     => baseDue
    /\ at = "retire" => journal.deleting

UpInv == UpTypeOK /\ Control /\ Progress /\ Applications /\ Templates /\ Archived

(* UpTypeOK in three parts.                                                   *)
ServersTyped ==
    /\ image \in {"old", "new"} /\ conf \in [Servers -> {"old", "new"}]
    /\ up \in [Servers -> {"down", "booting", "upgrading", "serving"}]
    /\ boss \in Servers \cup {Nobody} /\ at \in Places /\ todo \subseteq Clusters
    /\ then \in {"plan", "exit"} /\ cli \in {"idle", "applying"}
    /\ failures \in 0..MaxFailures /\ configEdits \in 0..MaxEdits /\ starts \in 0..MaxStarts
ClustersTyped ==
    /\ vol \in [Clusters -> Majors] /\ box \in [Clusters -> Majors] /\ runs \in [Clusters -> BOOLEAN]
    /\ data \in [Clusters -> 0..MaxWrites + 1] /\ latest \in [Clusters -> 0..MaxWrites + 1]
    /\ app \in [Clusters -> BOOLEAN] /\ wanted \in [Clusters -> BOOLEAN]
    /\ dump \in [Clusters -> 0..MaxWrites + 1]
    /\ tplDb \in BOOLEAN /\ tplDump \in {"ok", "broken", "gone"}
    /\ archive \in Majors /\ baseDue \in BOOLEAN
JournalTyped == journal \in Journals \cup {NoJournal}

-----------------------------------------------------------------------------
LEMMA Fields ==
    ASSUME NEW j \in Journals
    PROVE  /\ j.image \in {"old", "new"} /\ j.phase \in [Clusters -> Phases]
           /\ j.wasRunning \subseteq Clusters /\ j.stopped \subseteq Clusters
           /\ j.deleting \in BOOLEAN /\ j.deleted \in BOOLEAN /\ j.started \in BOOLEAN
           /\ j.template \in {"listed", "settled"} /\ j # NoJournal
BY UpConstants DEF Journals

LEMMA WithPhases ==
    ASSUME NEW j \in Journals, NEW ph \in [Clusters -> Phases],
           NEW n, n = [j EXCEPT !.phase = ph]
    PROVE  /\ n \in Journals /\ n.phase = ph /\ n.image = j.image
           /\ n.wasRunning = j.wasRunning /\ n.stopped = j.stopped
           /\ n.deleting = j.deleting /\ n.deleted = j.deleted
           /\ n.started = j.started /\ n.template = j.template
BY DEF Journals

LEMMA WithPhase ==
    ASSUME NEW j \in Journals, NEW k \in Clusters, NEW p \in Phases,
           NEW n, n = [j EXCEPT !.phase[k] = p]
    PROVE  /\ n \in Journals /\ n.phase = [j.phase EXCEPT ![k] = p] /\ n.image = j.image
           /\ n.wasRunning = j.wasRunning /\ n.stopped = j.stopped
           /\ n.deleting = j.deleting /\ n.deleted = j.deleted
           /\ n.started = j.started /\ n.template = j.template
BY DEF Journals

LEMMA WithStopped ==
    ASSUME NEW j \in Journals, NEW k \in Clusters,
           NEW n, n = [j EXCEPT !.stopped = @ \cup {k}]
    PROVE  /\ n \in Journals /\ n.phase = j.phase /\ n.image = j.image
           /\ n.wasRunning = j.wasRunning /\ n.stopped = j.stopped \cup {k}
           /\ n.deleting = j.deleting /\ n.deleted = j.deleted
           /\ n.started = j.started /\ n.template = j.template
BY DEF Journals

LEMMA WithDeleting ==
    ASSUME NEW j \in Journals, NEW n, n = [j EXCEPT !.deleting = TRUE]
    PROVE  /\ n \in Journals /\ n.phase = j.phase /\ n.image = j.image
           /\ n.wasRunning = j.wasRunning /\ n.stopped = j.stopped
           /\ n.deleting = TRUE /\ n.deleted = j.deleted
           /\ n.started = j.started /\ n.template = j.template
BY DEF Journals

LEMMA WithDeleted ==
    ASSUME NEW j \in Journals, NEW n, n = [j EXCEPT !.deleted = TRUE]
    PROVE  /\ n \in Journals /\ n.phase = j.phase /\ n.image = j.image
           /\ n.wasRunning = j.wasRunning /\ n.stopped = j.stopped
           /\ n.deleting = j.deleting /\ n.deleted = TRUE
           /\ n.started = j.started /\ n.template = j.template
BY DEF Journals

LEMMA WithStarted ==
    ASSUME NEW j \in Journals, NEW n, n = [j EXCEPT !.started = TRUE]
    PROVE  /\ n \in Journals /\ n.phase = j.phase /\ n.image = j.image
           /\ n.wasRunning = j.wasRunning /\ n.stopped = j.stopped
           /\ n.deleting = j.deleting /\ n.deleted = j.deleted
           /\ n.started = TRUE /\ n.template = j.template
BY DEF Journals

LEMMA WithTemplate ==
    ASSUME NEW j \in Journals, NEW n, n = [j EXCEPT !.template = "settled"]
    PROVE  /\ n \in Journals /\ n.phase = j.phase /\ n.image = j.image
           /\ n.wasRunning = j.wasRunning /\ n.stopped = j.stopped
           /\ n.deleting = j.deleting /\ n.deleted = j.deleted
           /\ n.started = j.started /\ n.template = "settled"
BY DEF Journals

LEMMA Opened ==
    ASSUME UpTypeOK, boss \in Servers
    PROVE  /\ NewJournal \in Journals /\ NewJournal.image = conf[boss]
           /\ NewJournal.phase = [k \in Clusters |-> IF k \in Aged THEN "dump" ELSE "out"]
           /\ \A k \in Clusters : NewJournal.phase[k] = IF k \in Aged THEN "dump" ELSE "out"
           /\ NewJournal.stopped = {} /\ NewJournal.wasRunning = {k \in Aged : runs[k]}
           /\ NewJournal.deleting = FALSE /\ NewJournal.deleted = FALSE /\ NewJournal.started = FALSE
           /\ NewJournal.template = ListedTemplates
<1>1. conf[boss] \in {"old", "new"} BY DEF UpTypeOK
<1>2. [k \in Clusters |-> IF k \in Aged THEN "dump" ELSE "out"] \in [Clusters -> Phases]
  BY DEF Phases
<1>3. {k \in Aged : runs[k]} \subseteq Clusters BY DEF Aged
<1>4. ListedTemplates \in {"listed", "settled"} BY DEF ListedTemplates
<1> HIDE DEF ListedTemplates
<1>. QED BY <1>1, <1>2, <1>3, <1>4 DEF NewJournal, Journals

(* A step writes at most one field of the journal.                            *)
WritesOnly(field) ==
    /\ journal \in Journals /\ journal' \in Journals
    /\ journal'.image = journal.image /\ journal'.wasRunning = journal.wasRunning
    /\ field # "phase" => journal'.phase = journal.phase
    /\ field # "stopped" => journal'.stopped = journal.stopped
    /\ field # "deleting" => journal'.deleting = journal.deleting
    /\ field # "deleted" => journal'.deleted = journal.deleted
    /\ field # "started" => journal'.started = journal.started
    /\ field # "template" => journal'.template = journal.template

LEMMA Noted ==
    ASSUME UpTypeOK, Control
    PROVE  /\ \A k \in Clusters :
                RecordStop(k) => WritesOnly("stopped") /\ journal'.stopped = journal.stopped \cup {k}
           /\ CommitRemoval =>
                /\ WritesOnly("phase")
                /\ \A c \in Clusters : journal'.phase[c] = IF c \in Planned THEN "remove_old" ELSE "out"
           /\ BeginRetirement => WritesOnly("deleting") /\ journal'.deleting = TRUE
           /\ FinishRetirement => WritesOnly("deleted") /\ journal'.deleted = TRUE
           /\ SaveStarted => WritesOnly("started") /\ journal'.started = TRUE
           /\ RestoreTemplate =>
                \/ UNCHANGED journal /\ at' = "none"
                \/ WritesOnly("template") /\ journal'.template = "settled" /\ UNCHANGED process
<1>0. at \in {"stop", "dump", "clusters", "retire", "saving"} => journal \in Journals
  BY DEF UpTypeOK, Control, Under
<1>1. ASSUME NEW k \in Clusters, RecordStop(k)
      PROVE  WritesOnly("stopped") /\ journal'.stopped = journal.stopped \cup {k}
  BY <1>0, <1>1, WithStopped DEF RecordStop, WritesOnly
<1>2. ASSUME CommitRemoval
      PROVE  /\ WritesOnly("phase")
             /\ \A c \in Clusters : journal'.phase[c] = IF c \in Planned THEN "remove_old" ELSE "out"
  <2> DEFINE ph == [c \in Clusters |-> IF c \in Planned THEN "remove_old" ELSE "out"]
  <2>1. ph \in [Clusters -> Phases] BY DEF Phases
  <2>2. \A c \in Clusters : ph[c] = IF c \in Planned THEN "remove_old" ELSE "out" OBVIOUS
  <2>3. journal' = [journal EXCEPT !.phase = ph] BY <1>2 DEF CommitRemoval
  <2> HIDE DEF ph
  <2>. QED BY <1>0, <1>2, <2>1, <2>2, <2>3, WithPhases DEF CommitRemoval, WritesOnly
<1>3. ASSUME BeginRetirement PROVE WritesOnly("deleting") /\ journal'.deleting = TRUE
  BY <1>0, <1>3, WithDeleting DEF BeginRetirement, WritesOnly
<1>4. ASSUME FinishRetirement PROVE WritesOnly("deleted") /\ journal'.deleted = TRUE
  BY <1>0, <1>4, WithDeleted DEF FinishRetirement, WritesOnly
<1>5. ASSUME SaveStarted PROVE WritesOnly("started") /\ journal'.started = TRUE
  BY <1>0, <1>5, WithStarted DEF SaveStarted, WritesOnly
<1>6. ASSUME RestoreTemplate
      PROVE  \/ UNCHANGED journal /\ at' = "none"
             \/ WritesOnly("template") /\ journal'.template = "settled" /\ UNCHANGED process
  BY <1>0, <1>6, WithTemplate DEF RestoreTemplate, Exit, WritesOnly
<1>. QED BY <1>1, <1>2, <1>3, <1>4, <1>5, <1>6

(* What a step of the replacement writes.                                     *)
Rewrites(k, p) ==
    /\ WritesOnly("phase") /\ at = "clusters"
    /\ \A c \in Clusters : journal'.phase[c] = IF c = k THEN p ELSE journal.phase[c]
    /\ UNCHANGED <<settings, clusters, latest, app, wanted, dump, tplDump, archive, baseDue,
                   process, cli, bounds>>

LEMMA Saving ==
    ASSUME UpTypeOK, Control, NEW k \in Clusters, NEW p \in Phases, at = "clusters", SaveIn(k, p)
    PROVE  Rewrites(k, p)
<1>1. journal \in Journals BY DEF UpTypeOK, Control, Under
<1>2. journal' = [journal EXCEPT !.phase[k] = p] BY DEF SaveIn
<1>3. UNCHANGED <<settings, clusters, latest, app, wanted, dump, tplDump, archive, baseDue,
                  process, cli, bounds>>
  BY DEF SaveIn, Works, bounds
<1>4. [journal.phase EXCEPT ![k] = p] \in [Clusters -> Phases] BY <1>1, Fields
<1>5. journal' \in Journals BY <1>1, <1>2, <1>4 DEF Journals
<1>6. /\ journal'.phase = [journal.phase EXCEPT ![k] = p]
      /\ journal'.image = journal.image
      /\ journal'.wasRunning = journal.wasRunning /\ journal'.stopped = journal.stopped
      /\ journal'.deleting = journal.deleting /\ journal'.deleted = journal.deleted
      /\ journal'.started = journal.started /\ journal'.template = journal.template
  BY <1>1, <1>2 DEF Journals
<1>7. \A c \in Clusters : journal'.phase[c] = IF c = k THEN p ELSE journal.phase[c]
  BY <1>1, <1>6, Fields
<1>. QED BY <1>1, <1>3, <1>5, <1>6, <1>7 DEF Rewrites, WritesOnly

LEMMA Saved ==
    ASSUME UpTypeOK, Control, NEW k \in Clusters
    PROVE  /\ SaveRemoved(k) => Rewrites(k, "create_new")
           /\ SaveCreated(k) => Rewrites(k, "restore")
           /\ SaveRestored(k) => Rewrites(k, "done")
<1>1. {"create_new", "restore", "done"} \subseteq Phases BY DEF Phases
<1>2. ASSUME SaveRemoved(k) PROVE Rewrites(k, "create_new")
  BY <1>1, <1>2, Saving DEF SaveRemoved, Replacing
<1>3. ASSUME SaveCreated(k) PROVE Rewrites(k, "restore")
  BY <1>1, <1>3, Saving DEF SaveCreated, Replacing
<1>4. ASSUME SaveRestored(k) PROVE Rewrites(k, "done")
  BY <1>1, <1>4, Saving DEF SaveRestored, Replacing
<1>. QED BY <1>2, <1>3, <1>4

(* Applications that are started run, but for one that fails and is given up. *)
LEMMA Restarting ==
    ASSUME UpTypeOK, NEW K \in SUBSET Clusters, Restarted(K)
    PROVE  /\ app' \in [Clusters -> BOOLEAN] /\ wanted' \in [Clusters -> BOOLEAN]
           /\ \A k \in Clusters : /\ app[k] => app'[k]
                                  /\ wanted'[k] => wanted[k]
                                  /\ k \in K /\ wanted'[k] => app'[k]
           /\ \A k \in Clusters \ K : app'[k] = app[k]
<1>1. CASE /\ app' = [k \in Clusters |-> app[k] \/ k \in K] /\ UNCHANGED wanted
  <2>1. \A k \in Clusters : (app[k] \/ k \in K) \in BOOLEAN OBVIOUS
  <2>. QED BY <1>1, <2>1 DEF UpTypeOK
<1>2. ASSUME NEW bad \in K, app' = [k \in Clusters |-> app[k] \/ k \in K \ {bad}],
             wanted' = [wanted EXCEPT ![bad] = FALSE]
      PROVE  /\ app' \in [Clusters -> BOOLEAN] /\ wanted' \in [Clusters -> BOOLEAN]
             /\ \A k \in Clusters : /\ app[k] => app'[k]
                                    /\ wanted'[k] => wanted[k]
                                    /\ k \in K /\ wanted'[k] => app'[k]
             /\ \A k \in Clusters \ K : app'[k] = app[k]
  <2>1. \A k \in Clusters : (app[k] \/ k \in K \ {bad}) \in BOOLEAN OBVIOUS
  <2>. QED BY <1>2, <2>1 DEF UpTypeOK
<1>. QED BY <1>1, <1>2 DEF Restarted

-----------------------------------------------------------------------------
(* Types: the servers and the bounds, the clusters and files, the journal.    *)
LEMMA TypesServers ==
    ASSUME UpTypeOK, Control, UpNext
    PROVE  ServersTyped'
<1> USE UpConstants DEF UpTypeOK, ServersTyped, Places, Control
<1>1. CASE
     \/ \E k \in Clusters : RecordStop(k) \/ StopApplication(k)
                            \/ RemoveContainer(k) \/ RemoveVolume(k)
                            \/ SaveRemoved(k) \/ CreateCluster(k)
                            \/ SaveCreated(k) \/ SaveRestored(k)
                            \/ ApplicationWrites(k)
     \/ StartForDump \/ DeleteArchive \/ BaseBackup
  <2>1. UNCHANGED <<image, conf, up, boss, at, todo, then, cli, failures, configEdits, starts>>
    BY <1>1 DEF RecordStop,
        settings, clusters, process, Works, bounds, StopApplication, files,
        RemoveContainer, RemoveVolume, SaveRemoved, SaveIn, CreateCluster,
        SaveCreated, SaveRestored, StartForDump, DeleteArchive,
        ApplicationWrites, WriteDatabase, BaseBackup
  <2>. QED BY <2>1
<1>2. ASSUME NEW s \in Servers, BootServer(s) PROVE ServersTyped'
  BY <1>2 DEF BootServer, Works, clusters, files, bounds
<1>3. ASSUME NEW s \in Servers, RefuseImage(s) PROVE ServersTyped'
  BY <1>3 DEF RefuseImage, settings, clusters, files, bounds
<1>4. ASSUME NEW s \in Servers, ServeAsIs(s) PROVE ServersTyped'
  BY <1>4 DEF ServeAsIs, BroughtUp, settings, files, bounds
<1>5. ASSUME NEW s \in Servers, TakeOver(s) PROVE ServersTyped'
  BY <1>5 DEF TakeOver, settings, clusters, files, bounds
<1>6. ASSUME NEW s \in Servers, StopServer(s) PROVE ServersTyped'
  BY <1>6 DEF StopServer, Fails, Works, settings, clusters, files, bounds
<1>7. CASE Resume
  BY <1>7 DEF Resume, Goto, Cancels, CancelThen, Exit, GotoWith, settings,
      clusters, files, Works, bounds
<1>8. CASE Cancel
  BY <1>8 DEF Cancel, Restarted, Goto, settings, files, Works, Fails, bounds
<1>9. CASE CancelDumps
  BY <1>9 DEF CancelDumps, DeletionNoted, Goto, settings, clusters, Works,
      bounds
<1>10. CASE CancelJournal
  BY <1>10 DEF CancelJournal, Goto, Exit, settings, clusters, Works, bounds
<1>11. CASE PlanClusters
  BY <1>11 DEF PlanClusters, BroughtUp, Works, WouldBeLost, Exit, NewJournal,
      Goto, settings, bounds, ListedTemplates
<1>12. ASSUME NEW k \in Clusters, RestoreDatabase(k) PROVE ServersTyped'
  BY <1>12 DEF RestoreDatabase, Replacing, process, Works, Exit, Fails,
      settings, files, ToRetire, Turn, bounds
<1>13. CASE BeginDumps
  BY <1>13 DEF BeginDumps, AllStopped, GotoWith, settings, clusters, files,
      Works, bounds, Planned
<1>14. CASE DumpCluster
  BY <1>14 DEF DumpCluster, Turn, GotoWith, settings, Works, bounds
<1>15. CASE DumpFails
  BY <1>15 DEF DumpFails, CancelThen, Fails, settings, clusters, files
<1>16. CASE CommitRemoval
  BY <1>16 DEF CommitRemoval, Goto, settings, clusters, Works, bounds
<1>17. CASE BeginRetirement
  BY <1>17 DEF BeginRetirement, ToRetire, Goto, settings, Works, bounds
<1>18. CASE FinishRetirement
  BY <1>18 DEF FinishRetirement, Goto, settings, clusters, Works, bounds
<1>19. CASE RetirementFails
  BY <1>19 DEF RetirementFails, CancelThen, Exit, Fails, settings, clusters
<1>20. CASE PrepareProduction
  BY <1>20 DEF PrepareProduction, Goto, settings, Works, bounds
<1>21. CASE StartApplications
  BY <1>21 DEF StartApplications, Restarted, Goto, settings, clusters, files,
      Works, Fails, bounds
<1>22. CASE SaveStarted
  BY <1>22 DEF SaveStarted, Goto, settings, clusters, Works, bounds
<1>23. CASE RestoreTemplate
  BY <1>23 DEF RestoreTemplate, Exit, process, settings, Works, bounds
<1>24. CASE FinishUpgrade
  BY <1>24 DEF FinishUpgrade, TemplatesSettled, Goto, settings, clusters,
      Works, bounds
<1>25. CASE ForgetJournal
  BY <1>25 DEF ForgetJournal, Goto, settings, clusters, Works, bounds
<1>26. CASE Die
  BY <1>26 DEF Die, Exit, Fails, settings, clusters, files
<1>27. CASE EditImage
  BY <1>27 DEF EditImage, clusters, files, process
<1>28. CASE HeedRefusal
  BY <1>28 DEF HeedRefusal, clusters, files, process, bounds
<1>29. CASE EditTemplate
  BY <1>29 DEF EditTemplate, settings, process
<1>30. CASE CommandBegins
  BY <1>30 DEF CommandBegins, settings, clusters, files, process, bounds
<1>31. CASE CommandEnds
  BY <1>31 DEF CommandEnds, WriteDatabase, settings, clusters, files, process,
      bounds
<1>. QED
  BY <1>1, <1>2, <1>3, <1>4, <1>5, <1>6, <1>7, <1>8, <1>9, <1>10, <1>11,
     <1>12, <1>13, <1>14, <1>15, <1>16, <1>17, <1>18, <1>19, <1>20, <1>21,
     <1>22, <1>23, <1>24, <1>25, <1>26, <1>27, <1>28, <1>29, <1>30, <1>31
    DEF UpNext, ServerSteps, UpgradeSteps

LEMMA TypesClusters ==
    ASSUME UpTypeOK, Control, UpNext
    PROVE  ClustersTyped'
<1> USE UpConstants DEF UpTypeOK, ClustersTyped, Majors, Control, Under
<1>1. CASE
     \/ \E s \in Servers : BootServer(s) \/ RefuseImage(s) \/ TakeOver(s)
                           \/ StopServer(s)
     \/ \E k \in Clusters : RecordStop(k) \/ SaveRemoved(k)
                            \/ SaveCreated(k) \/ SaveRestored(k)
     \/ Resume \/ CancelJournal \/ BeginDumps \/ DumpFails \/ CommitRemoval
        \/ FinishRetirement \/ SaveStarted \/ ForgetJournal \/ Die
        \/ EditImage \/ HeedRefusal \/ CommandBegins
  <2>1. UNCHANGED <<vol, box, runs, data, latest, app, wanted, dump, tplDb, tplDump, archive, baseDue>>
    BY <1>1 DEF BootServer,
        Works, clusters, files, bounds, RefuseImage, settings, TakeOver,
        StopServer, Fails, Resume, Goto, CancelThen, Exit, GotoWith,
        CancelJournal, RecordStop, process, SaveRemoved, SaveIn, SaveCreated,
        SaveRestored, BeginDumps, DumpFails, CommitRemoval, FinishRetirement,
        SaveStarted, ForgetJournal, Die, EditImage, HeedRefusal, CommandBegins
  <2>. QED BY <2>1
<1>2. ASSUME NEW s \in Servers, ServeAsIs(s) PROVE ClustersTyped'
  BY <1>2 DEF ServeAsIs, BroughtUp, settings, files, bounds
<1>3. CASE Cancel
  <2>1. journal \in Journals BY <1>3 DEF Cancel
  <2>2. journal.stopped \in SUBSET Clusters BY <2>1, Fields
  <2>3. app' \in [Clusters -> BOOLEAN] /\ wanted' \in [Clusters -> BOOLEAN]
    BY <1>3, <2>2, Restarting DEF Cancel
  <2>. QED BY <1>3, <2>3 DEF Cancel, Goto, settings, files
<1>4. CASE CancelDumps
  BY <1>4 DEF CancelDumps, DeletionNoted, Goto, settings, clusters, Works,
      bounds
<1>5. CASE PlanClusters
  BY <1>5, Opened DEF PlanClusters, BroughtUp, Works, WouldBeLost, Exit, Goto,
      settings, bounds
<1>6. ASSUME NEW k \in Clusters, StopApplication(k) PROVE ClustersTyped'
  BY <1>6 DEF StopApplication, settings, clusters, files, process, Works,
      bounds
<1>7. ASSUME NEW k \in Clusters, RemoveContainer(k) PROVE ClustersTyped'
  BY <1>7 DEF RemoveContainer, Replacing, settings, files, process, Works,
      ToRetire, Turn, bounds
<1>8. ASSUME NEW k \in Clusters, RemoveVolume(k) PROVE ClustersTyped'
  BY <1>8 DEF RemoveVolume, Replacing, settings, files, process, Works,
      ToRetire, Turn, bounds
<1>9. ASSUME NEW k \in Clusters, CreateCluster(k) PROVE ClustersTyped'
  BY <1>9 DEF CreateCluster, Replacing, settings, files, process, Works,
      ToRetire, Turn, bounds
<1>10. ASSUME NEW k \in Clusters, RestoreDatabase(k) PROVE ClustersTyped'
  BY <1>10 DEF RestoreDatabase, Replacing, process, Works, Exit, Fails,
      settings, files, ToRetire, Turn, bounds
<1>11. CASE StartForDump
  BY <1>11 DEF StartForDump, Turn, settings, files, process, Works, bounds
<1>12. CASE DumpCluster
  BY <1>12 DEF DumpCluster, Turn, GotoWith, settings, Works, bounds, Clusters
<1>13. CASE BeginRetirement
  <2>1. WritesOnly("deleting") /\ journal'.deleting = TRUE
    BY <1>13, Noted
  <2>. QED BY <1>13, <2>1, Fields DEF WritesOnly, BeginRetirement, ToRetire,
      Goto, settings, Works, bounds
<1>14. CASE DeleteArchive
  BY <1>14 DEF DeleteArchive, settings, clusters, process, Works, bounds
<1>15. CASE RetirementFails
  BY <1>15 DEF RetirementFails, CancelThen, Exit, Fails, settings, clusters
<1>16. CASE PrepareProduction
  <2>1. runs' \in [Clusters -> BOOLEAN] /\ baseDue' \in BOOLEAN
    <3>1. CASE "prod" \in Planned
      <4>1. ("prod" \in journal.wasRunning) \in BOOLEAN OBVIOUS
      <4>2. runs' = [runs EXCEPT !["prod"] = "prod" \in journal.wasRunning] /\ baseDue' = TRUE
        BY <1>16, <3>1 DEF PrepareProduction
      <4>. QED BY <4>1, <4>2
    <3>2. CASE "prod" \notin Planned BY <1>16, <3>2 DEF PrepareProduction
    <3>. QED BY <3>1, <3>2
  <2>. QED BY <1>16, <2>1 DEF PrepareProduction, Goto, settings
<1>17. CASE StartApplications
  <2>1. journal \in Journals BY <1>17 DEF StartApplications
  <2>2. journal.stopped \in SUBSET Clusters BY <2>1, Fields
  <2>3. app' \in [Clusters -> BOOLEAN] /\ wanted' \in [Clusters -> BOOLEAN]
    BY <1>17, <2>2, Restarting DEF StartApplications
  <2>. QED BY <1>17, <2>3 DEF StartApplications, Goto, settings, clusters, files
<1>18. CASE RestoreTemplate
  <2>1. \/ UNCHANGED journal /\ at' = "none"
        \/ WritesOnly("template") /\ journal'.template = "settled" /\ UNCHANGED process
    BY <1>18, Noted
  <2>. QED BY <1>18, <2>1, Fields DEF WritesOnly, RestoreTemplate, Unfinished,
      Planned, Exit, process, settings, Works, bounds
<1>19. CASE FinishUpgrade
  BY <1>19 DEF FinishUpgrade, TemplatesSettled, Goto, settings, clusters,
      Works, bounds
<1>20. ASSUME NEW k \in Clusters, ApplicationWrites(k) PROVE ClustersTyped'
  BY <1>20 DEF ApplicationWrites, WriteDatabase, settings, files, process,
      bounds
<1>21. CASE EditTemplate
  BY <1>21 DEF EditTemplate, settings, process
<1>22. CASE BaseBackup
  BY <1>22 DEF BaseBackup, settings, clusters, process, bounds, Clusters
<1>23. CASE CommandEnds
  BY <1>23 DEF CommandEnds, WriteDatabase, settings, clusters, files, process,
      bounds
<1>. QED
  BY <1>1, <1>2, <1>3, <1>4, <1>5, <1>6, <1>7, <1>8, <1>9, <1>10, <1>11,
     <1>12, <1>13, <1>14, <1>15, <1>16, <1>17, <1>18, <1>19, <1>20, <1>21,
     <1>22, <1>23
    DEF UpNext, ServerSteps, UpgradeSteps

LEMMA TypesJournal ==
    ASSUME UpTypeOK, Control, UpNext
    PROVE  JournalTyped'
<1> USE UpConstants DEF UpTypeOK, JournalTyped, Control, Under
<1>1. CASE
     \/ \E s \in Servers : BootServer(s) \/ RefuseImage(s) \/ ServeAsIs(s)
                           \/ TakeOver(s) \/ StopServer(s)
     \/ \E k \in Clusters : StopApplication(k) \/ RemoveContainer(k)
                            \/ RemoveVolume(k) \/ CreateCluster(k)
                            \/ RestoreDatabase(k) \/ ApplicationWrites(k)
     \/ Resume \/ Cancel \/ CancelDumps \/ BeginDumps \/ StartForDump
        \/ DumpCluster \/ DumpFails \/ DeleteArchive \/ RetirementFails
        \/ PrepareProduction \/ StartApplications \/ FinishUpgrade \/ Die
        \/ EditImage \/ HeedRefusal \/ EditTemplate \/ BaseBackup
        \/ CommandBegins \/ CommandEnds
  <2>1. UNCHANGED journal
    BY <1>1 DEF BootServer, Works, clusters, files,
        bounds, RefuseImage, settings, ServeAsIs, TakeOver, StopServer, Fails,
        Resume, Goto, CancelThen, Exit, GotoWith, Cancel, Restarted,
        CancelDumps, StopApplication, process, RemoveContainer, RemoveVolume,
        CreateCluster, RestoreDatabase, BeginDumps, StartForDump, DumpCluster,
        DumpFails, DeleteArchive, RetirementFails, PrepareProduction,
        StartApplications, FinishUpgrade, Die, ApplicationWrites,
        WriteDatabase, EditImage, HeedRefusal, EditTemplate, BaseBackup,
        CommandBegins, CommandEnds
  <2>. QED BY <2>1
<1>2. CASE CancelJournal
  BY <1>2 DEF CancelJournal, Goto, Exit, settings, clusters, Works, bounds
<1>3. CASE PlanClusters
  BY <1>3, Opened DEF PlanClusters, BroughtUp, Works, WouldBeLost, Exit, Goto,
      settings, bounds
<1>4. ASSUME NEW k \in Clusters, RecordStop(k) PROVE JournalTyped'
  <2>1. WritesOnly("stopped") /\ journal'.stopped = journal.stopped \cup {k}
    BY <1>4, Noted
  <2>. QED BY <1>4, <2>1, Fields DEF WritesOnly, RecordStop, Affected, settings,
      clusters, process, Works, Planned, bounds
<1>5. ASSUME NEW k \in Clusters, SaveRemoved(k) PROVE JournalTyped'
  <2>1. Rewrites(k, "create_new") BY <1>5, Saved
  <2>. QED
    BY <2>1, <1>5, Fields DEF Rewrites, WritesOnly, Phases, settings, clusters, process, bounds,
       SaveRemoved, Replacing
<1>6. ASSUME NEW k \in Clusters, SaveCreated(k) PROVE JournalTyped'
  <2>1. Rewrites(k, "restore") BY <1>6, Saved
  <2>. QED
    BY <2>1, <1>6, Fields DEF Rewrites, WritesOnly, Phases, settings, clusters, process, bounds,
       SaveCreated, Replacing
<1>7. ASSUME NEW k \in Clusters, SaveRestored(k) PROVE JournalTyped'
  <2>1. Rewrites(k, "done") BY <1>7, Saved
  <2>. QED
    BY <2>1, <1>7, Fields DEF Rewrites, WritesOnly, Phases, settings, clusters, process, bounds,
       SaveRestored, Replacing
<1>8. CASE CommitRemoval
  <2>1. /\ WritesOnly("phase")
        /\ \A c \in Clusters : journal'.phase[c] = IF c \in Planned THEN "remove_old" ELSE "out"
    BY <1>8, Noted
  <2>. QED BY <1>8, <2>1, Fields DEF WritesOnly, CommitRemoval, Planned, Goto,
      settings, clusters, Works, bounds
<1>9. CASE BeginRetirement
  <2>1. WritesOnly("deleting") /\ journal'.deleting = TRUE
    BY <1>9, Noted
  <2>. QED BY <1>9, <2>1, Fields DEF WritesOnly, BeginRetirement, ToRetire,
      Goto, settings, Works, bounds
<1>10. CASE FinishRetirement
  <2>1. WritesOnly("deleted") /\ journal'.deleted = TRUE
    BY <1>10, Noted
  <2>. QED BY <1>10, <2>1, Fields DEF WritesOnly, FinishRetirement, Goto,
      settings, clusters, Works, bounds
<1>11. CASE SaveStarted
  <2>1. WritesOnly("started") /\ journal'.started = TRUE
    BY <1>11, Noted
  <2>. QED BY <1>11, <2>1, Fields DEF WritesOnly, SaveStarted, Goto, settings,
      clusters, Works, bounds
<1>12. CASE RestoreTemplate
  <2>1. \/ UNCHANGED journal /\ at' = "none"
        \/ WritesOnly("template") /\ journal'.template = "settled" /\ UNCHANGED process
    BY <1>12, Noted
  <2>. QED BY <1>12, <2>1, Fields DEF WritesOnly, RestoreTemplate, Unfinished,
      Planned, Exit, process, settings, Works, bounds
<1>13. CASE ForgetJournal
  BY <1>13 DEF ForgetJournal, Goto, settings, clusters, Works, bounds
<1>. QED
  BY <1>1, <1>2, <1>3, <1>4, <1>5, <1>6, <1>7, <1>8, <1>9, <1>10, <1>11,
     <1>12, <1>13
    DEF UpNext, ServerSteps, UpgradeSteps

-----------------------------------------------------------------------------
(* One server at most upgrades, alone; whoever serves found no journal.       *)
LEMMA ControlKept ==
    ASSUME UpTypeOK, Control, UpNext
    PROVE  Control'
<1> USE UpConstants DEF UpTypeOK, Control, Under
<1>1. CASE
     \/ \E k \in Clusters : StopApplication(k) \/ RemoveContainer(k)
                            \/ RemoveVolume(k) \/ CreateCluster(k)
                            \/ ApplicationWrites(k)
     \/ StartForDump \/ DeleteArchive \/ EditImage \/ HeedRefusal
        \/ EditTemplate \/ BaseBackup \/ CommandBegins \/ CommandEnds
  <2>1. UNCHANGED <<journal, up, boss, at>>
    BY <1>1 DEF StopApplication,
        settings, clusters, files, process, Works, bounds, RemoveContainer,
        RemoveVolume, CreateCluster, StartForDump, DeleteArchive,
        ApplicationWrites, WriteDatabase, EditImage, HeedRefusal,
        EditTemplate, BaseBackup, CommandBegins, CommandEnds
  <2>. QED BY <2>1
<1>2. ASSUME NEW s \in Servers, BootServer(s) PROVE Control'
  BY <1>2 DEF BootServer, Works, clusters, files, bounds
<1>3. ASSUME NEW s \in Servers, RefuseImage(s) PROVE Control'
  BY <1>3 DEF RefuseImage, settings, clusters, files, bounds
<1>4. ASSUME NEW s \in Servers, ServeAsIs(s) PROVE Control'
  BY <1>4 DEF ServeAsIs, BroughtUp, settings, files, bounds
<1>5. ASSUME NEW s \in Servers, TakeOver(s) PROVE Control'
  BY <1>5 DEF TakeOver, settings, clusters, files, bounds
<1>6. ASSUME NEW s \in Servers, StopServer(s) PROVE Control'
  BY <1>6 DEF StopServer, Fails, Works, settings, clusters, files, bounds
<1>7. CASE Resume
  BY <1>7 DEF Resume, Goto, Cancels, CancelThen, Exit, GotoWith, settings,
      clusters, files, Works, bounds
<1>8. CASE Cancel
  BY <1>8 DEF Cancel, Restarted, Goto, settings, files, Works, Fails, bounds
<1>9. CASE CancelDumps
  BY <1>9 DEF CancelDumps, DeletionNoted, Goto, settings, clusters, Works,
      bounds
<1>10. CASE CancelJournal
  BY <1>10 DEF CancelJournal, Goto, Exit, settings, clusters, Works, bounds
<1>11. CASE PlanClusters
  <2>1. boss \in Servers /\ NewJournal # NoJournal BY <1>11, Opened, Fields DEF PlanClusters
  <2>2. CASE boss' = Nobody
    BY <1>11, <2>1, <2>2 DEF PlanClusters, Exit, Goto, settings
  <2>3. CASE boss' # Nobody
    BY <1>11, <2>1, <2>3 DEF PlanClusters, Exit, Goto, settings
  <2>. QED BY <2>2, <2>3
<1>12. ASSUME NEW k \in Clusters, RecordStop(k) PROVE Control'
  <2>1. WritesOnly("stopped") /\ journal'.stopped = journal.stopped \cup {k}
    BY <1>12, Noted
  <2>. QED BY <1>12, <2>1, Fields DEF WritesOnly, RecordStop, Affected, settings,
      clusters, process, Works, Planned, bounds
<1>13. ASSUME NEW k \in Clusters, SaveRemoved(k) PROVE Control'
  <2>1. Rewrites(k, "create_new") BY <1>13, Saved
  <2>. QED
    BY <2>1, <1>13, Fields DEF Rewrites, WritesOnly, Phases, settings, clusters, process, bounds,
       SaveRemoved, Replacing
<1>14. ASSUME NEW k \in Clusters, SaveCreated(k) PROVE Control'
  <2>1. Rewrites(k, "restore") BY <1>14, Saved
  <2>. QED
    BY <2>1, <1>14, Fields DEF Rewrites, WritesOnly, Phases, settings, clusters, process, bounds,
       SaveCreated, Replacing
<1>15. ASSUME NEW k \in Clusters, RestoreDatabase(k) PROVE Control'
  BY <1>15 DEF RestoreDatabase, Replacing, process, Works, Exit, Fails,
      settings, files, ToRetire, Turn, bounds
<1>16. ASSUME NEW k \in Clusters, SaveRestored(k) PROVE Control'
  <2>1. Rewrites(k, "done") BY <1>16, Saved
  <2>. QED
    BY <2>1, <1>16, Fields DEF Rewrites, WritesOnly, Phases, settings, clusters, process, bounds,
       SaveRestored, Replacing
<1>17. CASE BeginDumps
  BY <1>17 DEF BeginDumps, AllStopped, GotoWith, settings, clusters, files,
      Works, bounds
<1>18. CASE DumpCluster
  BY <1>18 DEF DumpCluster, Turn, GotoWith, settings, Works, bounds
<1>19. CASE DumpFails
  BY <1>19 DEF DumpFails, CancelThen, Fails, settings, clusters, files
<1>20. CASE CommitRemoval
  <2>1. /\ WritesOnly("phase")
        /\ \A c \in Clusters : journal'.phase[c] = IF c \in Planned THEN "remove_old" ELSE "out"
    BY <1>20, Noted
  <2>. QED BY <1>20, <2>1, Fields DEF WritesOnly, CommitRemoval, Planned, Goto,
      settings, clusters, Works, bounds
<1>21. CASE BeginRetirement
  <2>1. WritesOnly("deleting") /\ journal'.deleting = TRUE
    BY <1>21, Noted
  <2>. QED BY <1>21, <2>1, Fields DEF WritesOnly, BeginRetirement, ToRetire,
      Goto, settings, Works, bounds
<1>22. CASE FinishRetirement
  <2>1. WritesOnly("deleted") /\ journal'.deleted = TRUE
    BY <1>22, Noted
  <2>. QED BY <1>22, <2>1, Fields DEF WritesOnly, FinishRetirement, Goto,
      settings, clusters, Works, bounds
<1>23. CASE RetirementFails
  BY <1>23 DEF RetirementFails, CancelThen, Exit, Fails, settings, clusters
<1>24. CASE PrepareProduction
  BY <1>24 DEF PrepareProduction, Goto, settings, Works, bounds
<1>25. CASE StartApplications
  BY <1>25 DEF StartApplications, Restarted, Goto, settings, clusters, files,
      Works, Fails, bounds
<1>26. CASE SaveStarted
  <2>1. WritesOnly("started") /\ journal'.started = TRUE
    BY <1>26, Noted
  <2>. QED BY <1>26, <2>1, Fields DEF WritesOnly, SaveStarted, Goto, settings,
      clusters, Works, bounds
<1>27. CASE RestoreTemplate
  <2>1. CASE UNCHANGED journal /\ at' = "none"
    BY <1>27, <2>1 DEF RestoreTemplate, Exit, settings, process
  <2>2. CASE WritesOnly("template") /\ journal'.template = "settled" /\ UNCHANGED process
    BY <1>27, <2>2, Fields DEF WritesOnly, RestoreTemplate, process, settings
  <2>. QED BY <1>27, <2>1, <2>2, Noted
<1>28. CASE FinishUpgrade
  BY <1>28 DEF FinishUpgrade, TemplatesSettled, Goto, settings, clusters,
      Works, bounds
<1>29. CASE ForgetJournal
  BY <1>29 DEF ForgetJournal, Goto, settings, clusters, Works, bounds
<1>30. CASE Die
  BY <1>30 DEF Die, Exit, Fails, settings, clusters, files
<1>. QED
  BY <1>1, <1>2, <1>3, <1>4, <1>5, <1>6, <1>7, <1>8, <1>9, <1>10, <1>11,
     <1>12, <1>13, <1>14, <1>15, <1>16, <1>17, <1>18, <1>19, <1>20, <1>21,
     <1>22, <1>23, <1>24, <1>25, <1>26, <1>27, <1>28, <1>29, <1>30
    DEF UpNext, ServerSteps, UpgradeSteps

(* A command begins between upgrades; an upgrade waits for none to be at work *)
(* (the assumption) and a server that takes over found no command.            *)
LEMMA ApartKept ==
    ASSUME UpTypeOK, Control, Apart, ~CommandsOverlap, UpNext
    PROVE  Apart'
<1> USE UpConstants DEF Control, Apart, Under
<1>1. CASE
     \/ \E s \in Servers : BootServer(s) \/ RefuseImage(s) \/ ServeAsIs(s)
                           \/ StopServer(s)
     \/ \E k \in Clusters : StopApplication(k) \/ RemoveContainer(k)
                            \/ RemoveVolume(k) \/ CreateCluster(k)
                            \/ ApplicationWrites(k)
     \/ Cancel \/ CancelDumps \/ BeginDumps \/ StartForDump \/ DumpCluster
        \/ DumpFails \/ DeleteArchive \/ PrepareProduction
        \/ StartApplications \/ FinishUpgrade \/ EditImage \/ HeedRefusal
        \/ EditTemplate \/ BaseBackup
  <2>1. UNCHANGED <<journal, boss, cli>>
    BY <1>1 DEF BootServer, Works,
        clusters, files, bounds, RefuseImage, settings, ServeAsIs, StopServer,
        Fails, Cancel, Restarted, Goto, CancelDumps, StopApplication, process,
        RemoveContainer, RemoveVolume, CreateCluster, BeginDumps, GotoWith,
        StartForDump, DumpCluster, DumpFails, CancelThen, DeleteArchive,
        PrepareProduction, StartApplications, FinishUpgrade,
        ApplicationWrites, WriteDatabase, EditImage, HeedRefusal,
        EditTemplate, BaseBackup
  <2>. QED BY <2>1
<1>2. ASSUME NEW s \in Servers, TakeOver(s) PROVE Apart'
  BY <1>2 DEF TakeOver, settings, clusters, files, bounds
<1>3. CASE Resume
  BY <1>3 DEF Resume, Goto, Cancels, CancelThen, Exit, GotoWith, settings,
      clusters, files, Works, bounds
<1>4. CASE CancelJournal
  BY <1>4 DEF CancelJournal, Goto, Exit, settings, clusters, Works, bounds
<1>5. CASE PlanClusters
  BY <1>5 DEF PlanClusters, BroughtUp, Works, WouldBeLost, Exit, Goto,
      settings, bounds
<1>6. ASSUME NEW k \in Clusters, RecordStop(k) PROVE Apart'
  BY <1>6 DEF RecordStop, settings, clusters, process, Works, bounds
<1>7. ASSUME NEW k \in Clusters, SaveRemoved(k) PROVE Apart'
  <2>1. Rewrites(k, "create_new") BY <1>7, Saved
  <2>. QED
    BY <2>1, <1>7, Fields DEF Rewrites, WritesOnly, Phases, settings, clusters, process, bounds,
       SaveRemoved, Replacing
<1>8. ASSUME NEW k \in Clusters, SaveCreated(k) PROVE Apart'
  <2>1. Rewrites(k, "restore") BY <1>8, Saved
  <2>. QED
    BY <2>1, <1>8, Fields DEF Rewrites, WritesOnly, Phases, settings, clusters, process, bounds,
       SaveCreated, Replacing
<1>9. ASSUME NEW k \in Clusters, RestoreDatabase(k) PROVE Apart'
  BY <1>9 DEF RestoreDatabase, Replacing, process, Works, Exit, Fails,
      settings, files, ToRetire, Turn, bounds
<1>10. ASSUME NEW k \in Clusters, SaveRestored(k) PROVE Apart'
  <2>1. Rewrites(k, "done") BY <1>10, Saved
  <2>. QED
    BY <2>1, <1>10, Fields DEF Rewrites, WritesOnly, Phases, settings, clusters, process, bounds,
       SaveRestored, Replacing
<1>11. CASE CommitRemoval
  BY <1>11 DEF CommitRemoval, Goto, settings, clusters, Works, bounds
<1>12. CASE BeginRetirement
  BY <1>12 DEF BeginRetirement, ToRetire, Goto, settings, Works, bounds
<1>13. CASE FinishRetirement
  BY <1>13 DEF FinishRetirement, Goto, settings, clusters, Works, bounds
<1>14. CASE RetirementFails
  BY <1>14 DEF RetirementFails, CancelThen, Exit, Fails, settings, clusters
<1>15. CASE SaveStarted
  BY <1>15 DEF SaveStarted, Goto, settings, clusters, Works, bounds
<1>16. CASE RestoreTemplate
  BY <1>16 DEF RestoreTemplate, Exit, process, settings, Works, bounds
<1>17. CASE ForgetJournal
  BY <1>17 DEF ForgetJournal, Goto, settings, clusters, Works, bounds
<1>18. CASE Die
  BY <1>18 DEF Die, Exit, Fails, settings, clusters, files
<1>19. CASE CommandBegins
  BY <1>19 DEF CommandBegins, settings, clusters, files, process, bounds
<1>20. CASE CommandEnds
  BY <1>20 DEF CommandEnds, WriteDatabase, settings, clusters, files, process,
      bounds
<1>. QED
  BY <1>1, <1>2, <1>3, <1>4, <1>5, <1>6, <1>7, <1>8, <1>9, <1>10, <1>11,
     <1>12, <1>13, <1>14, <1>15, <1>16, <1>17, <1>18, <1>19, <1>20
    DEF UpNext, ServerSteps, UpgradeSteps

(* A phase is saved after what it records; an upgrade is cancelled only while *)
(* the old clusters are whole.                                                *)
LEMMA ProgressKept ==
    ASSUME UpTypeOK, Control, Progress, UpNext
    PROVE  Progress'
<1> USE UpConstants DEF Control, Progress, Cancelling, Under, Phase, Planned,
        Revocable, Intact, Unfinished
<1>0. /\ vol \in [Clusters -> Majors] /\ box \in [Clusters -> Majors] /\ (Under => journal \in Journals)
      /\ data \in [Clusters -> 0..MaxWrites + 1] /\ latest \in [Clusters -> 0..MaxWrites + 1]
      /\ dump \in [Clusters -> 0..MaxWrites + 1] /\ todo \subseteq Clusters
      /\ app \in [Clusters -> BOOLEAN] /\ wanted \in [Clusters -> BOOLEAN]
      /\ "dev" \in Clusters /\ "prod" \in Clusters
      /\ tplDb \in BOOLEAN /\ tplDump \in {"ok", "broken", "gone"}
  BY DEF UpTypeOK, Under, Clusters
<1>1. CASE
     \/ \E s \in Servers : BootServer(s) \/ RefuseImage(s) \/ ServeAsIs(s)
                           \/ StopServer(s)
     \/ \E k \in Clusters : StopApplication(k) \/ ApplicationWrites(k)
     \/ StartForDump \/ DeleteArchive \/ EditImage \/ HeedRefusal
        \/ EditTemplate \/ BaseBackup \/ CommandBegins \/ CommandEnds
  <2>1. UNCHANGED <<vol, box, journal, at>>
    BY <1>1 DEF BootServer, Works,
        clusters, files, bounds, RefuseImage, settings, ServeAsIs, StopServer,
        Fails, StopApplication, process, StartForDump, DeleteArchive,
        ApplicationWrites, WriteDatabase, EditImage, HeedRefusal,
        EditTemplate, BaseBackup, CommandBegins, CommandEnds
  <2>. QED BY <2>1, <1>0
<1>2. ASSUME NEW s \in Servers, TakeOver(s) PROVE Progress'
  BY <1>2, <1>0, Fields DEF TakeOver, settings, clusters, files, bounds,
      Installed
<1>3. CASE Resume
  BY <1>3, <1>0, Fields DEF Resume, Goto, Cancels, CancelThen, Exit, GotoWith,
      settings, clusters, files, Works, bounds
<1>4. CASE Cancel
  BY <1>4, <1>0, Fields DEF Cancel, Restarted, Goto, settings, files, Works,
      Fails, bounds
<1>5. CASE CancelDumps
  BY <1>5, <1>0, Fields DEF CancelDumps, DeletionNoted, Goto, settings,
      clusters, Works, bounds
<1>6. CASE CancelJournal
  BY <1>6, <1>0, Fields DEF CancelJournal, Goto, Exit, settings, clusters,
      Works, bounds
<1>7. CASE PlanClusters
  <2>1. boss \in Servers /\ NewJournal \in Journals BY <1>7, Opened DEF PlanClusters, UpTypeOK
  <2>2. CASE journal' = journal
    BY <1>7, <2>1, <2>2, <1>0 DEF PlanClusters, Exit, Goto
  <2>3. CASE /\ journal' = NewJournal /\ Goto("stop") /\ UNCHANGED <<vol, box>>
    <3>1. \A k \in Clusters : journal'.phase[k] = IF k \in Aged THEN "dump" ELSE "out"
      BY <2>1, <2>3, Opened
    <3>. QED BY <2>1, <2>3, <3>1 DEF Goto, Aged
  <2>. QED BY <1>7, <2>2, <2>3 DEF PlanClusters
<1>8. ASSUME NEW k \in Clusters, RecordStop(k) PROVE Progress'
  <2>1. WritesOnly("stopped") /\ journal'.stopped = journal.stopped \cup {k}
    BY <1>8, Noted
  <2>. QED BY <1>8, <2>1, Fields, <1>0 DEF WritesOnly, RecordStop, settings,
      clusters, process, Works, bounds
<1>9. ASSUME NEW k \in Clusters, RemoveContainer(k) PROVE Progress'
  BY <1>9, <1>0, Fields DEF RemoveContainer, Replacing, settings, files,
      process, Works, ToRetire, Turn, bounds
<1>10. ASSUME NEW k \in Clusters, RemoveVolume(k) PROVE Progress'
  BY <1>10, <1>0, Fields DEF RemoveVolume, Replacing, settings, files,
      process, Works, ToRetire, Turn, bounds
<1>11. ASSUME NEW k \in Clusters, SaveRemoved(k) PROVE Progress'
  <2>1. Rewrites(k, "create_new") BY <1>11, Saved
  <2>. QED
    BY <2>1, <1>11, Fields, <1>0 DEF Rewrites, WritesOnly, Phases, settings, clusters, process,
       bounds, SaveRemoved, Replacing, Cancelling
<1>12. ASSUME NEW k \in Clusters, CreateCluster(k) PROVE Progress'
  BY <1>12, <1>0, Fields DEF CreateCluster, Replacing, settings, files,
      process, Works, ToRetire, Turn, bounds
<1>13. ASSUME NEW k \in Clusters, SaveCreated(k) PROVE Progress'
  <2>1. Rewrites(k, "restore") BY <1>13, Saved
  <2>. QED
    BY <2>1, <1>13, Fields, <1>0 DEF Rewrites, WritesOnly, Phases, settings, clusters, process,
       bounds, SaveCreated, Replacing, Cancelling
<1>14. ASSUME NEW k \in Clusters, RestoreDatabase(k) PROVE Progress'
  BY <1>14, <1>0, Fields DEF RestoreDatabase, Replacing, process, Works, Exit,
      Fails, settings, files, ToRetire, Turn, bounds
<1>15. ASSUME NEW k \in Clusters, SaveRestored(k) PROVE Progress'
  <2>1. Rewrites(k, "done") BY <1>15, Saved
  <2>. QED
    BY <2>1, <1>15, Fields, <1>0 DEF Rewrites, WritesOnly, Phases, settings, clusters, process,
       bounds, SaveRestored, Replacing, Cancelling
<1>16. CASE BeginDumps
  BY <1>16, <1>0, Fields DEF BeginDumps, AllStopped, GotoWith, settings,
      clusters, files, Works, bounds
<1>17. CASE DumpCluster
  BY <1>17, <1>0, Fields DEF DumpCluster, Turn, GotoWith, settings, Works,
      bounds
<1>18. CASE DumpFails
  BY <1>18, <1>0, Fields DEF DumpFails, CancelThen, Fails, settings, clusters,
      files
<1>19. CASE CommitRemoval
  <2>1. /\ WritesOnly("phase")
        /\ \A c \in Clusters : journal'.phase[c] = IF c \in Planned THEN "remove_old" ELSE "out"
    BY <1>19, Noted
  <2>. QED BY <1>19, <2>1, Fields, <1>0 DEF WritesOnly, CommitRemoval, Goto,
      settings, clusters, Works, bounds
<1>20. CASE BeginRetirement
  <2>1. WritesOnly("deleting") /\ journal'.deleting = TRUE
    BY <1>20, Noted
  <2>. QED BY <1>20, <2>1, Fields, <1>0 DEF WritesOnly, BeginRetirement,
      ToRetire, Goto, settings, Works, bounds
<1>21. CASE FinishRetirement
  <2>1. WritesOnly("deleted") /\ journal'.deleted = TRUE
    BY <1>21, Noted
  <2>. QED BY <1>21, <2>1, Fields, <1>0 DEF WritesOnly, FinishRetirement, Goto,
      settings, clusters, Works, bounds
<1>22. CASE RetirementFails
  <2>1. UNCHANGED <<journal, vol, box>> /\ Under BY <1>22 DEF RetirementFails, clusters
  <2>2. CASE at' = "cancel"
    BY <1>22, <2>1, <2>2, <1>0, Fields DEF RetirementFails, CancelThen, Exit, Phases
  <2>3. CASE at' = "none" BY <2>1, <2>3
  <2>. QED BY <1>22, <2>2, <2>3 DEF RetirementFails, CancelThen, Exit
<1>23. CASE PrepareProduction
  BY <1>23, <1>0, Fields DEF PrepareProduction, Goto, settings, Works, bounds
<1>24. CASE StartApplications
  BY <1>24, <1>0, Fields DEF StartApplications, Restarted, Goto, settings,
      clusters, files, Works, Fails, bounds
<1>25. CASE SaveStarted
  <2>1. WritesOnly("started") /\ journal'.started = TRUE
    BY <1>25, Noted
  <2>. QED BY <1>25, <2>1, Fields, <1>0 DEF WritesOnly, SaveStarted, Goto,
      settings, clusters, Works, bounds
<1>26. CASE RestoreTemplate
  <2>1. \/ UNCHANGED journal /\ at' = "none"
        \/ WritesOnly("template") /\ journal'.template = "settled" /\ UNCHANGED process
    BY <1>26, Noted
  <2>. QED BY <1>26, <2>1, Fields, <1>0 DEF WritesOnly, RestoreTemplate, Exit,
      process, settings, Works, bounds
<1>27. CASE FinishUpgrade
  BY <1>27, <1>0, Fields DEF FinishUpgrade, TemplatesSettled, Goto, settings,
      clusters, Works, bounds
<1>28. CASE ForgetJournal
  BY <1>28, <1>0, Fields DEF ForgetJournal, Goto, settings, clusters, Works,
      bounds
<1>29. CASE Die
  BY <1>29, <1>0, Fields DEF Die, Exit, Fails, settings, clusters, files
<1>. QED
  BY <1>1, <1>2, <1>3, <1>4, <1>5, <1>6, <1>7, <1>8, <1>9, <1>10, <1>11,
     <1>12, <1>13, <1>14, <1>15, <1>16, <1>17, <1>18, <1>19, <1>20, <1>21,
     <1>22, <1>23, <1>24, <1>25, <1>26, <1>27, <1>28, <1>29
    DEF UpNext, ServerSteps, UpgradeSteps

(* No write is lost: a dump is taken with the applications down and deleted   *)
(* when its database is back or was never removed.                            *)
LEMMA DataKept ==
    ASSUME UpTypeOK, Control, Progress, Apart, Data, UpNext
    PROVE  Data'
<1> USE UpConstants DEF Control, Apart, Progress, Data, Cancelling, Under,
        Phase, Planned, Revocable, Intact, Unfinished, Safe, Committed, InDump
<1>0. /\ vol \in [Clusters -> Majors] /\ box \in [Clusters -> Majors] /\ (Under => journal \in Journals)
      /\ data \in [Clusters -> 0..MaxWrites + 1] /\ latest \in [Clusters -> 0..MaxWrites + 1]
      /\ dump \in [Clusters -> 0..MaxWrites + 1] /\ todo \subseteq Clusters
      /\ app \in [Clusters -> BOOLEAN] /\ wanted \in [Clusters -> BOOLEAN]
      /\ "dev" \in Clusters /\ "prod" \in Clusters
      /\ tplDb \in BOOLEAN /\ tplDump \in {"ok", "broken", "gone"}
  BY DEF UpTypeOK, Under, Clusters
<1>1. CASE
     \/ \E s \in Servers : BootServer(s) \/ RefuseImage(s) \/ ServeAsIs(s)
                           \/ StopServer(s)
     \/ StartForDump \/ DeleteArchive \/ EditImage \/ HeedRefusal
        \/ EditTemplate \/ BaseBackup \/ CommandBegins
  <2>1. UNCHANGED <<vol, box, data, latest, app, dump, journal, at, todo>>
    BY <1>1 DEF BootServer,
        Works, clusters, files, bounds, RefuseImage, settings, ServeAsIs,
        StopServer, Fails, StartForDump, process, DeleteArchive, EditImage,
        HeedRefusal, EditTemplate, BaseBackup, CommandBegins
  <2>. QED BY <2>1, <1>0
<1>2. ASSUME NEW s \in Servers, TakeOver(s) PROVE Data'
  BY <1>2, <1>0, Fields DEF TakeOver, settings, clusters, files, bounds
<1>3. CASE Resume
  BY <1>3, <1>0, Fields DEF Resume, Goto, Cancels, CancelThen, Exit, GotoWith,
      settings, clusters, files, Works, bounds
<1>4. CASE Cancel
  BY <1>4, <1>0, Fields DEF Cancel, Restarted, Goto, settings, files, Works,
      Fails, bounds
<1>5. CASE CancelDumps
  BY <1>5, <1>0, Fields DEF CancelDumps, DeletionNoted, Goto, settings,
      clusters, Works, bounds
<1>6. CASE CancelJournal
  BY <1>6, <1>0, Fields DEF CancelJournal, Goto, Exit, settings, clusters,
      Works, bounds
<1>7. CASE PlanClusters
  <2>1. boss \in Servers /\ NewJournal \in Journals /\ ~Under BY <1>7, Opened DEF PlanClusters,
                                                                 UpTypeOK
  <2>2. CASE journal' = journal
    BY <1>7, <2>1, <2>2, <1>0 DEF PlanClusters, Exit, Goto
  <2>3. CASE /\ journal' = NewJournal /\ Goto("stop") /\ ~WouldBeLost
             /\ UNCHANGED <<vol, box, data, latest, dump, app, wanted, tplDb, tplDump, archive, baseDue>>
    <3>1. /\ \A k \in Clusters : journal'.phase[k] = IF k \in Aged THEN "dump" ELSE "out"
          /\ journal'.stopped = {} /\ journal'.template = ListedTemplates
          /\ journal'.deleting = FALSE /\ journal'.deleted = FALSE /\ journal'.started = FALSE
      BY <2>1, <2>3, Opened
    <3>. QED BY <2>1, <2>3, <3>1, <1>0 DEF Goto, WouldBeLost, ListedTemplates, Aged
  <2>. QED BY <1>7, <2>2, <2>3 DEF PlanClusters
<1>8. ASSUME NEW k \in Clusters, RecordStop(k) PROVE Data'
  <2>1. WritesOnly("stopped") /\ journal'.stopped = journal.stopped \cup {k}
    BY <1>8, Noted
  <2>. QED BY <1>8, <2>1, Fields, <1>0 DEF WritesOnly, RecordStop, Affected,
      settings, clusters, process, Works, bounds
<1>9. ASSUME NEW k \in Clusters, StopApplication(k) PROVE Data'
  BY <1>9, <1>0, Fields DEF StopApplication, Affected, settings, clusters,
      files, process, Works, bounds
<1>10. ASSUME NEW k \in Clusters, RemoveContainer(k) PROVE Data'
  BY <1>10, <1>0, Fields DEF RemoveContainer, Replacing, settings, files,
      process, Works, ToRetire, Turn, bounds
<1>11. ASSUME NEW k \in Clusters, RemoveVolume(k) PROVE Data'
  BY <1>11, <1>0, Fields DEF RemoveVolume, Replacing, settings, files,
      process, Works, ToRetire, Turn, bounds
<1>12. ASSUME NEW k \in Clusters, SaveRemoved(k) PROVE Data'
  <2>1. Rewrites(k, "create_new") BY <1>12, Saved
  <2>. QED
    BY <2>1, <1>12, Fields, <1>0 DEF Rewrites, WritesOnly, Phases, settings, clusters, process,
       bounds, SaveRemoved, Replacing
<1>13. ASSUME NEW k \in Clusters, CreateCluster(k) PROVE Data'
  BY <1>13, <1>0, Fields DEF CreateCluster, Replacing, settings, files,
      process, Works, ToRetire, Turn, bounds
<1>14. ASSUME NEW k \in Clusters, SaveCreated(k) PROVE Data'
  <2>1. Rewrites(k, "restore") BY <1>14, Saved
  <2>. QED
    BY <2>1, <1>14, Fields, <1>0 DEF Rewrites, WritesOnly, Phases, settings, clusters, process,
       bounds, SaveCreated, Replacing
<1>15. ASSUME NEW k \in Clusters, RestoreDatabase(k) PROVE Data'
  BY <1>15, <1>0, Fields DEF RestoreDatabase, Replacing, process, Works, Exit,
      Fails, settings, files, ToRetire, Turn, bounds
<1>16. ASSUME NEW k \in Clusters, SaveRestored(k) PROVE Data'
  <2>1. Rewrites(k, "done") BY <1>16, Saved
  <2>. QED
    BY <2>1, <1>16, Fields, <1>0 DEF Rewrites, WritesOnly, Phases, settings, clusters, process,
       bounds, SaveRestored, Replacing
<1>17. CASE BeginDumps
  <2>1. \A k \in Planned : ~app[k] BY <1>17 DEF BeginDumps, AllStopped, Affected, Clusters
  <2>2. /\ at = "stop" /\ at' = "dump" /\ todo' = Planned /\ ~Committed'
        /\ UNCHANGED <<vol, box, data, latest, dump, app, journal>>
    BY <1>17 DEF BeginDumps, GotoWith, clusters, files
  <2>. QED BY <2>1, <2>2, <1>0
<1>18. CASE DumpCluster
  BY <1>18, <1>0, Fields DEF DumpCluster, Turn, GotoWith, settings, Works,
      bounds
<1>19. CASE DumpFails
  BY <1>19, <1>0, Fields DEF DumpFails, CancelThen, Fails, settings, clusters,
      files
<1>20. CASE CommitRemoval
  <2>1. /\ WritesOnly("phase")
        /\ \A c \in Clusters : journal'.phase[c] = IF c \in Planned THEN "remove_old" ELSE "out"
    BY <1>20, Noted
  <2>. QED BY <1>20, <2>1, Fields, <1>0 DEF WritesOnly, CommitRemoval, Goto,
      settings, clusters, Works, bounds
<1>21. CASE BeginRetirement
  <2>1. WritesOnly("deleting") BY <1>21, Noted
  <2>2. /\ at = "clusters" /\ at' = "retire"
        /\ UNCHANGED <<vol, box, data, latest, dump, app, todo, wanted, tplDb, tplDump>>
    BY <1>21 DEF BeginRetirement, Goto, clusters
  <2>. QED BY <2>1, <2>2, Fields, <1>0 DEF WritesOnly
<1>22. CASE FinishRetirement
  <2>1. WritesOnly("deleted") BY <1>22, Noted
  <2>2. /\ at = "retire" /\ at' = "clusters"
        /\ UNCHANGED <<vol, box, data, latest, dump, app, todo, wanted, tplDb, tplDump>>
    BY <1>22 DEF FinishRetirement, Goto, clusters
  <2>. QED BY <2>1, <2>2, Fields, <1>0 DEF WritesOnly
<1>23. CASE RetirementFails
  BY <1>23, <1>0, Fields DEF RetirementFails, CancelThen, Exit, Fails,
      settings, clusters
<1>24. CASE PrepareProduction
  BY <1>24, <1>0, Fields DEF PrepareProduction, Goto, settings, Works, bounds
<1>25. CASE StartApplications
  BY <1>25, <1>0, Fields DEF StartApplications, Restarted, Goto, settings,
      clusters, files, Works, Fails, bounds
<1>26. CASE SaveStarted
  <2>1. WritesOnly("started") /\ journal'.started = TRUE
    BY <1>26, Noted
  <2>. QED BY <1>26, <2>1, Fields, <1>0 DEF WritesOnly, SaveStarted, Goto,
      settings, clusters, Works, bounds
<1>27. CASE RestoreTemplate
  <2>1. CASE UNCHANGED journal /\ at' = "none"
    BY <1>27, <2>1, <1>0 DEF RestoreTemplate, Exit, settings, process
  <2>2. CASE WritesOnly("template") /\ journal'.template = "settled" /\ UNCHANGED process
    BY <1>27, <2>2, Fields, <1>0 DEF WritesOnly, RestoreTemplate, process, settings
  <2>. QED BY <1>27, <2>1, <2>2, Noted
<1>28. CASE FinishUpgrade
  BY <1>28, <1>0, Fields DEF FinishUpgrade, TemplatesSettled, Goto, settings,
      clusters, Works, bounds
<1>29. CASE ForgetJournal
  BY <1>29, <1>0, Fields DEF ForgetJournal, Goto, settings, clusters, Works,
      bounds
<1>30. CASE Die
  BY <1>30, <1>0, Fields DEF Die, Exit, Fails, settings, clusters, files
<1>31. ASSUME NEW k \in Clusters, ApplicationWrites(k) PROVE Data'
  BY <1>31, <1>0, Fields DEF ApplicationWrites, WriteDatabase, settings,
      files, process, bounds
<1>32. CASE CommandEnds
  BY <1>32, <1>0, Fields DEF CommandEnds, WriteDatabase, settings, clusters,
      files, process, bounds
<1>. QED
  BY <1>1, <1>2, <1>3, <1>4, <1>5, <1>6, <1>7, <1>8, <1>9, <1>10, <1>11,
     <1>12, <1>13, <1>14, <1>15, <1>16, <1>17, <1>18, <1>19, <1>20, <1>21,
     <1>22, <1>23, <1>24, <1>25, <1>26, <1>27, <1>28, <1>29, <1>30, <1>31,
     <1>32
    DEF UpNext, ServerSteps, UpgradeSteps

(* An application is on the list before it is stopped, and the list is worked *)
(* off before the journal goes.                                               *)
LEMMA ApplicationsKept ==
    ASSUME UpTypeOK, Control, Progress, Applications, UpNext
    PROVE  Applications'
<1> USE UpConstants DEF Control, Applications, Under, Phase
<1>0. /\ vol \in [Clusters -> Majors] /\ box \in [Clusters -> Majors] /\ (Under => journal \in Journals)
      /\ data \in [Clusters -> 0..MaxWrites + 1] /\ latest \in [Clusters -> 0..MaxWrites + 1]
      /\ dump \in [Clusters -> 0..MaxWrites + 1] /\ todo \subseteq Clusters
      /\ app \in [Clusters -> BOOLEAN] /\ wanted \in [Clusters -> BOOLEAN]
      /\ "dev" \in Clusters /\ "prod" \in Clusters
      /\ tplDb \in BOOLEAN /\ tplDump \in {"ok", "broken", "gone"}
  BY DEF UpTypeOK, Under, Clusters
<1>1. CASE
     \/ \E s \in Servers : BootServer(s) \/ RefuseImage(s) \/ ServeAsIs(s)
                           \/ StopServer(s)
     \/ \E k \in Clusters : RemoveContainer(k) \/ RemoveVolume(k)
                            \/ CreateCluster(k) \/ ApplicationWrites(k)
     \/ StartForDump \/ DeleteArchive \/ EditImage \/ HeedRefusal
        \/ EditTemplate \/ BaseBackup \/ CommandBegins \/ CommandEnds
  <2>1. UNCHANGED <<app, wanted, journal, at>>
    BY <1>1 DEF BootServer,
        Works, clusters, files, bounds, RefuseImage, settings, ServeAsIs,
        StopServer, Fails, RemoveContainer, process, RemoveVolume,
        CreateCluster, StartForDump, DeleteArchive, ApplicationWrites,
        WriteDatabase, EditImage, HeedRefusal, EditTemplate, BaseBackup,
        CommandBegins, CommandEnds
  <2>. QED BY <2>1, <1>0
<1>2. ASSUME NEW s \in Servers, TakeOver(s) PROVE Applications'
  BY <1>2, <1>0, Fields DEF TakeOver, settings, clusters, files, bounds
<1>3. CASE Resume
  BY <1>3, <1>0, Fields DEF Resume, Goto, Cancels, CancelThen, Exit, GotoWith,
      settings, clusters, files, Works, bounds
<1>4. CASE Cancel
  BY <1>4, <1>0, Fields DEF Cancel, Restarted, Goto, settings, files, Works,
      Fails, bounds
<1>5. CASE CancelDumps
  BY <1>5, <1>0, Fields DEF CancelDumps, DeletionNoted, Goto, settings,
      clusters, Works, bounds
<1>6. CASE CancelJournal
  BY <1>6, <1>0, Fields DEF CancelJournal, Goto, Exit, settings, clusters,
      Works, bounds
<1>7. CASE PlanClusters
  <2>1. boss \in Servers /\ NewJournal \in Journals /\ ~Under BY <1>7, Opened DEF PlanClusters,
                                                                 UpTypeOK
  <2>2. CASE journal' = journal
    BY <1>7, <2>1, <2>2, <1>0 DEF PlanClusters, Exit, Goto
  <2>3. CASE /\ journal' = NewJournal /\ Goto("stop") /\ ~WouldBeLost
             /\ UNCHANGED <<vol, box, data, latest, dump, app, wanted, tplDb, tplDump, archive, baseDue>>
    <3>1. /\ \A k \in Clusters : journal'.phase[k] = IF k \in Aged THEN "dump" ELSE "out"
          /\ journal'.stopped = {} /\ journal'.template = ListedTemplates
          /\ journal'.deleting = FALSE /\ journal'.deleted = FALSE /\ journal'.started = FALSE
      BY <2>1, <2>3, Opened
    <3>. QED BY <2>1, <2>3, <3>1, <1>0 DEF Goto, WouldBeLost, ListedTemplates, Aged
  <2>. QED BY <1>7, <2>2, <2>3 DEF PlanClusters
<1>8. ASSUME NEW k \in Clusters, RecordStop(k) PROVE Applications'
  <2>1. WritesOnly("stopped") /\ journal'.stopped = journal.stopped \cup {k}
    BY <1>8, Noted
  <2>. QED BY <1>8, <2>1, Fields, <1>0 DEF WritesOnly, RecordStop, settings,
      clusters, process, Works, bounds
<1>9. ASSUME NEW k \in Clusters, StopApplication(k) PROVE Applications'
  BY <1>9, <1>0, Fields DEF StopApplication, settings, clusters, files,
      process, Works, bounds
<1>10. ASSUME NEW k \in Clusters, SaveRemoved(k) PROVE Applications'
  <2>1. Rewrites(k, "create_new") BY <1>10, Saved
  <2>. QED
    BY <2>1, <1>10, Fields, <1>0 DEF Rewrites, WritesOnly, Phases, settings, clusters, process,
       bounds, SaveRemoved, Replacing
<1>11. ASSUME NEW k \in Clusters, SaveCreated(k) PROVE Applications'
  <2>1. Rewrites(k, "restore") BY <1>11, Saved
  <2>. QED
    BY <2>1, <1>11, Fields, <1>0 DEF Rewrites, WritesOnly, Phases, settings, clusters, process,
       bounds, SaveCreated, Replacing
<1>12. ASSUME NEW k \in Clusters, RestoreDatabase(k) PROVE Applications'
  BY <1>12, <1>0, Fields DEF RestoreDatabase, Replacing, process, Works, Exit,
      Fails, settings, files, ToRetire, Turn, bounds
<1>13. ASSUME NEW k \in Clusters, SaveRestored(k) PROVE Applications'
  <2>1. Rewrites(k, "done") BY <1>13, Saved
  <2>. QED
    BY <2>1, <1>13, Fields, <1>0 DEF Rewrites, WritesOnly, Phases, settings, clusters, process,
       bounds, SaveRestored, Replacing
<1>14. CASE BeginDumps
  BY <1>14, <1>0, Fields DEF BeginDumps, AllStopped, GotoWith, settings,
      clusters, files, Works, bounds
<1>15. CASE DumpCluster
  BY <1>15, <1>0, Fields DEF DumpCluster, Turn, GotoWith, settings, Works,
      bounds
<1>16. CASE DumpFails
  BY <1>16, <1>0, Fields DEF DumpFails, CancelThen, Fails, settings, clusters,
      files
<1>17. CASE CommitRemoval
  <2>1. /\ WritesOnly("phase")
        /\ \A c \in Clusters : journal'.phase[c] = IF c \in Planned THEN "remove_old" ELSE "out"
    BY <1>17, Noted
  <2>. QED BY <1>17, <2>1, Fields, <1>0 DEF WritesOnly, CommitRemoval, Goto,
      settings, clusters, Works, bounds
<1>18. CASE BeginRetirement
  <2>1. WritesOnly("deleting") /\ journal'.deleting = TRUE
    BY <1>18, Noted
  <2>. QED BY <1>18, <2>1, Fields, <1>0 DEF WritesOnly, BeginRetirement,
      ToRetire, Goto, settings, Works, bounds
<1>19. CASE FinishRetirement
  <2>1. WritesOnly("deleted") /\ journal'.deleted = TRUE
    BY <1>19, Noted
  <2>. QED BY <1>19, <2>1, Fields, <1>0 DEF WritesOnly, FinishRetirement, Goto,
      settings, clusters, Works, bounds
<1>20. CASE RetirementFails
  BY <1>20, <1>0, Fields DEF RetirementFails, CancelThen, Exit, Fails,
      settings, clusters
<1>21. CASE PrepareProduction
  BY <1>21, <1>0, Fields DEF PrepareProduction, Goto, settings, Works, bounds
<1>22. CASE StartApplications
  BY <1>22, <1>0, Fields DEF StartApplications, Restarted, Goto, settings,
      clusters, files, Works, Fails, bounds
<1>23. CASE SaveStarted
  <2>1. WritesOnly("started") /\ journal'.started = TRUE
    BY <1>23, Noted
  <2>. QED BY <1>23, <2>1, Fields, <1>0 DEF WritesOnly, SaveStarted, Goto,
      settings, clusters, Works, bounds
<1>24. CASE RestoreTemplate
  <2>1. \/ UNCHANGED journal /\ at' = "none"
        \/ WritesOnly("template") /\ journal'.template = "settled" /\ UNCHANGED process
    BY <1>24, Noted
  <2>. QED BY <1>24, <2>1, Fields, <1>0 DEF WritesOnly, RestoreTemplate, Exit,
      process, settings, Works, bounds
<1>25. CASE FinishUpgrade
  BY <1>25, <1>0, Fields DEF FinishUpgrade, TemplatesSettled, Goto, settings,
      clusters, Works, bounds
<1>26. CASE ForgetJournal
  BY <1>26, <1>0, Fields DEF ForgetJournal, Goto, settings, clusters, Works,
      bounds
<1>27. CASE Die
  BY <1>27, <1>0, Fields DEF Die, Exit, Fails, settings, clusters, files
<1>. QED
  BY <1>1, <1>2, <1>3, <1>4, <1>5, <1>6, <1>7, <1>8, <1>9, <1>10, <1>11,
     <1>12, <1>13, <1>14, <1>15, <1>16, <1>17, <1>18, <1>19, <1>20, <1>21,
     <1>22, <1>23, <1>24, <1>25, <1>26, <1>27
    DEF UpNext, ServerSteps, UpgradeSteps

(* A listed template is restored before the journal goes.                     *)
LEMMA TemplatesKept ==
    ASSUME UpTypeOK, Control, Progress, Templates, UpNext
    PROVE  Templates'
<1> USE UpConstants DEF Control, Progress, Templates, Cancelling, Under,
        Phase, Planned, Revocable, Intact, Unfinished
<1>0. /\ vol \in [Clusters -> Majors] /\ box \in [Clusters -> Majors] /\ (Under => journal \in Journals)
      /\ data \in [Clusters -> 0..MaxWrites + 1] /\ latest \in [Clusters -> 0..MaxWrites + 1]
      /\ dump \in [Clusters -> 0..MaxWrites + 1] /\ todo \subseteq Clusters
      /\ app \in [Clusters -> BOOLEAN] /\ wanted \in [Clusters -> BOOLEAN]
      /\ "dev" \in Clusters /\ "prod" \in Clusters
      /\ tplDb \in BOOLEAN /\ tplDump \in {"ok", "broken", "gone"}
  BY DEF UpTypeOK, Under, Clusters
<1>1. CASE
     \/ \E s \in Servers : BootServer(s) \/ RefuseImage(s) \/ ServeAsIs(s)
                           \/ StopServer(s)
     \/ \E k \in Clusters : StopApplication(k) \/ ApplicationWrites(k)
     \/ StartForDump \/ DeleteArchive \/ EditImage \/ HeedRefusal
        \/ BaseBackup \/ CommandBegins \/ CommandEnds
  <2>1. UNCHANGED <<vol, box, tplDb, tplDump, journal, at>>
    BY <1>1 DEF BootServer,
        Works, clusters, files, bounds, RefuseImage, settings, ServeAsIs,
        StopServer, Fails, StopApplication, process, StartForDump,
        DeleteArchive, ApplicationWrites, WriteDatabase, EditImage,
        HeedRefusal, BaseBackup, CommandBegins, CommandEnds
  <2>. QED BY <2>1, <1>0
<1>2. ASSUME NEW s \in Servers, TakeOver(s) PROVE Templates'
  BY <1>2, <1>0, Fields DEF TakeOver, settings, clusters, files, bounds
<1>3. CASE Resume
  BY <1>3, <1>0, Fields DEF Resume, Goto, Cancels, CancelThen, Exit, GotoWith,
      settings, clusters, files, Works, bounds
<1>4. CASE Cancel
  BY <1>4, <1>0, Fields DEF Cancel, Restarted, Goto, settings, files, Works,
      Fails, bounds
<1>5. CASE CancelDumps
  BY <1>5, <1>0, Fields DEF CancelDumps, DeletionNoted, Goto, settings,
      clusters, Works, bounds
<1>6. CASE CancelJournal
  BY <1>6, <1>0, Fields DEF CancelJournal, Goto, Exit, settings, clusters,
      Works, bounds
<1>7. CASE PlanClusters
  <2>1. boss \in Servers /\ NewJournal \in Journals /\ ~Under BY <1>7, Opened DEF PlanClusters,
                                                                 UpTypeOK
  <2>2. CASE journal' = journal
    BY <1>7, <2>1, <2>2, <1>0 DEF PlanClusters, Exit, Goto
  <2>3. CASE /\ journal' = NewJournal /\ Goto("stop") /\ ~WouldBeLost
             /\ UNCHANGED <<vol, box, data, latest, dump, app, wanted, tplDb, tplDump, archive, baseDue>>
    <3>1. /\ \A k \in Clusters : journal'.phase[k] = IF k \in Aged THEN "dump" ELSE "out"
          /\ journal'.stopped = {} /\ journal'.template = ListedTemplates
          /\ journal'.deleting = FALSE /\ journal'.deleted = FALSE /\ journal'.started = FALSE
      BY <2>1, <2>3, Opened
    <3>. QED BY <2>1, <2>3, <3>1, <1>0 DEF Goto, WouldBeLost, ListedTemplates, Aged
  <2>. QED BY <1>7, <2>2, <2>3 DEF PlanClusters
<1>8. ASSUME NEW k \in Clusters, RecordStop(k) PROVE Templates'
  <2>1. WritesOnly("stopped") /\ journal'.stopped = journal.stopped \cup {k}
    BY <1>8, Noted
  <2>. QED BY <1>8, <2>1, Fields, <1>0 DEF WritesOnly, RecordStop, Affected,
      settings, clusters, process, Works, bounds
<1>9. ASSUME NEW k \in Clusters, RemoveContainer(k) PROVE Templates'
  BY <1>9, <1>0, Fields DEF RemoveContainer, Replacing, settings, files,
      process, Works, ToRetire, Turn, bounds
<1>10. ASSUME NEW k \in Clusters, RemoveVolume(k) PROVE Templates'
  BY <1>10, <1>0, Fields DEF RemoveVolume, Replacing, settings, files,
      process, Works, ToRetire, Turn, bounds
<1>11. ASSUME NEW k \in Clusters, SaveRemoved(k) PROVE Templates'
  <2>1. Rewrites(k, "create_new") BY <1>11, Saved
  <2>. QED
    BY <2>1, <1>11, Fields, <1>0 DEF Rewrites, WritesOnly, Phases, settings, clusters, process,
       bounds, SaveRemoved, Replacing
<1>12. ASSUME NEW k \in Clusters, CreateCluster(k) PROVE Templates'
  BY <1>12, <1>0, Fields DEF CreateCluster, Replacing, settings, files,
      process, Works, ToRetire, Turn, bounds
<1>13. ASSUME NEW k \in Clusters, SaveCreated(k) PROVE Templates'
  <2>1. Rewrites(k, "restore") BY <1>13, Saved
  <2>. QED
    BY <2>1, <1>13, Fields, <1>0 DEF Rewrites, WritesOnly, Phases, settings, clusters, process,
       bounds, SaveCreated, Replacing
<1>14. ASSUME NEW k \in Clusters, RestoreDatabase(k) PROVE Templates'
  BY <1>14, <1>0, Fields DEF RestoreDatabase, Replacing, process, Works, Exit,
      Fails, settings, files, ToRetire, Turn, bounds
<1>15. ASSUME NEW k \in Clusters, SaveRestored(k) PROVE Templates'
  <2>1. Rewrites(k, "done") BY <1>15, Saved
  <2>. QED
    BY <2>1, <1>15, Fields, <1>0 DEF Rewrites, WritesOnly, Phases, settings, clusters, process,
       bounds, SaveRestored, Replacing
<1>16. CASE BeginDumps
  BY <1>16, <1>0, Fields DEF BeginDumps, AllStopped, GotoWith, settings,
      clusters, files, Works, Affected, bounds
<1>17. CASE DumpCluster
  BY <1>17, <1>0, Fields DEF DumpCluster, Turn, GotoWith, settings, Works,
      bounds
<1>18. CASE DumpFails
  BY <1>18, <1>0, Fields DEF DumpFails, CancelThen, Fails, settings, clusters,
      files
<1>19. CASE CommitRemoval
  <2>1. /\ WritesOnly("phase")
        /\ \A c \in Clusters : journal'.phase[c] = IF c \in Planned THEN "remove_old" ELSE "out"
    BY <1>19, Noted
  <2>. QED BY <1>19, <2>1, Fields, <1>0 DEF WritesOnly, CommitRemoval, Goto,
      settings, clusters, Works, bounds
<1>20. CASE BeginRetirement
  <2>1. WritesOnly("deleting") /\ journal'.deleting = TRUE
    BY <1>20, Noted
  <2>. QED BY <1>20, <2>1, Fields, <1>0 DEF WritesOnly, BeginRetirement,
      ToRetire, Goto, settings, Works, bounds
<1>21. CASE FinishRetirement
  <2>1. WritesOnly("deleted") BY <1>21, Noted
  <2>2. /\ at = "retire" /\ at' = "clusters"
        /\ UNCHANGED <<vol, box, data, latest, dump, app, todo, wanted, tplDb, tplDump>>
    BY <1>21 DEF FinishRetirement, Goto, clusters
  <2>. QED BY <2>1, <2>2, Fields, <1>0 DEF WritesOnly
<1>22. CASE RetirementFails
  BY <1>22, <1>0, Fields DEF RetirementFails, CancelThen, Exit, Fails,
      settings, clusters
<1>23. CASE PrepareProduction
  BY <1>23, <1>0, Fields DEF PrepareProduction, Goto, settings, Works, bounds
<1>24. CASE StartApplications
  BY <1>24, <1>0, Fields DEF StartApplications, Restarted, Goto, settings,
      clusters, files, Works, Fails, bounds
<1>25. CASE SaveStarted
  <2>1. WritesOnly("started") BY <1>25, Noted
  <2>2. /\ at = "saving" /\ at' = "clusters"
        /\ UNCHANGED <<vol, box, data, latest, dump, app, todo, wanted, tplDb, tplDump>>
    BY <1>25 DEF SaveStarted, Goto, clusters
  <2>. QED BY <2>1, <2>2, Fields, <1>0 DEF WritesOnly
<1>26. CASE RestoreTemplate
  <2>1. CASE UNCHANGED journal /\ at' = "none"
    BY <1>26, <2>1, <1>0 DEF RestoreTemplate, Exit, settings, process
  <2>2. CASE WritesOnly("template") /\ journal'.template = "settled" /\ UNCHANGED process
    BY <1>26, <2>2, Fields, <1>0 DEF WritesOnly, RestoreTemplate, process, settings
  <2>. QED BY <1>26, <2>1, <2>2, Noted
<1>27. CASE FinishUpgrade
  BY <1>27, <1>0, Fields DEF FinishUpgrade, TemplatesSettled, Goto, settings,
      clusters, Works, bounds
<1>28. CASE ForgetJournal
  BY <1>28, <1>0, Fields DEF ForgetJournal, Goto, settings, clusters, Works,
      bounds
<1>29. CASE Die
  BY <1>29, <1>0, Fields DEF Die, Exit, Fails, settings, clusters, files
<1>30. CASE EditTemplate
  <2>1. UNCHANGED <<vol, box, journal, at>> BY <1>30 DEF EditTemplate, process
  <2>2. CASE tplDump' = "gone" BY <2>1, <2>2
  <2>3. CASE UNCHANGED tplDb /\ tplDump # "gone" BY <2>1, <2>3
  <2>. QED BY <1>30, <2>2, <2>3 DEF EditTemplate
<1>. QED
  BY <1>1, <1>2, <1>3, <1>4, <1>5, <1>6, <1>7, <1>8, <1>9, <1>10, <1>11,
     <1>12, <1>13, <1>14, <1>15, <1>16, <1>17, <1>18, <1>19, <1>20, <1>21,
     <1>22, <1>23, <1>24, <1>25, <1>26, <1>27, <1>28, <1>29, <1>30
    DEF UpNext, ServerSteps, UpgradeSteps

(* The deletion of the archive is on record before it begins.                 *)
LEMMA ArchivedKept ==
    ASSUME UpTypeOK, Control, Progress, Archived, UpNext
    PROVE  Archived'
<1> USE UpConstants DEF Control, Progress, Archived, Cancelling, Under, Phase,
        Planned
<1>0. /\ vol \in [Clusters -> Majors] /\ box \in [Clusters -> Majors] /\ (Under => journal \in Journals)
      /\ data \in [Clusters -> 0..MaxWrites + 1] /\ latest \in [Clusters -> 0..MaxWrites + 1]
      /\ dump \in [Clusters -> 0..MaxWrites + 1] /\ todo \subseteq Clusters
      /\ app \in [Clusters -> BOOLEAN] /\ wanted \in [Clusters -> BOOLEAN]
      /\ "dev" \in Clusters /\ "prod" \in Clusters
      /\ tplDb \in BOOLEAN /\ tplDump \in {"ok", "broken", "gone"}
  BY DEF UpTypeOK, Under, Clusters
<1>1. CASE
     \/ \E s \in Servers : BootServer(s) \/ RefuseImage(s) \/ ServeAsIs(s)
                           \/ StopServer(s)
     \/ \E k \in Clusters : StopApplication(k) \/ RemoveContainer(k)
                            \/ ApplicationWrites(k)
     \/ StartForDump \/ EditImage \/ HeedRefusal \/ EditTemplate
        \/ CommandBegins \/ CommandEnds
  <2>1. UNCHANGED <<vol, archive, baseDue, journal, at>>
    BY <1>1 DEF BootServer,
        Works, clusters, files, bounds, RefuseImage, settings, ServeAsIs,
        StopServer, Fails, StopApplication, process, RemoveContainer,
        StartForDump, ApplicationWrites, WriteDatabase, EditImage,
        HeedRefusal, EditTemplate, CommandBegins, CommandEnds
  <2>. QED BY <2>1, <1>0
<1>2. ASSUME NEW s \in Servers, TakeOver(s) PROVE Archived'
  BY <1>2, <1>0, Fields DEF TakeOver, settings, clusters, files, bounds
<1>3. CASE Resume
  BY <1>3, <1>0, Fields DEF Resume, Goto, Cancels, CancelThen, Exit, GotoWith,
      settings, clusters, files, Works, bounds
<1>4. CASE Cancel
  BY <1>4, <1>0, Fields DEF Cancel, Restarted, Goto, settings, files, Works,
      Fails, bounds
<1>5. CASE CancelDumps
  BY <1>5, <1>0, Fields DEF CancelDumps, DeletionNoted, Goto, settings,
      clusters, Works, bounds
<1>6. CASE CancelJournal
  BY <1>6, <1>0, Fields DEF CancelJournal, Goto, Exit, settings, clusters,
      Works, bounds
<1>7. CASE PlanClusters
  <2>1. boss \in Servers /\ NewJournal \in Journals /\ ~Under BY <1>7, Opened DEF PlanClusters,
                                                                 UpTypeOK
  <2>2. CASE journal' = journal
    BY <1>7, <2>1, <2>2, <1>0 DEF PlanClusters, Exit, Goto
  <2>3. CASE /\ journal' = NewJournal /\ Goto("stop") /\ ~WouldBeLost
             /\ UNCHANGED <<vol, box, data, latest, dump, app, wanted, tplDb, tplDump, archive, baseDue>>
    <3>1. /\ \A k \in Clusters : journal'.phase[k] = IF k \in Aged THEN "dump" ELSE "out"
          /\ journal'.stopped = {} /\ journal'.template = ListedTemplates
          /\ journal'.deleting = FALSE /\ journal'.deleted = FALSE /\ journal'.started = FALSE
      BY <2>1, <2>3, Opened
    <3>. QED BY <2>1, <2>3, <3>1, <1>0 DEF Goto, WouldBeLost, ListedTemplates, Aged
  <2>. QED BY <1>7, <2>2, <2>3 DEF PlanClusters
<1>8. ASSUME NEW k \in Clusters, RecordStop(k) PROVE Archived'
  <2>1. WritesOnly("stopped") /\ journal'.stopped = journal.stopped \cup {k}
    BY <1>8, Noted
  <2>. QED BY <1>8, <2>1, Fields, <1>0 DEF WritesOnly, RecordStop, settings,
      clusters, process, Works, bounds
<1>9. ASSUME NEW k \in Clusters, RemoveVolume(k) PROVE Archived'
  BY <1>9, <1>0, Fields DEF RemoveVolume, Replacing, settings, files, process,
      Works, ToRetire, Turn, bounds
<1>10. ASSUME NEW k \in Clusters, SaveRemoved(k) PROVE Archived'
  <2>1. Rewrites(k, "create_new") BY <1>10, Saved
  <2>2. journal.phase[k] = "remove_old" /\ ~ToRetire BY <1>10 DEF SaveRemoved, Replacing
  <2>3. k = "prod" => journal.deleting BY <2>1, <2>2, Fields DEF ToRetire, Rewrites, WritesOnly
  <2>. QED BY <2>1, <2>2, <2>3, Fields, <1>0 DEF Rewrites, WritesOnly, process, clusters
<1>11. ASSUME NEW k \in Clusters, CreateCluster(k) PROVE Archived'
  BY <1>11, <1>0, Fields DEF CreateCluster, Replacing, settings, files,
      process, Works, ToRetire, Turn, bounds
<1>12. ASSUME NEW k \in Clusters, SaveCreated(k) PROVE Archived'
  <2>1. Rewrites(k, "restore") BY <1>12, Saved
  <2>. QED
    BY <2>1, <1>12, Fields, <1>0 DEF Rewrites, WritesOnly, Phases, settings, clusters, process,
       bounds, SaveCreated, Replacing
<1>13. ASSUME NEW k \in Clusters, RestoreDatabase(k) PROVE Archived'
  BY <1>13, <1>0, Fields DEF RestoreDatabase, Replacing, process, Works, Exit,
      Fails, settings, files, ToRetire, Turn, bounds
<1>14. ASSUME NEW k \in Clusters, SaveRestored(k) PROVE Archived'
  <2>1. Rewrites(k, "done") BY <1>14, Saved
  <2>. QED
    BY <2>1, <1>14, Fields, <1>0 DEF Rewrites, WritesOnly, Phases, settings, clusters, process,
       bounds, SaveRestored, Replacing
<1>15. CASE BeginDumps
  BY <1>15, <1>0, Fields DEF BeginDumps, AllStopped, GotoWith, settings,
      clusters, files, Works, bounds
<1>16. CASE DumpCluster
  BY <1>16, <1>0, Fields DEF DumpCluster, Turn, GotoWith, settings, Works,
      bounds
<1>17. CASE DumpFails
  BY <1>17, <1>0, Fields DEF DumpFails, CancelThen, Fails, settings, clusters,
      files
<1>18. CASE CommitRemoval
  <2>1. /\ WritesOnly("phase")
        /\ \A c \in Clusters : journal'.phase[c] = IF c \in Planned THEN "remove_old" ELSE "out"
    BY <1>18, Noted
  <2>. QED BY <1>18, <2>1, Fields, <1>0 DEF WritesOnly, CommitRemoval, Goto,
      settings, clusters, Works, bounds
<1>19. CASE BeginRetirement
  <2>1. WritesOnly("deleting") /\ journal'.deleting = TRUE
    BY <1>19, Noted
  <2>. QED BY <1>19, <2>1, Fields, <1>0 DEF WritesOnly, BeginRetirement,
      ToRetire, Goto, settings, Works, bounds
<1>20. CASE DeleteArchive
  BY <1>20, <1>0, Fields DEF DeleteArchive, settings, clusters, process,
      Works, bounds
<1>21. CASE FinishRetirement
  <2>1. WritesOnly("deleted") /\ journal'.deleted = TRUE
    BY <1>21, Noted
  <2>. QED BY <1>21, <2>1, Fields, <1>0 DEF WritesOnly, FinishRetirement, Goto,
      settings, clusters, Works, bounds
<1>22. CASE RetirementFails
  BY <1>22, <1>0, Fields DEF RetirementFails, CancelThen, Exit, Fails,
      settings, clusters
<1>23. CASE PrepareProduction
  BY <1>23, <1>0, Fields DEF PrepareProduction, Goto, settings, Works, bounds
<1>24. CASE StartApplications
  BY <1>24, <1>0, Fields DEF StartApplications, Restarted, Goto, settings,
      clusters, files, Works, Fails, bounds
<1>25. CASE SaveStarted
  <2>1. WritesOnly("started") /\ journal'.started = TRUE
    BY <1>25, Noted
  <2>. QED BY <1>25, <2>1, Fields, <1>0 DEF WritesOnly, SaveStarted, Goto,
      settings, clusters, Works, bounds
<1>26. CASE RestoreTemplate
  <2>1. \/ UNCHANGED journal /\ at' = "none"
        \/ WritesOnly("template") /\ journal'.template = "settled" /\ UNCHANGED process
    BY <1>26, Noted
  <2>. QED BY <1>26, <2>1, Fields, <1>0 DEF WritesOnly, RestoreTemplate, Exit,
      process, settings, Works, bounds
<1>27. CASE FinishUpgrade
  BY <1>27, <1>0, Fields DEF FinishUpgrade, TemplatesSettled, Goto, settings,
      clusters, Works, bounds
<1>28. CASE ForgetJournal
  BY <1>28, <1>0, Fields DEF ForgetJournal, Goto, settings, clusters, Works,
      bounds
<1>29. CASE Die
  BY <1>29, <1>0, Fields DEF Die, Exit, Fails, settings, clusters, files
<1>30. CASE BaseBackup
  BY <1>30, <1>0, Fields DEF BaseBackup, settings, clusters, process, bounds
<1>. QED
  BY <1>1, <1>2, <1>3, <1>4, <1>5, <1>6, <1>7, <1>8, <1>9, <1>10, <1>11,
     <1>12, <1>13, <1>14, <1>15, <1>16, <1>17, <1>18, <1>19, <1>20, <1>21,
     <1>22, <1>23, <1>24, <1>25, <1>26, <1>27, <1>28, <1>29, <1>30
    DEF UpNext, ServerSteps, UpgradeSteps

-----------------------------------------------------------------------------
LEMMA Starts == UpInit => UpInv /\ Apart /\ Data
<1> SUFFICES ASSUME UpInit PROVE UpInv /\ Apart /\ Data
  OBVIOUS
<1>1. PICK prod \in {"absent", "disabled", "running"} :
        /\ vol = [k \in Clusters |-> IF k = "prod" /\ prod = "absent" THEN "none" ELSE "old"]
        /\ box = vol
        /\ runs = [k \in Clusters |-> k = "dev" \/ prod = "running"]
        /\ data = [k \in Clusters |-> IF vol[k] = "none" THEN 0 ELSE 1]
        /\ archive = vol["prod"]
  BY DEF UpInit
<1>2. vol \in [Clusters -> Majors] /\ box \in [Clusters -> Majors] /\ archive \in Majors
  BY <1>1 DEF Majors, Clusters
<1>3. runs \in [Clusters -> BOOLEAN]
  <2>1. \A k \in Clusters : (k = "dev" \/ prod = "running") \in BOOLEAN OBVIOUS
  <2>. QED BY <1>1, <2>1
<1>4. data \in [Clusters -> 0..MaxWrites + 1] /\ [k \in Clusters |-> 0] \in [Clusters -> 0..MaxWrites + 1]
  BY <1>1, UpConstants
<1>5. ServersTyped BY UpConstants DEF UpInit, ServersTyped, Places
<1>6. ClustersTyped BY <1>2, <1>3, <1>4 DEF UpInit, ClustersTyped
<1>7. JournalTyped BY DEF UpInit, JournalTyped
<1>8. UpTypeOK BY <1>5, <1>6, <1>7 DEF UpTypeOK, ServersTyped, ClustersTyped, JournalTyped
<1>9. Control /\ Apart BY UpConstants DEF UpInit, Control, Apart, Under
<1>10. Progress BY DEF UpInit, Progress, Under, Cancelling
<1>11. Data BY DEF UpInit, Data, Under, Committed
<1>12. Applications /\ Templates /\ Archived
  BY <1>1, <1>3 DEF UpInit, Applications, Templates, Archived, Under
<1>. QED BY <1>8, <1>9, <1>10, <1>11, <1>12 DEF UpInv

LEMMA Stutters == UpInv /\ UNCHANGED upVars => UpInv'
BY DEF UpInv, UpTypeOK, Control, Progress, Applications, Templates, Archived, Under, Phase,
       Cancelling, Planned, Revocable, Intact, Unfinished, upVars, settings, clusters, files,
       process, bounds

LEMMA DataStutters == Apart /\ Data /\ UNCHANGED upVars => Apart' /\ Data'
BY DEF Apart, Data, Safe, Committed, InDump, Under, Phase, Planned, Revocable, Intact,
       upVars, settings, clusters, files, process, bounds

LEMMA UpgradeKept == UpInv /\ [UpNext]_upVars => UpInv'
<1>1. ASSUME UpInv, UpNext PROVE UpInv'
  <2>1. UpTypeOK /\ Control /\ Progress /\ Applications /\ Templates /\ Archived BY <1>1 DEF UpInv
  <2>2. ServersTyped' BY <1>1, <2>1, TypesServers
  <2>3. ClustersTyped' BY <1>1, <2>1, TypesClusters
  <2>4. JournalTyped' BY <1>1, <2>1, TypesJournal
  <2>5. UpTypeOK' BY <2>2, <2>3, <2>4 DEF UpTypeOK, ServersTyped, ClustersTyped, JournalTyped
  <2>6. Control' BY <1>1, <2>1, ControlKept
  <2>7. Progress' BY <1>1, <2>1, ProgressKept
  <2>8. Applications' BY <1>1, <2>1, ApplicationsKept
  <2>9. Templates' BY <1>1, <2>1, TemplatesKept
  <2>10. Archived' BY <1>1, <2>1, ArchivedKept
  <2>. QED BY <2>5, <2>6, <2>7, <2>8, <2>9, <2>10 DEF UpInv
<1>. QED BY <1>1, Stutters

LEMMA DataKeptToo ==
    ASSUME ~CommandsOverlap
    PROVE  UpInv /\ Apart /\ Data /\ [UpNext]_upVars => Apart' /\ Data'
<1>1. ASSUME UpInv, Apart, Data, UpNext PROVE Apart' /\ Data'
  <2>1. UpTypeOK /\ Control /\ Progress BY <1>1 DEF UpInv
  <2>2. Apart' BY <1>1, <2>1, ApartKept
  <2>3. Data' BY <1>1, <2>1, DataKept
  <2>. QED BY <2>2, <2>3
<1>. QED BY <1>1, DataStutters

(* The clusters, the files, the journal and the servers keep their types.     *)
THEOREM UpgradeTypes == UpSpec => []UpTypeOK
<1>1. UpInv => UpTypeOK BY DEF UpInv
<1>. QED BY <1>1, Starts, UpgradeKept, PTL DEF UpSpec

LEMMA Holds == ASSUME ~CommandsOverlap PROVE UpSpec => [](UpInv /\ Apart /\ Data)
<1>1. UpInv /\ Apart /\ Data /\ [UpNext]_upVars => (UpInv /\ Apart /\ Data)'
  BY UpgradeKept, DataKeptToo
<1>. QED BY <1>1, Starts, PTL DEF UpSpec

(* Where the last write is not in its cluster, the removal is committed and   *)
(* the verified dump has it (postgres_migration.py, module docstring), for    *)
(* any number of servers, writes, edits and deaths, as long as no command     *)
(* runs beside an upgrade.                                                    *)
THEOREM NoWriteIsLost == ASSUME ~CommandsOverlap PROVE UpSpec => []NothingLost
<1>1. UpInv /\ Data => NothingLost
  <2> SUFFICES ASSUME UpInv, Data, NEW k \in Clusters PROVE latest[k] \in {data[k], dump[k]}
    BY DEF NothingLost
  <2>1. CASE Safe(k) BY <2>1 DEF Data
  <2>2. CASE ~Safe(k)
    <3>1. Under /\ journal \in Journals BY <2>2 DEF Safe, Under, UpInv, UpTypeOK
    <3>2. /\ Phase(k) \in {"remove_old", "create_new", "restore"}
          /\ Phase(k) = "remove_old" => ~Intact(k)
      BY <2>2, <3>1, Fields DEF Safe, Phases, Phase
    <3>3. ~Revocable BY <3>2 DEF Revocable, Planned, Phase
    <3>. QED BY <3>1, <3>2, <3>3 DEF Data, Committed, InDump
  <2>. QED BY <2>1, <2>2
<1>. QED BY <1>1, Holds, PTL

(* Who serves found no journal, so that every database is in its cluster,     *)
(* every application that was stopped was started, the template was restored  *)
(* and the archive's deletion was answered by a base backup.                  *)
THEOREM ServedIsWhole == ASSUME ~CommandsOverlap PROVE UpSpec => []ServesWhole
<1>1. UpInv /\ Data => ServesWhole
  BY DEF UpInv, Control, Data, Safe, Under, Applications, Templates, Archived, ServesWhole
<1>. QED BY <1>1, Holds, PTL

-----------------------------------------------------------------------------
(* For any packages, lines and edits, and wherever runs are interrupted: no   *)
(* run takes from the operator what he wrote, and none skips what a package   *)
(* changes.                                                                   *)
(*                                                                            *)
(* A merge only takes away what the base has, and no base has a line of his   *)
(* (NothingOfHis). So what a run is to write over the live file has the lines *)
(* he had when it was planned (KeepsHis), and Apply makes sure that it still  *)
(* is that file. A forced run writes less, but only after it has copied the   *)
(* file (CopiedFirst, Copied).                                                *)

Pair == Files \X Optional
Bases == {"baseline", "pending"}

Typed ==
    /\ package \in DOMAIN Bundles /\ file \in [Files -> Optional] /\ own \subseteq Mine
    /\ run \in [step : {"idle", "planned", "write"}, kind : Kinds, source : SUBSET Lines,
                local : Optional, base : Optional, on : SUBSET Bases, todo : Seq(Pair)]

(* A list of writes puts none of his lines into a base.                       *)
LeavesOutHis(list) ==
    \A i \in DOMAIN list : list[i][1] \in Bases => (UNION list[i][2]) \cap Mine = {}

NothingOfHis == (\A f \in Bases : Of(f) \cap Mine = {}) /\ LeavesOutHis(run.todo)

(* The live file is written first, or right after its copy.                   *)
LiveAt(list, i) == i \in DOMAIN list /\ list[i][1] = "live"

CopiedFirst(r) ==
    \A i \in DOMAIN r.todo :
        LiveAt(r.todo, i) /\ i # 1 => i = 2 /\ r.todo[1] = <<"backup", r.local>>

KeepsHis(r, lines) ==
    r.kind # "overwrite" =>
        \A i \in DOMAIN r.todo : LiveAt(r.todo, i) => lines \subseteq UNION r.todo[i][2]

(* What a plan is, and what is true while it is carried out.                  *)
Sound(r) ==
    /\ CopiedFirst(r) /\ KeepsHis(r, Mine \cap UNION r.local)
    /\ r.kind = "overwrite" => ~LiveAt(r.todo, 1)

Copied ==
    run.kind = "overwrite" =>
        /\ own \subseteq UNION run.local
        /\ LiveAt(run.todo, 1) => own \subseteq Of("backup")

Carried == CopiedFirst(run) /\ KeepsHis(run, own) /\ Copied

RunInv ==
    /\ run.step = "planned" => Sound(run)
    /\ run.step = "write" => Carried

EditsInv == Typed /\ NothingOfHis /\ RunInv /\ EditsKept

-----------------------------------------------------------------------------
(* The lists of writes.                                                       *)

(* A list that touches neither the live file nor its copy.                    *)
Plain(s) ==
    /\ s \in Seq(Pair) /\ LeavesOutHis(s)
    /\ \A i \in DOMAIN s : s[i][1] \notin {"live", "backup"}

IsJoin(w, s, t) ==
    /\ w \in Seq(Pair)
    /\ \A i \in DOMAIN w : i \in DOMAIN s \/ \E j \in DOMAIN t : w[i] = t[j]
    /\ \A i \in DOMAIN s : w[i] = s[i]

LEMMA Joined ==
    ASSUME NEW s \in Seq(Pair), NEW t \in Seq(Pair) PROVE IsJoin(s \o t, s, t)
<1>. DEFINE w == s \o t
<1>1. /\ w \in Seq(Pair) /\ Len(w) = Len(s) + Len(t)
      /\ \A i \in 1..Len(s) + Len(t) : w[i] = IF i <= Len(s) THEN s[i] ELSE t[i - Len(s)]
  BY ConcatProperties
<1>2. DOMAIN w = 1..Len(s) + Len(t) /\ DOMAIN s = 1..Len(s) /\ DOMAIN t = 1..Len(t)
  BY <1>1
<1>3. Len(s) \in Nat /\ Len(t) \in Nat OBVIOUS
<1>4. ASSUME NEW i \in DOMAIN w, i \notin DOMAIN s PROVE \E j \in DOMAIN t : w[i] = t[j]
  <2>1. i - Len(s) \in DOMAIN t /\ w[i] = t[i - Len(s)] BY <1>1, <1>2, <1>3, <1>4
  <2>. QED BY <2>1
<1>5. \A i \in DOMAIN s : w[i] = s[i] BY <1>1, <1>2, <1>3
<1>. QED BY <1>1, <1>4, <1>5 DEF IsJoin

LEMMA PlainConcat ==
    ASSUME NEW s, NEW t, Plain(s), Plain(t) PROVE Plain(s \o t)
<1>1. s \in Seq(Pair) /\ t \in Seq(Pair) BY DEF Plain
<1>2. IsJoin(s \o t, s, t) BY <1>1, Joined
<1>. QED BY <1>2 DEF IsJoin, Plain, LeavesOutHis

LEMMA PlainOne ==
    ASSUME NEW f \in Files \ {"live", "backup"}, NEW c \in Optional,
           f \in Bases => (UNION c) \cap Mine = {}
    PROVE  Plain(<<<<f, c>>>>)
  BY DEF Plain, LeavesOutHis, Pair

LEMMA PlainTwo ==
    ASSUME NEW f \in Files \ {"live", "backup"}, NEW c \in Optional,
           f \in Bases => (UNION c) \cap Mine = {},
           NEW g \in Files \ {"live", "backup"}, NEW d \in Optional,
           g \in Bases => (UNION d) \cap Mine = {}
    PROVE  Plain(<<<<f, c>>, <<g, d>>>>)
  BY DEF Plain, LeavesOutHis, Pair

LEMMA NamesOfFiles ==
    /\ Bases \cup Sidecars \subseteq Files \ {"live", "backup"} /\ Bases \cap Sidecars = {}
    /\ {} \in Optional /\ \A c \in SUBSET Lines : {c} \in Optional
    /\ {"live", "backup"} \subseteq Files
  BY DEF Files, Bases, Sidecars, Optional

LEMMA PlainTidy == Plain(Tidy)
<1>1. \A f \in Bases \cup Sidecars : Plain(<<Unlink(f)>>) BY NamesOfFiles, PlainOne DEF Unlink
<1>2. Tidy = <<Unlink("pending"), Unlink("new")>> \o <<Unlink("merge"), Unlink("error")>>
  BY DEF Tidy
<1>3. Plain(<<Unlink("pending"), Unlink("new")>>) /\ Plain(<<Unlink("merge"), Unlink("error")>>)
  BY NamesOfFiles, PlainTwo DEF Unlink, Bases, Sidecars
<1>. QED BY <1>2, <1>3, PlainConcat

(* What goes over the live file, and what may come after it.                  *)
LEMMA Replacements ==
    ASSUME NEW b \in Optional, NEW c \in Optional
    PROVE  /\ <<<<"live", c>>>> \in Seq(Pair)
           /\ <<<<"backup", b>>, <<"live", c>>>> \in Seq(Pair)
  BY NamesOfFiles DEF Pair

LEMMA WritesLive ==
    ASSUME NEW s, Plain(s), NEW c \in Optional, NEW w, w = <<<<"live", c>>>> \o s
    PROVE  /\ w \in Seq(Pair) /\ LeavesOutHis(w)
           /\ \A i \in DOMAIN w : LiveAt(w, i) => i = 1 /\ w[i][2] = c
<1>. DEFINE p == <<<<"live", c>>>>
<1>1. p \in Seq(Pair) /\ DOMAIN p = {1} /\ p[1] = <<"live", c>>
  <2>1. p \in Seq(Pair) BY Replacements
  <2>2. DOMAIN p = {1} /\ p[1] = <<"live", c>> OBVIOUS
  <2>. QED BY <2>1, <2>2
<1>2. s \in Seq(Pair) BY DEF Plain
<1>. HIDE DEF p
<1>3. w \in Seq(Pair) /\ \A i \in DOMAIN w : (i = 1 /\ w[i] = p[1]) \/ \E j \in DOMAIN s : w[i] = s[j]
  <2>1. w = p \o s BY DEF p
  <2>2. p \in Seq(Pair) /\ s \in Seq(Pair) BY <1>1, <1>2
  <2>3. IsJoin(p \o s, p, s) BY <2>2, Joined
  <2>. QED BY <1>1, <2>1, <2>3 DEF IsJoin
<1>4. LeavesOutHis(w) BY <1>1, <1>3 DEF Plain, LeavesOutHis, Bases
<1>5. \A i \in DOMAIN w : LiveAt(w, i) => i = 1 /\ w[i][2] = c
  BY <1>1, <1>3 DEF Plain, LiveAt
<1>. QED BY <1>3, <1>4, <1>5

IsCopying(w, b, c) ==
    /\ w \in Seq(Pair) /\ LeavesOutHis(w) /\ w[1] = <<"backup", b>>
    /\ \A i \in DOMAIN w : LiveAt(w, i) => i = 2 /\ w[i][2] = c

Copying(b, c) == <<<<"backup", b>>, <<"live", c>>>>

LEMMA WritesCopy ==
    ASSUME NEW s, Plain(s), NEW b \in Optional, NEW c \in Optional
    PROVE  IsCopying(Copying(b, c) \o s, b, c)
<1>. DEFINE w == Copying(b, c) \o s
<1>. DEFINE p == Copying(b, c)
<1>1. /\ p \in Seq(Pair) /\ DOMAIN p = {1, 2}
      /\ p[1] = <<"backup", b>> /\ p[2] = <<"live", c>>
  BY Replacements DEF Copying
<1>2. s \in Seq(Pair) BY DEF Plain
<1>. HIDE DEF p, w
<1>3. /\ w \in Seq(Pair) /\ w[1] = p[1]
      /\ \A i \in DOMAIN w : \/ i = 1 /\ w[i] = p[1]
                             \/ i = 2 /\ w[i] = p[2]
                             \/ \E j \in DOMAIN s : w[i] = s[j]
  <2>1. w = p \o s BY DEF p, w
  <2>2. p \in Seq(Pair) /\ s \in Seq(Pair) BY <1>1, <1>2
  <2>3. IsJoin(p \o s, p, s) BY <2>2, Joined
  <2>. QED BY <1>1, <2>1, <2>3 DEF IsJoin
<1>4. \A i \in DOMAIN w : w[i][1] \in {"live", "backup"} \/ \E j \in DOMAIN s : w[i] = s[j]
  BY <1>1, <1>3
<1>5. LeavesOutHis(w) BY <1>4 DEF Plain, LeavesOutHis, Bases
<1>6. \A i \in DOMAIN w : LiveAt(w, i) => i = 2 /\ w[i][2] = c
  BY <1>1, <1>3 DEF Plain, LiveAt
<1>. QED BY <1>1, <1>3, <1>5, <1>6 DEF IsCopying, w

-----------------------------------------------------------------------------
(* The plans.                                                                 *)

LEMMA BundleIsPackaged ==
    ASSUME BundlesConstants, Typed PROVE Bundle \in SUBSET Lines /\ Bundle \cap Mine = {}
  BY DEF BundlesConstants, Typed, Bundle, Lines

LEMMA OnIsABase == On \in Bases BY DEF On, Bases

LEMMA ContentsAreLines ==
    ASSUME Typed, NEW f \in Files PROVE Of(f) \in SUBSET Lines
<1>1. file[f] \in Optional BY DEF Typed
<1>. QED BY <1>1 DEF Of, Optional

LEMMA WhatIsRecorded ==
    ASSUME BundlesConstants, EditsInv, NEW kind
    PROVE  Recorded(kind) \in SUBSET Lines /\ Recorded(kind) \cap Mine = {}
<1>1. Of(On) \in SUBSET Lines /\ Of(On) \cap Mine = {}
  BY OnIsABase, NamesOfFiles, ContentsAreLines DEF EditsInv, NothingOfHis
<1>. QED BY <1>1, BundleIsPackaged DEF EditsInv, Recorded

LEMMA PlainParts ==
    ASSUME BundlesConstants, EditsInv
    PROVE  /\ \A k \in Kinds : Plain(Baseline(k)) /\ Plain(Baseline(k) \o Tidy)
           /\ \A s \in Sidecars : Plain(Offer(s))
           /\ \A s, t \in Sidecars : Plain(<<Unlink(s), Unlink(t)>>)
           /\ Plain(<<Unlink("pending")>>) /\ Plain(<<>>)
           /\ \A s \in Sidecars : Plain(<<Head(Offer(s))>>) /\ Plain(Tail(Offer(s)))
           /\ Plain(<<<<"error", {Bundle}>>>>)
<1>1. {Bundle} \in Optional /\ (UNION {Bundle}) \cap Mine = {}
  BY BundleIsPackaged, NamesOfFiles DEF EditsInv
<1>2. ASSUME NEW k \in Kinds PROVE Plain(Baseline(k))
  <2>1. {Recorded(k)} \in Optional /\ (UNION {Recorded(k)}) \cap Mine = {}
    BY WhatIsRecorded, NamesOfFiles
  <2>. QED BY <2>1, NamesOfFiles, PlainOne DEF Baseline, Bases
<1>3. \A k \in Kinds : Plain(Baseline(k) \o Tidy) BY <1>2, PlainTidy, PlainConcat
<1>4. ASSUME NEW s \in Sidecars
      PROVE  Plain(Offer(s)) /\ Plain(<<Head(Offer(s))>>) /\ Plain(Tail(Offer(s)))
  <2>1. "pending" \in Files \ {"live", "backup"} /\ s \in Files \ {"live", "backup"} /\ s \notin Bases
    BY NamesOfFiles DEF Bases
  <2>2. Plain(<<<<s, {Bundle}>>, <<"pending", {Bundle}>>>>) BY <1>1, <2>1, PlainTwo
  <2>3. Plain(<<<<s, {Bundle}>>>>) /\ Plain(<<<<"pending", {Bundle}>>>>) BY <1>1, <2>1, PlainOne
  <2>4. Head(Offer(s)) = <<s, {Bundle}>> /\ Tail(Offer(s)) = <<<<"pending", {Bundle}>>>>
    BY DEF Offer
  <2>. QED BY <2>2, <2>3, <2>4 DEF Offer
<1>5. \A s, t \in Sidecars : Plain(<<Unlink(s), Unlink(t)>>)
  BY NamesOfFiles, PlainTwo DEF Unlink
<1>6. Plain(<<Unlink("pending")>>) BY NamesOfFiles, PlainOne DEF Unlink, Bases
<1>7. Plain(<<>>) BY DEF Plain, LeavesOutHis
<1>8. Plain(<<<<"error", {Bundle}>>>>)
  BY <1>1, NamesOfFiles, PlainOne DEF Sidecars, Bases
<1>. QED BY <1>2, <1>3, <1>4, <1>5, <1>6, <1>7, <1>8

Rewriting == {"update", "merge", "overwrite"}

LEMMA OtherWritesArePlain ==
    ASSUME BundlesConstants, EditsInv, NEW kind \in Kinds \ ({"create", "none", "seed"} \cup Rewriting)
    PROVE  Plain(Writes(kind))
<1>. USE PlainParts, PlainConcat DEF Kinds, Rewriting, Sidecars
<1>1. CASE kind \in {"up-to-date", "local-only", "keep"} BY <1>1 DEF Writes
<1>2. CASE kind \in {"adopt", "resolved"} BY <1>2 DEF Writes
<1>3. CASE kind \in {"legacy", "legacy-pending"} BY <1>3 DEF Writes
<1>4. CASE kind = "conflict"
  <2>1. Plain(<<Head(Offer("merge"))>> \o Baseline(kind)) BY <1>4
  <2>2. Plain(<<Head(Offer("merge"))>> \o Baseline(kind) \o Tail(Offer("merge"))) BY <2>1
  <2>3. Plain(IF Acknowledged
              THEN <<Head(Offer("merge"))>> \o Baseline(kind) \o Tail(Offer("merge"))
              ELSE Offer("merge"))
    BY <2>2
  <2>. QED BY <1>4, <2>3 DEF Writes
<1>5. CASE kind = "error"
  <2>1. Plain(IF Acknowledged THEN Baseline(kind) \o <<Unlink("pending")>> ELSE <<>>) BY <1>5
  <2>. QED BY <1>5, <2>1 DEF Writes
<1>. QED BY <1>1, <1>2, <1>3, <1>4, <1>5

(* What Kind says of the live file.                                           *)
LEMMA KindsOfPlans ==
    ASSUME NEW force \in BOOLEAN, NEW git \in {"merge", "conflict", "error"}
    PROVE  LET k == Kind(force, git) IN
             /\ k \in Kinds \ {"none", "seed"}
             /\ k = "create" => file["live"] = {}
             /\ k = "update" => file["live"] = file[On]
  BY DEF Kind, Forced, Kinds, There

(* A plan made now is sound.                                                  *)
LEMMA PlansAreSound ==
    ASSUME BundlesConstants, EditsInv, NEW r, NEW force \in BOOLEAN,
           NEW git \in {"merge", "conflict", "error"},
           r.kind = Kind(force, git), r.local = file["live"], r.todo = Writes(r.kind)
    PROVE  r.todo \in Seq(Pair) /\ LeavesOutHis(r.todo) /\ Sound(r)
<1>1. /\ r.kind \in Kinds \ {"none", "seed"}
      /\ r.kind = "create" => file["live"] = {}
      /\ r.kind = "update" => file["live"] = file[On]
  BY KindsOfPlans
<1>2. Bundle \in SUBSET Lines /\ {Bundle} \in Optional /\ file["live"] \in Optional
  BY BundleIsPackaged, NamesOfFiles DEF EditsInv, Typed
<1>3. CASE r.kind \notin {"create"} \cup Rewriting
  <2>1. Plain(r.todo) BY <1>1, <1>3, OtherWritesArePlain
  <2>. QED BY <2>1, <1>3 DEF Plain, Sound, CopiedFirst, KeepsHis, LiveAt, Rewriting
<1>4. CASE r.kind = "create"
  <2>1. r.todo = <<<<"live", {Bundle}>>>> \o Baseline(r.kind) \o Tidy BY <1>4 DEF Writes
  <2>2. Plain(Baseline(r.kind)) /\ Plain(Tidy) BY <1>1, PlainParts, PlainTidy
  <2>3. r.todo = <<<<"live", {Bundle}>>>> \o (Baseline(r.kind) \o Tidy)
    <3>1. <<<<"live", {Bundle}>>>> \in Seq(Pair) BY <1>2, Replacements
    <3>. QED BY <2>1, <2>2, <3>1, ConcatAssociative DEF Plain
  <2>4. /\ r.todo \in Seq(Pair) /\ LeavesOutHis(r.todo)
        /\ \A i \in DOMAIN r.todo : LiveAt(r.todo, i) => i = 1
    <3>1. Plain(Baseline(r.kind) \o Tidy) BY <1>1, PlainParts
    <3>. QED BY <1>2, <2>3, <3>1, WritesLive
  <2>5. UNION r.local = {} BY <1>1, <1>4
  <2>. QED BY <1>4, <2>4, <2>5 DEF Sound, CopiedFirst, KeepsHis
<1>5. CASE r.kind \in Rewriting
  <2>. DEFINE c == {Result(r.kind)}
  <2>1. c \in Optional /\ (r.kind # "overwrite" => Mine \cap UNION r.local \subseteq Result(r.kind))
    <3>1. Of(On) \cap Mine = {} BY OnIsABase DEF EditsInv, NothingOfHis
    <3>2. Of("live") \in SUBSET Lines BY NamesOfFiles, ContentsAreLines DEF EditsInv
    <3>3. CASE r.kind = "merge"
      <4>1. Result(r.kind) = Merged BY <3>3 DEF Result
      <4>2. Merged \in SUBSET Lines BY <1>2, <3>2 DEF Merged
      <4>3. Mine \cap Of("live") \subseteq Merged BY <3>1 DEF Merged
      <4>. QED BY <4>1, <4>2, <4>3, NamesOfFiles DEF Of
    <3>4. CASE r.kind = "update"
      <4>1. Result(r.kind) = Bundle BY <3>4 DEF Result
      <4>2. Mine \cap UNION r.local = {} BY <1>1, <3>1, <3>4 DEF Of
      <4>. QED BY <1>2, <4>1, <4>2
    <3>5. CASE r.kind = "overwrite" BY <1>2, <3>5 DEF Result
    <3>. QED BY <1>5, <3>3, <3>4, <3>5 DEF Rewriting
  <2>2. r.local \in Optional BY <1>2
  <2>. HIDE DEF c
  <2>3. r.todo = Copying(r.local, c) \o (Baseline(r.kind) \o Tidy)
    <3>1. r.todo = Copying(r.local, c) \o Baseline(r.kind) \o Tidy
      BY <1>5 DEF Writes, Replaced, Rewriting, Copying, c
    <3>2. Copying(r.local, c) \in Seq(Pair) BY <2>1, <2>2, Replacements DEF Copying
    <3>3. Plain(Baseline(r.kind)) /\ Plain(Tidy) BY <1>1, PlainParts, PlainTidy
    <3>. QED BY <3>1, <3>2, <3>3, ConcatAssociative DEF Plain
  <2>7. IsCopying(r.todo, r.local, c) BY <1>1, <2>1, <2>2, <2>3, PlainParts, WritesCopy
  <2>4. CopiedFirst(r) BY <2>7 DEF CopiedFirst, IsCopying
  <2>5. r.kind # "overwrite" => Mine \cap UNION r.local \subseteq UNION c BY <2>1 DEF c
  <2>6. KeepsHis(r, Mine \cap UNION r.local) BY <2>5, <2>7 DEF KeepsHis, IsCopying
  <2>. QED BY <2>4, <2>6, <2>7 DEF Sound, LiveAt, IsCopying
<1>. QED BY <1>1, <1>3, <1>4, <1>5

-----------------------------------------------------------------------------
(* The steps.                                                                 *)

LEMMA Planning ==
    ASSUME BundlesConstants, EditsInv, PlanUpgrade PROVE EditsInv'
<1>1. PICK force \in BOOLEAN, git \in {"merge", "conflict", "error"} :
        LET kind == Kind(force, git) IN
          run' = [step |-> "planned", kind |-> kind, source |-> Bundle, local |-> file["live"],
                  base |-> file[On],
                  on |-> IF There(On) /\ kind \in {"update", "resolved", "local-only", "merge",
                                                   "conflict", "error"} THEN {On} ELSE {},
                  todo |-> Writes(kind)]
  BY DEF PlanUpgrade
<1>2. /\ run'.kind = Kind(force, git) /\ run'.local = file["live"]
      /\ run'.todo = Writes(run'.kind) /\ run'.step = "planned"
  BY <1>1
<1>3. run'.todo \in Seq(Pair) /\ LeavesOutHis(run'.todo) /\ Sound(run')
  BY <1>2, PlansAreSound
<1>4. Kind(force, git) \in Kinds /\ Bundle \in SUBSET Lines
      /\ file["live"] \in Optional /\ file[On] \in Optional /\ On \in Bases
  BY KindsOfPlans, BundleIsPackaged, OnIsABase, NamesOfFiles DEF EditsInv, Typed
<1>5. Typed'
  <2>1. run' \in [step : {"idle", "planned", "write"}, kind : Kinds, source : SUBSET Lines,
                  local : Optional, base : Optional, on : SUBSET Bases, todo : Seq(Pair)]
    BY <1>1, <1>2, <1>3, <1>4
  <2>. QED BY <2>1 DEF EditsInv, Typed, PlanUpgrade
<1>6. RunInv' BY <1>2, <1>3 DEF RunInv
<1>7. NothingOfHis' /\ EditsKept'
  BY <1>3 DEF EditsInv, NothingOfHis, EditsKept, PlanUpgrade, Of
<1>. QED BY <1>5, <1>6, <1>7 DEF EditsInv

(* A run that ends, or is ended, leaves everything as it is.                  *)
LEMMA Ending ==
    ASSUME EditsInv, run' = NoRun, UNCHANGED <<package, file, own, shelved>> PROVE EditsInv'
<1>1. NoRun \in [step : {"idle", "planned", "write"}, kind : Kinds, source : SUBSET Lines,
                local : Optional, base : Optional, on : SUBSET Bases, todo : Seq(Pair)]
  BY NamesOfFiles DEF NoRun, Kinds
<1>2. run'.step = "idle" /\ run'.todo = <<>> BY DEF NoRun
<1>3. LeavesOutHis(<<>>) BY DEF LeavesOutHis
<1>. QED BY <1>1, <1>2, <1>3 DEF EditsInv, Typed, NothingOfHis, RunInv, EditsKept, Of

(* Nothing has changed the live file since it was read.                       *)
LEMMA Applying ==
    ASSUME EditsInv, Apply, Unchanged PROVE EditsInv'
<1>1. run' = [run EXCEPT !.step = "write"] /\ run.local = file["live"] /\ run.step = "planned"
      /\ UNCHANGED <<package, file, own, shelved>>
  BY DEF Apply, Unchanged
<1>2. Typed' BY <1>1 DEF EditsInv, Typed
<1>3. /\ run'.kind = run.kind /\ run'.local = run.local /\ run'.todo = run.todo
      /\ run'.step = "write"
  BY <1>1 DEF EditsInv, Typed
<1>4. Sound(run) BY <1>1 DEF EditsInv, RunInv
<1>5. own \subseteq Mine \cap UNION run.local BY <1>1 DEF EditsInv, EditsKept, Of, Typed
<1>6. CopiedFirst(run') BY <1>3, <1>4 DEF Sound, CopiedFirst
<1>7. KeepsHis(run', own') BY <1>1, <1>3, <1>4, <1>5 DEF Sound, KeepsHis
<1>8. Copied' BY <1>1, <1>3, <1>4, <1>5 DEF Sound, Copied, Of
<1>9. NothingOfHis' /\ EditsKept' BY <1>1, <1>3 DEF EditsInv, NothingOfHis, EditsKept, Of
<1>. QED BY <1>2, <1>3, <1>6, <1>7, <1>8, <1>9 DEF EditsInv, RunInv, Carried

(* The server writes over a live file only where there is none.               *)
LEMMA Seeding ==
    ASSUME BundlesConstants, EditsInv, Seed PROVE EditsInv'
<1>. DEFINE w == (IF There("live") THEN <<>> ELSE <<<<"live", {Bundle}>>>>)
                     \o <<<<"baseline", {Bundle}>>>>
<1>1. run' = [NoRun EXCEPT !.step = "write", !.kind = "seed", !.todo = w]
      /\ UNCHANGED <<package, file, own, shelved>>
  BY DEF Seed
<1>2. {Bundle} \in Optional /\ (UNION {Bundle}) \cap Mine = {}
  BY BundleIsPackaged, NamesOfFiles DEF EditsInv
<1>3. Plain(<<<<"baseline", {Bundle}>>>>)
  BY <1>2, NamesOfFiles, PlainOne DEF Bases
<1>4. /\ w \in Seq(Pair) /\ LeavesOutHis(w)
      /\ \A i \in DOMAIN w : LiveAt(w, i) => i = 1 /\ ~There("live")
  <2>1. CASE There("live")
    <3>1. Plain(<<>> \o <<<<"baseline", {Bundle}>>>>) BY <1>3, PlainParts, PlainConcat
    <3>. QED BY <2>1, <3>1 DEF Plain, LiveAt
  <2>2. CASE ~There("live")
    <3>1. w = <<<<"live", {Bundle}>>>> \o <<<<"baseline", {Bundle}>>>> BY <2>2
    <3>. HIDE DEF w
    <3>. QED BY <1>2, <1>3, <2>2, <3>1, WritesLive
  <2>. QED BY <2>1, <2>2
<1>. HIDE DEF w
<1>5. Typed'
  <2>1. run' \in [step : {"idle", "planned", "write"}, kind : Kinds, source : SUBSET Lines,
                  local : Optional, base : Optional, on : SUBSET Bases, todo : Seq(Pair)]
    BY <1>1, <1>4, NamesOfFiles DEF NoRun, Kinds
  <2>. QED BY <1>1, <2>1 DEF EditsInv, Typed
<1>6. run'.step = "write" /\ run'.kind = "seed" /\ run'.todo = w BY <1>1 DEF NoRun
<1>7. ~There("live") => own = {} BY DEF EditsInv, EditsKept, There, Of
<1>8. Carried'
  <2>1. CopiedFirst(run') BY <1>4, <1>6 DEF CopiedFirst
  <2>2. KeepsHis(run', own') BY <1>1, <1>4, <1>6, <1>7 DEF KeepsHis
  <2>3. Copied' BY <1>6 DEF Copied
  <2>. QED BY <2>1, <2>2, <2>3 DEF Carried
<1>9. NothingOfHis' /\ EditsKept'
  BY <1>1, <1>4, <1>6 DEF EditsInv, NothingOfHis, EditsKept, Of
<1>. QED BY <1>5, <1>6, <1>8, <1>9 DEF EditsInv, RunInv

LEMMA FirstAndRest ==
    ASSUME NEW w \in Seq(Pair), w # <<>>
    PROVE  /\ 1 \in DOMAIN w /\ Head(w) = w[1] /\ Tail(w) \in Seq(Pair)
           /\ w[1] = <<w[1][1], w[1][2]>> /\ w[1][1] \in Files /\ w[1][2] \in Optional
           /\ \A i \in DOMAIN Tail(w) : i + 1 \in DOMAIN w /\ i + 1 # 1 /\ Tail(w)[i] = w[i + 1]
<1>1. 1 \in DOMAIN w /\ Head(w) = w[1] OBVIOUS
<1>2. w[1] \in Pair BY <1>1
<1>3. /\ Tail(w) \in Seq(Pair) /\ Len(Tail(w)) = Len(w) - 1
      /\ \A i \in 1..Len(Tail(w)) : Tail(w)[i] = w[i + 1]
  BY HeadTailProperties
<1>4. \A i \in DOMAIN Tail(w) : i + 1 \in DOMAIN w /\ i + 1 # 1 /\ Tail(w)[i] = w[i + 1]
  BY <1>3
<1>. QED BY <1>1, <1>2, <1>3, <1>4 DEF Pair

(* The first write of the list.                                               *)
LEMMA Writing ==
    ASSUME EditsInv, Write PROVE EditsInv'
<1>. DEFINE w == run.todo
            f == w[1][1]
            c == w[1][2]
            forced == run.kind = "overwrite" /\ f = "live"
<1>1. w \in Seq(Pair) /\ w # <<>> BY DEF EditsInv, Typed, Write
<1>2. /\ 1 \in DOMAIN w /\ Head(w) = w[1] /\ Tail(w) \in Seq(Pair)
      /\ f \in Files /\ c \in Optional
      /\ \A i \in DOMAIN Tail(w) : i + 1 \in DOMAIN w /\ i + 1 # 1 /\ Tail(w)[i] = w[i + 1]
  BY <1>1, FirstAndRest
<1>3. /\ file' = [file EXCEPT ![f] = c] /\ run' = [run EXCEPT !.todo = Tail(w)]
      /\ shelved' = (IF forced THEN own ELSE IF f = "backup" THEN {} ELSE shelved)
      /\ own' = (IF forced THEN {} ELSE own)
      /\ run.step = "write" /\ UNCHANGED package
  BY <1>2 DEF Write
<1>4. /\ run'.step = "write" /\ run'.kind = run.kind /\ run'.local = run.local
      /\ run'.todo = Tail(w)
  BY <1>3 DEF EditsInv, Typed
<1>5. CopiedFirst(run) /\ KeepsHis(run, own) /\ Copied BY <1>3 DEF EditsInv, RunInv, Carried
<1>6. Typed' BY <1>2, <1>3 DEF EditsInv, Typed
<1>7. \A g \in Files : file'[g] = IF g = f THEN c ELSE file[g] BY <1>3 DEF EditsInv, Typed
<1>8. {"live", "backup"} \cup Bases \subseteq Files /\ {"live", "backup"} \cap Bases = {}
  BY NamesOfFiles DEF Bases
<1>. HIDE DEF w, f, c
<1>9. NothingOfHis'
  <2>1. LeavesOutHis(w) BY DEF EditsInv, NothingOfHis, w
  <2>2. f \in Bases => (UNION c) \cap Mine = {} BY <1>2, <2>1 DEF LeavesOutHis, f, c
  <2>3. \A g \in Bases : Of(g)' \cap Mine = {}
    BY <1>7, <1>8, <2>2 DEF EditsInv, NothingOfHis, Of
  <2>4. LeavesOutHis(Tail(w)) BY <1>2, <2>1 DEF LeavesOutHis
  <2>. QED BY <1>4, <2>3, <2>4 DEF NothingOfHis
<1>10. CopiedFirst(run')
  <2>1. \A i \in DOMAIN Tail(w) : ~LiveAt(Tail(w), i) \/ i = 1
    BY <1>2, <1>5 DEF CopiedFirst, LiveAt, w
  <2>. QED BY <1>4, <2>1 DEF CopiedFirst
<1>11. KeepsHis(run', own')
  BY <1>2, <1>3, <1>4, <1>5 DEF KeepsHis, LiveAt, w
<1>12. Copied'
  <2>1. own' \subseteq own BY <1>3
  <2>2. ASSUME run.kind = "overwrite", LiveAt(Tail(w), 1) PROVE own' \subseteq Of("backup")'
    <3>1. 2 \in DOMAIN w /\ LiveAt(w, 2) BY <1>2, <2>2 DEF LiveAt
    <3>2. w[1] = <<"backup", run.local>> BY <1>5, <3>1 DEF CopiedFirst, w
    <3>3. f = "backup" /\ c = run.local BY <3>2 DEF f, c
    <3>4. Of("backup")' = UNION run.local BY <1>7, <1>8, <3>3 DEF Of
    <3>. QED BY <1>5, <2>1, <2>2, <3>4 DEF Copied
  <2>. QED BY <1>4, <1>5, <2>1, <2>2 DEF Copied
<1>13. EditsKept'
  <2>1. own' \subseteq Of("live")'
    <3>1. CASE f = "live" /\ ~forced
      <4>1. own \subseteq UNION c BY <1>2, <1>5, <3>1 DEF KeepsHis, LiveAt, w, f, c
      <4>. QED BY <1>3, <1>7, <1>8, <3>1, <4>1 DEF Of
    <3>2. CASE forced BY <1>3, <3>2
    <3>3. CASE f # "live" BY <1>3, <1>7, <1>8, <3>3 DEF EditsInv, EditsKept, Of
    <3>. QED BY <3>1, <3>2, <3>3
  <2>2. shelved' \subseteq Of("backup")'
    <3>1. CASE forced
      <4>1. own \subseteq Of("backup") BY <1>2, <1>5, <3>1 DEF Copied, LiveAt, w, f
      <4>. QED BY <1>3, <1>7, <1>8, <3>1, <4>1 DEF Of
    <3>2. CASE ~forced /\ f = "backup" BY <1>3, <3>2
    <3>3. CASE ~forced /\ f # "backup"
      BY <1>3, <1>7, <1>8, <3>3 DEF EditsInv, EditsKept, Of
    <3>. QED BY <3>1, <3>2, <3>3
  <2>. QED BY <2>1, <2>2 DEF EditsKept
<1>. QED BY <1>4, <1>6, <1>9, <1>10, <1>11, <1>12, <1>13 DEF EditsInv, RunInv, Carried

(* The operator's edits come before the writes: a plan speaks of the file it  *)
(* has read.                                                                  *)
LEMMA Editing ==
    ASSUME EditsInv, NEW content \in Optional, Edited(content) PROVE EditsInv'
<1>1. /\ file' = [file EXCEPT !["live"] = content] /\ own' = Mine \cap UNION content
      /\ run.step # "write" /\ UNCHANGED <<package, run, shelved>>
  BY DEF Edited
<1>2. \A g \in Files : file'[g] = IF g = "live" THEN content ELSE file[g]
  BY <1>1 DEF EditsInv, Typed
<1>3. {"live", "backup"} \cup Bases \subseteq Files /\ "live" \notin Bases
  BY NamesOfFiles DEF Bases
<1>4. Typed' BY <1>1, <1>3 DEF EditsInv, Typed
<1>5. NothingOfHis' /\ EditsKept'
  BY <1>1, <1>2, <1>3 DEF EditsInv, NothingOfHis, EditsKept, Of
<1>6. RunInv' BY <1>1 DEF EditsInv, RunInv
<1>. QED BY <1>4, <1>5, <1>6 DEF EditsInv

LEMMA EditingInAnyWay ==
    ASSUME EditsInv,
           \/ \E l \in Mine : AddLine(l)
           \/ \E l \in Lines : RemoveLine(l)
           \/ RemoveFile
           \/ \E s \in {"new", "merge"} : MergeByHand(s)
    PROVE  EditsInv'
<1>1. Of("live") \in SUBSET Lines BY NamesOfFiles, ContentsAreLines DEF EditsInv
<1>2. Mine \subseteq Lines BY DEF Lines
<1>3. CASE \E l \in Mine : AddLine(l)
  <2>1. PICK l \in Mine : AddLine(l) BY <1>3
  <2>2. {Of("live") \cup {l}} \in Optional BY <1>1, <1>2, NamesOfFiles
  <2>. QED BY <2>1, <2>2, Editing DEF AddLine
<1>4. CASE \E l \in Lines : RemoveLine(l)
  <2>1. PICK l \in Lines : RemoveLine(l) BY <1>4
  <2>2. {Of("live") \ {l}} \in Optional BY <1>1, NamesOfFiles
  <2>. QED BY <2>1, <2>2, Editing DEF RemoveLine
<1>5. CASE RemoveFile BY <1>5, NamesOfFiles, Editing DEF RemoveFile
<1>6. CASE \E s \in {"new", "merge"} : MergeByHand(s)
  <2>1. PICK s \in {"new", "merge"} : MergeByHand(s) BY <1>6
  <2>2. PICK taken \in SUBSET Of(s) : Edited({own \cup taken}) BY <2>1 DEF MergeByHand
  <2>3. s \in Files BY DEF Files, Sidecars
  <2>4. own \subseteq Mine BY DEF EditsInv, Typed
  <2>5. {own \cup taken} \in Optional
    BY <1>2, <2>3, <2>4, NamesOfFiles, ContentsAreLines DEF EditsInv
  <2>. QED BY <2>2, <2>5, Editing
<1>. QED BY <1>3, <1>4, <1>5, <1>6

LEMMA SidecarsRemoved ==
    ASSUME EditsInv, NEW s \in {"new", "merge"}, RemoveSidecar(s) PROVE EditsInv'
<1>1. /\ file' = [file EXCEPT ![s] = {}] /\ UNCHANGED <<package, run, own, shelved>>
      /\ run.step # "write"
  BY DEF RemoveSidecar
<1>2. {"live", "backup"} \cup Bases \subseteq Files \ {s} /\ {} \in Optional
  BY NamesOfFiles DEF Bases, Files, Sidecars
<1>3. \A g \in Files \ {s} : file'[g] = file[g] BY <1>1 DEF EditsInv, Typed
<1>. QED BY <1>1, <1>2, <1>3 DEF EditsInv, Typed, NothingOfHis, RunInv, EditsKept, Of

LEMMA RunSteps ==
    ASSUME BundlesConstants, EditsInv, BundledNext PROVE EditsInv'
<1>1. CASE PlanUpgrade BY <1>1, Planning
<1>2. CASE Apply
  <2>1. CASE Unchanged BY <1>2, <2>1, Applying
  <2>2. CASE ~Unchanged BY <1>2, <2>2, Ending DEF Apply
  <2>. QED BY <2>1, <2>2
<1>3. CASE Abort \/ Finish \/ Interrupt BY <1>3, Ending DEF Abort, Finish, Interrupt
<1>4. CASE Seed BY <1>4, Seeding
<1>5. CASE Write BY <1>5, Writing
<1>6. CASE \/ \E l \in Mine : AddLine(l)
           \/ \E l \in Lines : RemoveLine(l)
           \/ RemoveFile
           \/ \E s \in {"new", "merge"} : MergeByHand(s)
  BY <1>6, EditingInAnyWay
<1>7. CASE \E s \in {"new", "merge"} : RemoveSidecar(s) BY <1>7, SidecarsRemoved
<1>8. CASE NewPackage
  BY <1>8 DEF NewPackage, EditsInv, Typed, NothingOfHis, RunInv, EditsKept, Carried, Copied, Of
<1>. QED BY <1>1, <1>2, <1>3, <1>4, <1>5, <1>6, <1>7, <1>8 DEF BundledNext

LEMMA Beginning == ASSUME BundlesConstants, BundledInit PROVE EditsInv
<1>1. /\ own \in {{}, Mine \ {Keep}} /\ run = NoRun /\ shelved = {} /\ package = 1
      /\ file = [g \in Files |-> IF g = "live" /\ own # {} THEN {own} ELSE {}]
  BY DEF BundledInit
<1>2. own \subseteq Mine /\ Mine \subseteq Lines /\ {own} \in Optional /\ {} \in Optional
  <2>1. own \subseteq Mine BY <1>1
  <2>2. Mine \subseteq Lines BY DEF Lines
  <2>. QED BY <2>1, <2>2, NamesOfFiles
<1>3. NoRun \in [step : {"idle", "planned", "write"}, kind : Kinds, source : SUBSET Lines,
                local : Optional, base : Optional, on : SUBSET Bases, todo : Seq(Pair)]
  BY <1>2 DEF NoRun, Kinds
<1>4. Typed BY <1>1, <1>2, <1>3 DEF Typed, BundlesConstants
<1>5. {"live", "backup"} \cup Bases \subseteq Files /\ "live" \notin Bases
  BY NamesOfFiles DEF Bases
<1>6. run.step = "idle" /\ run.todo = <<>> BY <1>1 DEF NoRun
<1>7. NothingOfHis BY <1>1, <1>5, <1>6 DEF NothingOfHis, LeavesOutHis, Of
<1>8. EditsKept BY <1>1, <1>5 DEF EditsKept, Of
<1>. QED BY <1>4, <1>6, <1>7, <1>8 DEF EditsInv, RunInv

(* No run takes from the operator what he wrote: it stays in the live file,   *)
(* or, after --force, in its copy until the next replacement                  *)
(* (plan_reconcile, apply_reconcile, seed_managed_file).                      *)
THEOREM EditsSurvive == ASSUME BundlesConstants PROVE BundledSpec => []EditsKept
<1>1. BundledInit => EditsInv BY Beginning
<1>2. EditsInv /\ [BundledNext]_bundledVars => EditsInv'
  <2>. SUFFICES ASSUME EditsInv, [BundledNext]_bundledVars PROVE EditsInv' OBVIOUS
  <2>1. CASE BundledNext BY <2>1, RunSteps
  <2>2. CASE UNCHANGED bundledVars
    BY <2>2 DEF bundledVars, EditsInv, Typed, NothingOfHis, RunInv, EditsKept, Carried, Copied, Of
  <2>. QED BY <2>1, <2>2
<1>3. EditsInv => EditsKept BY DEF EditsInv
<1>. QED BY <1>1, <1>2, <1>3, PTL DEF BundledSpec

(* The rest of the types: the operator's histories and the bounds.            *)
Histories ==
    /\ shelved \subseteq Mine /\ declined \subseteq Lines /\ seen \in Optional
    /\ edits \in 0..Edits /\ interruptions \in 0..Interruptions

(* A run only moves his lines; he declines only what some package or he wrote. *)
LEMMA HistoriesKept ==
    ASSUME BundlesConstants, EditsInv, Histories, BundledNext PROVE Histories'
<1>. USE DEF Histories
<1>0. Typed /\ own \subseteq Mine /\ Mine \subseteq Lines /\ Edits \in Nat /\ Interruptions \in Nat
  BY DEF EditsInv, Typed, Lines, BundlesConstants
<1>1. CASE PlanUpgrade \/ Apply \/ Abort \/ Seed \/ Finish \/ NewPackage
  BY <1>1 DEF PlanUpgrade, Apply, Abort, Seed, Finish, NewPackage, Lines, Optional
<1>2. CASE Write BY <1>0, <1>2 DEF Write, Lines, Optional
<1>3. CASE Interrupt BY <1>0, <1>3 DEF Interrupt, Lines, Optional
<1>4. ASSUME NEW c, Edited(c)
      PROVE  shelved' = shelved /\ interruptions' = interruptions /\ edits' \in 0..Edits
  BY <1>0, <1>4 DEF Edited
<1>5. Lines' = Lines /\ Optional' = Optional BY DEF Lines, Optional
<1>6. CASE (\E l \in Mine : AddLine(l)) \/ RemoveFile
  <2>1. UNCHANGED <<declined, seen>> /\ \E c : Edited(c) BY <1>6 DEF AddLine, RemoveFile
  <2>. QED BY <1>4, <1>5, <2>1
<1>7. CASE \E l \in Lines : RemoveLine(l)
  <2>1. PICK l \in Lines : RemoveLine(l) BY <1>7
  <2>2. Edited({Of("live") \ {l}}) /\ declined' = declined \cup {l} /\ seen' = seen
    BY <2>1 DEF RemoveLine
  <2>. QED BY <1>4, <1>5, <2>2
<1>8. CASE \E s \in {"new", "merge"} : MergeByHand(s) \/ RemoveSidecar(s)
  <2>1. PICK s \in {"new", "merge"} : MergeByHand(s) \/ RemoveSidecar(s) BY <1>8
  <2>2. s \in Files /\ "live" \in Files /\ {} \in Optional
    BY NamesOfFiles DEF Files, Sidecars
  <2>3. file[s] \in Optional BY <1>0, <2>2 DEF Typed
  <2>4. Of(s) \subseteq Lines /\ Of("live") \subseteq Lines BY <1>0, <2>2, ContentsAreLines
  <2>5. CASE MergeByHand(s)
    <3>1. PICK taken \in SUBSET Of(s) :
              /\ Edited({own \cup taken})
              /\ declined' = declined \cup ((Of(s) \cup Of("live")) \ (taken \cup Mine))
      BY <2>5 DEF MergeByHand
    <3>2. seen' = file[s] BY <2>5 DEF MergeByHand
    <3>. QED BY <1>4, <1>5, <2>3, <2>4, <3>1, <3>2
  <2>6. CASE RemoveSidecar(s) BY <1>5, <2>2, <2>6 DEF RemoveSidecar
  <2>. QED BY <2>1, <2>5, <2>6
<1>. QED BY <1>1, <1>2, <1>3, <1>6, <1>7, <1>8 DEF BundledNext

(* What the files, a plan and the histories hold stays of their types, through *)
(* aborted and interrupted runs (apply_reconcile, seed_managed_file).         *)
THEOREM BundledTypes == ASSUME BundlesConstants PROVE BundledSpec => []BundledTypeOK
<1>1. BundledInit => EditsInv /\ Histories
  BY Beginning DEF BundledInit, BundlesConstants, Histories, Optional
<1>2. EditsInv /\ Histories /\ [BundledNext]_bundledVars => (EditsInv /\ Histories)'
  <2>. SUFFICES ASSUME EditsInv, Histories, [BundledNext]_bundledVars
                PROVE  (EditsInv /\ Histories)'
    OBVIOUS
  <2>1. CASE BundledNext BY <2>1, RunSteps, HistoriesKept
  <2>2. CASE UNCHANGED bundledVars
    <3>1. EditsInv'
      BY <2>2 DEF bundledVars, EditsInv, Typed, NothingOfHis, RunInv, EditsKept, Carried, Copied, Of
    <3>2. Histories' BY <2>2 DEF bundledVars, Histories, Lines, Optional
    <3>. QED BY <3>1, <3>2
  <2>. QED BY <2>1, <2>2
<1>3. ASSUME EditsInv, Histories PROVE BundledTypeOK
  <2>1. Typed BY <1>3 DEF EditsInv
  <2>2. \A i \in DOMAIN run.todo : run.todo[i] \in Files \X Optional BY <2>1 DEF Typed, Pair
  <2>. QED BY <1>3, <2>1, <2>2 DEF Typed, Histories, BundledTypeOK, Bases
<1>. QED BY <1>1, <1>2, <1>3, PTL DEF BundledSpec

-----------------------------------------------------------------------------
(* No change of a bundle is skipped. What is kept of bundles, as a base or as *)
(* a sidecar, is that of a package so far, and a line of such a one that the  *)
(* newest still has was never dropped in between. So a run that brings the    *)
(* live file to its bundle accounts for every base there is (Covers), and a   *)
(* sidecar that he removes was newer than what waits as pending (Offered).    *)
(* The writes may stop anywhere, so each is safe after those before it (Left). *)

Packaged == {Bundles[i] : i \in DOMAIN Bundles \cap 1..package}
Held == {"baseline", "pending", "new", "merge"}

(* Of what a bundle brought, what the newest still has is in l, or declined.  *)
Fits(c, l) == c \cap Bundle \subseteq l \cup declined

IsHeld(x) == x = {} \/ \E c \in Packaged : x = {c}

FromPackages == package \in Nat \ {0} /\ IsHeld(seen) /\ \A f \in Held : IsHeld(file[f])

(* Nothing offered is left, so what was pending has been dealt with.          *)
Unoffered == ~There("new") /\ ~There("merge")

Accounted ==
    There("live") => /\ Fits(Of("baseline"), Of("live")) /\ Fits(UNION seen, Of("live"))
                     /\ Unoffered => Fits(Of("pending"), Of("live"))

(* The one sidecar there is offers what is pending.                           *)
Offered ==
    /\ ~(There("new") /\ There("merge"))
    /\ \A s \in {"new", "merge"} : There(s) => Of("pending") \cap Bundle \subseteq Of(s)

SkipInv == FromPackages /\ Accounted /\ Offered

(* A content that may go over the live file.                                  *)
Covers(l) == Fits(Of("baseline"), l) /\ Fits(Of("pending"), l) /\ Fits(UNION seen, l)

-----------------------------------------------------------------------------
(* What each write does.                                                      *)

LEMMA HeldNames ==
    /\ Held \subseteq Files /\ {"live", "backup", "error"} \subseteq Files \ Held
    /\ "baseline" \in Held /\ "pending" \in Held /\ "new" \in Held /\ "merge" \in Held
  BY DEF Files, Sidecars, Held

LEMMA LiveWritten ==
    ASSUME Typed, SkipInv, UNCHANGED <<package, declined, seen>>,
           NEW l, Covers(l), file' = [file EXCEPT !["live"] = {l}]
    PROVE  SkipInv'
<1>1. /\ \A g \in Held : file'[g] = file[g] /\ Of(g)' = Of(g) /\ (There(g)' <=> There(g))
      /\ Of("live")' = l
  BY HeldNames DEF Typed, Of, There
<1>2. FromPackages' BY <1>1 DEF SkipInv, FromPackages, IsHeld, Packaged
<1>3. Accounted' BY <1>1, HeldNames DEF Accounted, Covers, Fits, Bundle
<1>4. Offered' BY <1>1, HeldNames DEF SkipInv, Offered, Bundle
<1>. QED BY <1>2, <1>3, <1>4 DEF SkipInv

LEMMA ElsewhereWritten ==
    ASSUME Typed, SkipInv, UNCHANGED <<package, declined, seen>>,
           NEW f \in {"backup", "error"}, NEW x, file' = [file EXCEPT ![f] = x]
    PROVE  SkipInv'
<1>1. \A g \in Held \cup {"live"} :
        file'[g] = file[g] /\ Of(g)' = Of(g) /\ (There(g)' <=> There(g))
  BY HeldNames DEF Typed, Of, There
<1>2. FromPackages' BY <1>1 DEF SkipInv, FromPackages, IsHeld, Packaged
<1>3. Accounted' BY <1>1, HeldNames DEF SkipInv, Accounted, Fits, Bundle, Unoffered
<1>4. Offered' BY <1>1, HeldNames DEF SkipInv, Offered, Bundle
<1>. QED BY <1>2, <1>3, <1>4 DEF SkipInv

LEMMA BaselineWritten ==
    ASSUME Typed, SkipInv, UNCHANGED <<package, declined, seen>>,
           NEW c \in Packaged, There("live") => Fits(c, Of("live")),
           file' = [file EXCEPT !["baseline"] = {c}]
    PROVE  SkipInv'
<1>1. /\ \A g \in (Held \cup {"live"}) \ {"baseline"} :
            file'[g] = file[g] /\ Of(g)' = Of(g) /\ (There(g)' <=> There(g))
      /\ file'["baseline"] = {c} /\ Of("baseline")' = c
  BY HeldNames DEF Typed, Of, There
<1>2. FromPackages'
  BY <1>1 DEF SkipInv, FromPackages, IsHeld, Packaged
<1>3. Accounted' BY <1>1, HeldNames DEF SkipInv, Accounted, Fits, Bundle, Unoffered, Held
<1>4. Offered' BY <1>1, HeldNames DEF SkipInv, Offered, Bundle, Held
<1>. QED BY <1>2, <1>3, <1>4 DEF SkipInv

LEMMA PendingDropped ==
    ASSUME Typed, SkipInv, UNCHANGED <<package, declined, seen>>,
           file' = [file EXCEPT !["pending"] = {}]
    PROVE  SkipInv' /\ file'["pending"] = {}
<1>1. /\ \A g \in (Held \cup {"live"}) \ {"pending"} :
            file'[g] = file[g] /\ Of(g)' = Of(g) /\ (There(g)' <=> There(g))
      /\ file'["pending"] = {} /\ Of("pending")' = {}
  BY HeldNames DEF Typed, Of, There
<1>2. FromPackages' BY <1>1 DEF SkipInv, FromPackages, IsHeld, Packaged
<1>3. Accounted' BY <1>1, HeldNames DEF SkipInv, Accounted, Fits, Bundle, Unoffered, Held
<1>4. Offered' BY <1>1, HeldNames DEF SkipInv, Offered, Bundle, Held
<1>. QED BY <1>1, <1>2, <1>3, <1>4 DEF SkipInv

Other(s) == IF s = "new" THEN "merge" ELSE "new"

LEMMA SidecarDropped ==
    ASSUME Typed, SkipInv, UNCHANGED <<package, declined, seen>>, NEW s \in {"new", "merge"},
           \/ file["pending"] = {} \/ There(Other(s))
           \/ There("live") => Fits(Of("pending"), Of("live")),
           file' = [file EXCEPT ![s] = {}]
    PROVE  SkipInv'
<1>0. s \in Held /\ Other(s) \in Held \ {s} /\ {s, Other(s)} = {"new", "merge"}
  BY DEF Held, Other
<1>1. /\ \A g \in (Held \cup {"live"}) \ {s} :
            file'[g] = file[g] /\ Of(g)' = Of(g) /\ (There(g)' <=> There(g))
      /\ file'[s] = {} /\ ~There(s)'
  BY <1>0, HeldNames DEF Typed, Of, There
<1>2. FromPackages' BY <1>1 DEF SkipInv, FromPackages, IsHeld, Packaged
<1>3. Of("baseline")' = Of("baseline") /\ Of("pending")' = Of("pending")
      /\ Of("live")' = Of("live") /\ (There("live")' <=> There("live"))
      /\ Of(Other(s))' = Of(Other(s)) /\ (There(Other(s))' <=> There(Other(s)))
  BY <1>0, <1>1, HeldNames DEF Held
<1>4. Unoffered' => ~There(Other(s)) BY <1>0, <1>3 DEF Unoffered, Other
<1>5. file["pending"] = {} => Of("pending") = {} BY DEF Of
<1>6. Accounted' BY <1>3, <1>4, <1>5 DEF SkipInv, Accounted, Fits, Bundle
<1>7. Offered' BY <1>0, <1>1, <1>3 DEF SkipInv, Offered, Bundle, Other
<1>. QED BY <1>2, <1>6, <1>7 DEF SkipInv

LEMMA SidecarWritten ==
    ASSUME Typed, SkipInv, UNCHANGED <<package, declined, seen>>, NEW s \in {"new", "merge"},
           NEW c \in Packaged, Of("pending") \cap Bundle \subseteq c, ~There(Other(s)),
           file' = [file EXCEPT ![s] = {c}]
    PROVE  SkipInv' /\ file'[s] = {c} /\ ~There(Other(s))'
<1>0. s \in Held /\ Other(s) \in Held \ {s} /\ {s, Other(s)} = {"new", "merge"}
  BY DEF Held, Other
<1>1. /\ \A g \in (Held \cup {"live"}) \ {s} :
            file'[g] = file[g] /\ Of(g)' = Of(g) /\ (There(g)' <=> There(g))
      /\ file'[s] = {c} /\ There(s)' /\ Of(s)' = c
  BY <1>0, HeldNames DEF Typed, Of, There
<1>2. FromPackages' BY <1>1 DEF SkipInv, FromPackages, IsHeld, Packaged
<1>3. Of("baseline")' = Of("baseline") /\ Of("pending")' = Of("pending")
      /\ Of("live")' = Of("live") /\ (There("live")' <=> There("live"))
      /\ ~There(Other(s))'
  BY <1>0, <1>1, HeldNames DEF Held
<1>4. ~Unoffered' BY <1>1 DEF Unoffered
<1>5. Accounted' BY <1>3, <1>4 DEF SkipInv, Accounted, Fits, Bundle
<1>6. Offered' BY <1>0, <1>1, <1>3 DEF Offered, Bundle, Other
<1>. QED BY <1>1, <1>2, <1>3, <1>5, <1>6 DEF SkipInv

LEMMA PendingWritten ==
    ASSUME Typed, SkipInv, UNCHANGED <<package, declined, seen>>, NEW s \in {"new", "merge"},
           NEW c \in Packaged, file[s] = {c}, ~There(Other(s)),
           file' = [file EXCEPT !["pending"] = {c}]
    PROVE  SkipInv' /\ There(s)' /\ ~There(Other(s))'
<1>0. s \in Held \ {"pending"} /\ Other(s) \in Held \ {s, "pending"}
      /\ {s, Other(s)} = {"new", "merge"}
  BY DEF Held, Other
<1>1. /\ \A g \in (Held \cup {"live"}) \ {"pending"} :
            file'[g] = file[g] /\ Of(g)' = Of(g) /\ (There(g)' <=> There(g))
      /\ file'["pending"] = {c} /\ Of("pending")' = c
  BY <1>0, HeldNames DEF Typed, Of, There
<1>2. FromPackages' BY <1>1 DEF SkipInv, FromPackages, IsHeld, Packaged
<1>3. Of("baseline")' = Of("baseline") /\ Of("live")' = Of("live")
      /\ (There("live")' <=> There("live")) /\ Of(s)' = c /\ There(s)' /\ ~There(Other(s))'
  BY <1>0, <1>1, HeldNames DEF Held, Of, There
<1>4. ~Unoffered' BY <1>3 DEF Unoffered
<1>5. Accounted' BY <1>3, <1>4 DEF SkipInv, Accounted, Fits, Bundle
<1>6. Offered' BY <1>0, <1>1, <1>3 DEF Offered, Bundle, Other
<1>. QED BY <1>2, <1>3, <1>5, <1>6 DEF SkipInv

-----------------------------------------------------------------------------
(* What is left of the writes of a run, and what is true before each.         *)

Put(f, c) == <<f, {c}>>
Reconciled(c) == There("live") => Fits(c, Of("live"))

TidyLeft(w) ==
    \/ w = <<>> \/ w = <<Unlink("error")>> \/ w = Tidy
    \/ w = <<Unlink("merge"), Unlink("error")>> /\ (file["pending"] = {} \/ There("new"))
    \/ w = <<Unlink("new"), Unlink("merge"), Unlink("error")>> /\ file["pending"] = {}
    \/ w = <<Unlink("new"), Unlink("error")>> /\ There("merge")

RecordLeft(w) == \E c \in Packaged :
    /\ Reconciled(c)
    /\ \/ w = <<Put("baseline", c)>>
       \/ w = <<Put("baseline", c), Unlink("pending"), Unlink("new"), Unlink("merge"),
                Unlink("error")>>

ReplaceLeft(w) == \E l \in SUBSET Lines, c \in Packaged, x \in Optional :
    /\ Covers(l) /\ Fits(c, l)
    /\ \/ w = <<Put("live", l), Put("baseline", c)>>
       \/ w = <<Put("live", l), Put("baseline", c), Unlink("pending"), Unlink("new"),
                Unlink("merge"), Unlink("error")>>
       \/ w = <<<<"backup", x>>, Put("live", l), Put("baseline", c), Unlink("pending"),
                Unlink("new"), Unlink("merge"), Unlink("error")>>

OfferLeft(w) == \E b \in Packaged :
    /\ Of("pending") \cap Bundle \subseteq b
    /\ \/ /\ w = <<Put("new", b), Put("pending", b), Unlink("merge"), Unlink("error")>>
          /\ ~There("merge")
       \/ /\ w = <<Put("merge", b), Put("pending", b), Unlink("new"), Unlink("error")>>
          /\ ~There("new")
       \/ /\ ~There("new")
          /\ \E c \in Packaged :
               /\ Reconciled(c)
               /\ w = <<Put("merge", b), Put("baseline", c), Put("pending", b), Unlink("new"),
                        Unlink("error")>>

OfferedLeft(w) == \E b \in Packaged :
    \/ /\ w = <<Put("pending", b), Unlink("merge"), Unlink("error")>>
       /\ file["new"] = {b} /\ ~There("merge")
    \/ /\ w = <<Put("pending", b), Unlink("new"), Unlink("error")>>
       /\ file["merge"] = {b} /\ ~There("new")
    \/ /\ file["merge"] = {b} /\ ~There("new")
       /\ \E c \in Packaged :
            /\ Reconciled(c)
            /\ w = <<Put("baseline", c), Put("pending", b), Unlink("new"), Unlink("error")>>

ErrorLeft(w) == \E c \in Packaged, x \in Optional :
    \/ w = <<<<"error", x>>>>
    \/ w = <<Unlink("pending"), <<"error", x>>>>
    \/ w = <<Put("baseline", c), Unlink("pending"), <<"error", x>>>> /\ Reconciled(c)

Left(w) ==
    TidyLeft(w) \/ RecordLeft(w) \/ ReplaceLeft(w) \/ OfferLeft(w) \/ OfferedLeft(w) \/ ErrorLeft(w)

(* What a plan is, while the operator may still edit: the result of a merge   *)
(* has what the base has not, and of what the base has, all that is live.     *)
Acknowledges(r) == r.on = {"pending"} /\ Unoffered

Brings(r, l) ==
    \/ l = r.source
    \/ /\ r.source \ (UNION r.base) \subseteq l
       /\ r.source \cap (UNION r.base) \cap (UNION r.local) \subseteq l
       /\ r.local # {} /\ (r.on = {"baseline"} \/ Acknowledges(r))

PlanKeeps(r) ==
    \/ r.todo = <<>>
    \/ r.todo = <<<<"error", {r.source}>>>>
    \/ /\ r.todo = <<Put("baseline", r.source)>> \o Tidy /\ r.local = {r.source}
    \/ /\ r.todo = <<Put("live", r.source), Put("baseline", r.source)>> \o Tidy
    \/ \E l \in SUBSET Lines :
         /\ r.todo = <<<<"backup", r.local>>, Put("live", l), Put("baseline", r.source)>> \o Tidy
         /\ Brings(r, l)
    \/ /\ r.todo = <<Put("new", r.source), Put("pending", r.source)>>
                       \o <<Unlink("merge"), Unlink("error")>>
       /\ ~There("merge")
    \/ /\ r.todo = <<Put("merge", r.source), Put("pending", r.source)>>
                       \o <<Unlink("new"), Unlink("error")>>
       /\ ~There("new")
    \/ /\ Acknowledges(r)
       /\ \E c \in SUBSET Lines :
            /\ r.base = {c}
            /\ \/ r.todo = <<Put("baseline", c)>> \o Tidy
               \/ r.todo = <<Put("merge", r.source), Put("baseline", c), Put("pending", r.source)>>
                              \o <<Unlink("new"), Unlink("error")>>
               \/ r.todo = <<Put("baseline", c), Unlink("pending"), <<"error", {r.source}>>>>

PlansInv ==
    /\ run.step = "planned" => PlanKeeps(run)
    /\ run.step = "write" => Left(run.todo)


(* What the first of the writes left does.                                    *)
LEMMA FirstWritten ==
    ASSUME Typed, Write, NEW f, NEW x, NEW rest,
           Head(run.todo) = <<f, x>>, Tail(run.todo) = rest
    PROVE  /\ UNCHANGED <<package, declined, seen>> /\ file' = [file EXCEPT ![f] = x]
           /\ run'.todo = rest
<1>1. Head(run.todo)[1] = f /\ Head(run.todo)[2] = x OBVIOUS
<1>2. run' = [run EXCEPT !.todo = rest] BY DEF Write
<1>. QED BY <1>1, <1>2 DEF Typed, Write

LEMMA TidyWritten ==
    ASSUME Typed, SkipInv, Write, TidyLeft(run.todo) PROVE SkipInv' /\ TidyLeft(run.todo)'
<1>. USE DEF Unlink
<1>1. CASE run.todo = <<Unlink("error")>>
  <2>1. Head(run.todo) = <<"error", {}>> /\ Tail(run.todo) = <<>> BY <1>1
  <2>2. SkipInv' /\ run'.todo = <<>> BY <2>1, FirstWritten, ElsewhereWritten
  <2>. QED BY <2>2 DEF TidyLeft
<1>2. CASE run.todo = Tidy
  <2>1. /\ Head(run.todo) = <<"pending", {}>>
        /\ Tail(run.todo) = <<Unlink("new"), Unlink("merge"), Unlink("error")>>
    BY <1>2 DEF Tidy
  <2>2. /\ SkipInv' /\ file'["pending"] = {}
        /\ run'.todo = <<Unlink("new"), Unlink("merge"), Unlink("error")>>
    <3>1. /\ UNCHANGED <<package, declined, seen>> /\ file' = [file EXCEPT !["pending"] = {}]
          /\ run'.todo = <<Unlink("new"), Unlink("merge"), Unlink("error")>>
      BY <2>1, FirstWritten
    <3>. QED BY <3>1, PendingDropped
  <2>. QED BY <2>2 DEF TidyLeft
<1>3. CASE /\ run.todo = <<Unlink("merge"), Unlink("error")>>
           /\ file["pending"] = {} \/ There("new")
  <2>1. Head(run.todo) = <<"merge", {}>> /\ Tail(run.todo) = <<Unlink("error")>> BY <1>3
  <2>2. SkipInv' /\ run'.todo = <<Unlink("error")>>
    BY <2>1, <1>3, FirstWritten, SidecarDropped DEF Other
  <2>. QED BY <2>2 DEF TidyLeft
<1>4. CASE /\ run.todo = <<Unlink("new"), Unlink("merge"), Unlink("error")>>
           /\ file["pending"] = {}
  <2>1. /\ Head(run.todo) = <<"new", {}>>
        /\ Tail(run.todo) = <<Unlink("merge"), Unlink("error")>>
    BY <1>4
  <2>2. /\ SkipInv' /\ run'.todo = <<Unlink("merge"), Unlink("error")>>
        /\ file' = [file EXCEPT !["new"] = {}]
    BY <2>1, <1>4, FirstWritten, SidecarDropped DEF Other
  <2>3. file'["pending"] = {} BY <2>2, <1>4 DEF Typed
  <2>. QED BY <2>2, <2>3 DEF TidyLeft
<1>5. CASE run.todo = <<Unlink("new"), Unlink("error")>> /\ There("merge")
  <2>1. Head(run.todo) = <<"new", {}>> /\ Tail(run.todo) = <<Unlink("error")>> BY <1>5
  <2>2. SkipInv' /\ run'.todo = <<Unlink("error")>>
    BY <2>1, <1>5, FirstWritten, SidecarDropped DEF Other
  <2>. QED BY <2>2 DEF TidyLeft
<1>. QED BY <1>1, <1>2, <1>3, <1>4, <1>5 DEF TidyLeft, Write

LEMMA RecordWritten ==
    ASSUME Typed, SkipInv, Write, RecordLeft(run.todo) PROVE SkipInv' /\ TidyLeft(run.todo)'
<1>. USE DEF Unlink, Put
<1>1. PICK c \in Packaged :
         /\ Reconciled(c)
         /\ \/ run.todo = <<Put("baseline", c)>>
            \/ run.todo = <<Put("baseline", c), Unlink("pending"), Unlink("new"),
                            Unlink("merge"), Unlink("error")>>
  BY DEF RecordLeft
<1>2. Head(run.todo) = <<"baseline", {c}>> /\ Tail(run.todo) \in {<<>>, Tidy}
  <2>1. CASE run.todo = <<Put("baseline", c)>> BY <2>1
  <2>2. CASE run.todo = <<Put("baseline", c), Unlink("pending"), Unlink("new"),
                          Unlink("merge"), Unlink("error")>>
    BY <2>2 DEF Tidy
  <2>. QED BY <1>1, <2>1, <2>2
<1>3. /\ UNCHANGED <<package, declined, seen>> /\ file' = [file EXCEPT !["baseline"] = {c}]
      /\ run'.todo \in {<<>>, Tidy}
  BY <1>2, FirstWritten
<1>4. SkipInv' BY <1>1, <1>3, BaselineWritten DEF Reconciled
<1>. QED BY <1>3, <1>4 DEF TidyLeft

LEMMA ReplaceWritten ==
    ASSUME Typed, SkipInv, Write, ReplaceLeft(run.todo)
    PROVE  SkipInv' /\ (ReplaceLeft(run.todo) \/ RecordLeft(run.todo))'
<1>. DEFINE tail(c) == <<Put("baseline", c), Unlink("pending"), Unlink("new"),
                         Unlink("merge"), Unlink("error")>>
<1>1. PICK l \in SUBSET Lines, c \in Packaged, x \in Optional :
         /\ Covers(l) /\ Fits(c, l)
         /\ \/ run.todo = <<Put("live", l), Put("baseline", c)>>
            \/ run.todo = <<Put("live", l), Put("baseline", c), Unlink("pending"), Unlink("new"),
                            Unlink("merge"), Unlink("error")>>
            \/ run.todo = <<<<"backup", x>>, Put("live", l), Put("baseline", c),
                            Unlink("pending"), Unlink("new"), Unlink("merge"), Unlink("error")>>
  BY DEF ReplaceLeft
<1>2. CASE \/ run.todo = <<Put("live", l), Put("baseline", c)>>
           \/ run.todo = <<Put("live", l), Put("baseline", c), Unlink("pending"), Unlink("new"),
                           Unlink("merge"), Unlink("error")>>
  <2>1. Head(run.todo) = <<"live", {l}>> /\ Tail(run.todo) \in {<<Put("baseline", c)>>, tail(c)}
    <3>1. CASE run.todo = <<Put("live", l), Put("baseline", c)>> BY <3>1 DEF Put
    <3>2. CASE run.todo = <<Put("live", l), Put("baseline", c), Unlink("pending"), Unlink("new"),
                            Unlink("merge"), Unlink("error")>>
      BY <3>2 DEF Put
    <3>. QED BY <1>2, <3>1, <3>2
  <2>2. /\ UNCHANGED <<package, declined, seen>> /\ file' = [file EXCEPT !["live"] = {l}]
        /\ run'.todo \in {<<Put("baseline", c)>>, tail(c)}
    BY <2>1, FirstWritten
  <2>3. SkipInv' BY <1>1, <2>2, LiveWritten
  <2>4. Reconciled(c)'
    <3>1. Of("live")' = l BY <2>2, HeldNames DEF Typed, Of
    <3>. QED BY <1>1, <2>2, <3>1 DEF Reconciled, Fits, Bundle
  <2>5. c \in Packaged' BY <1>1, <2>2 DEF Packaged
  <2>6. RecordLeft(run.todo)' BY <2>2, <2>4, <2>5 DEF RecordLeft
  <2>. QED BY <2>3, <2>6
<1>3. CASE run.todo = <<<<"backup", x>>, Put("live", l), Put("baseline", c),
                        Unlink("pending"), Unlink("new"), Unlink("merge"), Unlink("error")>>
  <2>. DEFINE rest == <<Put("live", l), Put("baseline", c), Unlink("pending"), Unlink("new"),
                        Unlink("merge"), Unlink("error")>>
  <2>1. Head(run.todo) = <<"backup", x>> /\ Tail(run.todo) = rest
    BY <1>3
  <2>2. /\ UNCHANGED <<package, declined, seen>> /\ file' = [file EXCEPT !["backup"] = x]
        /\ run'.todo = rest
    BY <2>1, FirstWritten
  <2>3. SkipInv' BY <2>2, ElsewhereWritten
  <2>4. Covers(l)' /\ Fits(c, l)'
    <3>1. Of("baseline")' = Of("baseline") /\ Of("pending")' = Of("pending")
      BY <2>2, HeldNames DEF Typed, Of
    <3>. QED BY <1>1, <2>2, <3>1 DEF Covers, Fits, Bundle
  <2>5. c \in Packaged' BY <1>1, <2>2 DEF Packaged
  <2>6. ReplaceLeft(run.todo)' BY <2>2, <2>4, <2>5 DEF ReplaceLeft
  <2>. QED BY <2>3, <2>6
<1>. QED BY <1>1, <1>2, <1>3

LEMMA OfferWritten ==
    ASSUME Typed, SkipInv, Write, OfferLeft(run.todo)
    PROVE  SkipInv' /\ OfferedLeft(run.todo)'
<1>1. PICK b \in Packaged :
         /\ Of("pending") \cap Bundle \subseteq b
         /\ \/ /\ run.todo = <<Put("new", b), Put("pending", b), Unlink("merge"), Unlink("error")>>
               /\ ~There("merge")
            \/ /\ run.todo = <<Put("merge", b), Put("pending", b), Unlink("new"), Unlink("error")>>
               /\ ~There("new")
            \/ /\ ~There("new")
               /\ \E c \in Packaged :
                    /\ Reconciled(c)
                    /\ run.todo = <<Put("merge", b), Put("baseline", c), Put("pending", b),
                                    Unlink("new"), Unlink("error")>>
  BY DEF OfferLeft
<1>2. ASSUME NEW s \in {"new", "merge"}, ~There(Other(s)), Head(run.todo) = <<s, {b}>>,
             NEW rest, Tail(run.todo) = rest
      PROVE  /\ SkipInv' /\ file'[s] = {b} /\ ~There(Other(s))' /\ run'.todo = rest
             /\ UNCHANGED <<package, declined, seen>> /\ Of("live")' = Of("live")
             /\ There("live")' <=> There("live")
  <2>1. /\ UNCHANGED <<package, declined, seen>> /\ file' = [file EXCEPT ![s] = {b}]
        /\ run'.todo = rest
    BY <1>2, FirstWritten
  <2>2. SkipInv' /\ file'[s] = {b} /\ ~There(Other(s))' BY <1>1, <1>2, <2>1, SidecarWritten
  <2>3. file'["live"] = file["live"] BY <2>1, HeldNames DEF Typed
  <2>. QED BY <2>1, <2>2, <2>3 DEF Of, There
<1>3. CASE /\ run.todo = <<Put("new", b), Put("pending", b), Unlink("merge"), Unlink("error")>>
           /\ ~There("merge")
  <2>. DEFINE rest == <<Put("pending", b), Unlink("merge"), Unlink("error")>>
  <2>1. Head(run.todo) = <<"new", {b}>> /\ Tail(run.todo) = rest BY <1>3 DEF Put
  <2>2. /\ SkipInv' /\ file'["new"] = {b} /\ ~There("merge")' /\ run'.todo = rest
        /\ UNCHANGED package
    BY <1>2, <1>3, <2>1 DEF Other
  <2>3. b \in Packaged' BY <2>2 DEF Packaged
  <2>. QED BY <2>2, <2>3 DEF OfferedLeft
<1>4. CASE /\ run.todo = <<Put("merge", b), Put("pending", b), Unlink("new"), Unlink("error")>>
           /\ ~There("new")
  <2>. DEFINE rest == <<Put("pending", b), Unlink("new"), Unlink("error")>>
  <2>1. Head(run.todo) = <<"merge", {b}>> /\ Tail(run.todo) = rest BY <1>4 DEF Put
  <2>2. /\ SkipInv' /\ file'["merge"] = {b} /\ ~There("new")' /\ run'.todo = rest
        /\ UNCHANGED package
    BY <1>2, <1>4, <2>1 DEF Other
  <2>3. b \in Packaged' BY <2>2 DEF Packaged
  <2>. QED BY <2>2, <2>3 DEF OfferedLeft
<1>5. ASSUME ~There("new"), NEW c \in Packaged, Reconciled(c),
             run.todo = <<Put("merge", b), Put("baseline", c), Put("pending", b),
                          Unlink("new"), Unlink("error")>>
      PROVE  SkipInv' /\ OfferedLeft(run.todo)'
  <2>. DEFINE rest == <<Put("baseline", c), Put("pending", b), Unlink("new"), Unlink("error")>>
  <2>1. Head(run.todo) = <<"merge", {b}>> /\ Tail(run.todo) = rest BY <1>5 DEF Put
  <2>2. /\ SkipInv' /\ file'["merge"] = {b} /\ ~There("new")' /\ run'.todo = rest
        /\ UNCHANGED <<package, declined>> /\ Of("live")' = Of("live")
        /\ There("live")' <=> There("live")
    BY <1>2, <1>5, <2>1 DEF Other
  <2>3. b \in Packaged' /\ c \in Packaged' BY <2>2 DEF Packaged
  <2>4. Reconciled(c)' BY <1>5, <2>2 DEF Reconciled, Fits, Bundle
  <2>. QED BY <2>2, <2>3, <2>4 DEF OfferedLeft
<1>. QED BY <1>1, <1>3, <1>4, <1>5

LEMMA OfferedWritten ==
    ASSUME Typed, SkipInv, Write, OfferedLeft(run.todo)
    PROVE  SkipInv' /\ (TidyLeft(run.todo) \/ OfferedLeft(run.todo))'
<1>1. PICK b \in Packaged :
         \/ /\ run.todo = <<Put("pending", b), Unlink("merge"), Unlink("error")>>
            /\ file["new"] = {b} /\ ~There("merge")
         \/ /\ run.todo = <<Put("pending", b), Unlink("new"), Unlink("error")>>
            /\ file["merge"] = {b} /\ ~There("new")
         \/ /\ file["merge"] = {b} /\ ~There("new")
            /\ \E c \in Packaged :
                 /\ Reconciled(c)
                 /\ run.todo = <<Put("baseline", c), Put("pending", b), Unlink("new"),
                                 Unlink("error")>>
  BY DEF OfferedLeft
<1>2. CASE /\ run.todo = <<Put("pending", b), Unlink("merge"), Unlink("error")>>
           /\ file["new"] = {b} /\ ~There("merge")
  <2>. DEFINE rest == <<Unlink("merge"), Unlink("error")>>
  <2>1. Head(run.todo) = <<"pending", {b}>> /\ Tail(run.todo) = rest BY <1>2 DEF Put
  <2>2. /\ UNCHANGED <<package, declined, seen>> /\ file' = [file EXCEPT !["pending"] = {b}]
        /\ run'.todo = rest
    BY <2>1, FirstWritten
  <2>3. SkipInv' /\ There("new")' BY <1>2, <2>2, PendingWritten DEF Other
  <2>. QED BY <2>2, <2>3 DEF TidyLeft
<1>3. CASE /\ run.todo = <<Put("pending", b), Unlink("new"), Unlink("error")>>
           /\ file["merge"] = {b} /\ ~There("new")
  <2>. DEFINE rest == <<Unlink("new"), Unlink("error")>>
  <2>1. Head(run.todo) = <<"pending", {b}>> /\ Tail(run.todo) = rest BY <1>3 DEF Put
  <2>2. /\ UNCHANGED <<package, declined, seen>> /\ file' = [file EXCEPT !["pending"] = {b}]
        /\ run'.todo = rest
    BY <2>1, FirstWritten
  <2>3. SkipInv' /\ There("merge")' BY <1>3, <2>2, PendingWritten DEF Other
  <2>. QED BY <2>2, <2>3 DEF TidyLeft
<1>4. ASSUME file["merge"] = {b}, ~There("new"), NEW c \in Packaged, Reconciled(c),
             run.todo = <<Put("baseline", c), Put("pending", b), Unlink("new"), Unlink("error")>>
      PROVE  SkipInv' /\ OfferedLeft(run.todo)'
  <2>. DEFINE rest == <<Put("pending", b), Unlink("new"), Unlink("error")>>
  <2>1. Head(run.todo) = <<"baseline", {c}>> /\ Tail(run.todo) = rest BY <1>4 DEF Put
  <2>2. /\ UNCHANGED <<package, declined, seen>> /\ file' = [file EXCEPT !["baseline"] = {c}]
        /\ run'.todo = rest
    BY <2>1, FirstWritten
  <2>3. SkipInv' BY <1>4, <2>2, BaselineWritten DEF Reconciled
  <2>4. file'["merge"] = {b} /\ ~There("new")' BY <1>4, <2>2, HeldNames DEF Typed, There
  <2>5. b \in Packaged' BY <2>2 DEF Packaged
  <2>. QED BY <2>2, <2>3, <2>4, <2>5 DEF OfferedLeft
<1>. QED BY <1>1, <1>2, <1>3, <1>4

LEMMA ErrorWritten ==
    ASSUME Typed, SkipInv, Write, ErrorLeft(run.todo)
    PROVE  SkipInv' /\ (TidyLeft(run.todo) \/ ErrorLeft(run.todo))'
<1>1. PICK c \in Packaged, x \in Optional :
         \/ run.todo = <<<<"error", x>>>>
         \/ run.todo = <<Unlink("pending"), <<"error", x>>>>
         \/ run.todo = <<Put("baseline", c), Unlink("pending"), <<"error", x>>>> /\ Reconciled(c)
  BY DEF ErrorLeft
<1>2. CASE run.todo = <<<<"error", x>>>>
  <2>1. Head(run.todo) = <<"error", x>> /\ Tail(run.todo) = <<>> BY <1>2
  <2>2. SkipInv' /\ run'.todo = <<>> BY <2>1, FirstWritten, ElsewhereWritten
  <2>. QED BY <2>2 DEF TidyLeft
<1>3. CASE run.todo = <<Unlink("pending"), <<"error", x>>>>
  <2>. DEFINE rest == <<<<"error", x>>>>
  <2>1. Head(run.todo) = <<"pending", {}>> /\ Tail(run.todo) = rest BY <1>3 DEF Unlink
  <2>2. /\ UNCHANGED <<package, declined, seen>> /\ file' = [file EXCEPT !["pending"] = {}]
        /\ run'.todo = rest
    BY <2>1, FirstWritten
  <2>3. SkipInv' BY <2>2, PendingDropped
  <2>4. c \in Packaged' BY <2>2 DEF Packaged
  <2>. QED BY <2>2, <2>3, <2>4 DEF ErrorLeft
<1>4. CASE /\ run.todo = <<Put("baseline", c), Unlink("pending"), <<"error", x>>>>
           /\ Reconciled(c)
  <2>. DEFINE rest == <<Unlink("pending"), <<"error", x>>>>
  <2>1. Head(run.todo) = <<"baseline", {c}>> /\ Tail(run.todo) = rest BY <1>4 DEF Put
  <2>2. /\ UNCHANGED <<package, declined, seen>> /\ file' = [file EXCEPT !["baseline"] = {c}]
        /\ run'.todo = rest
    BY <2>1, FirstWritten
  <2>3. SkipInv' BY <1>4, <2>2, BaselineWritten DEF Reconciled
  <2>4. c \in Packaged' BY <2>2 DEF Packaged
  <2>. QED BY <2>2, <2>3, <2>4 DEF ErrorLeft
<1>. QED BY <1>1, <1>2, <1>3, <1>4

LEMMA WritingKeepsUp ==
    ASSUME Typed, SkipInv, PlansInv, Write PROVE SkipInv' /\ PlansInv'
<1>1. Left(run.todo) /\ run'.step = "write" BY DEF Write, PlansInv, Typed
<1>2. SkipInv' /\ Left(run.todo)'
  BY <1>1, TidyWritten, RecordWritten, ReplaceWritten, OfferWritten, OfferedWritten,
     ErrorWritten DEF Left
<1>. QED BY <1>1, <1>2 DEF PlansInv

-----------------------------------------------------------------------------
(* Lists put together, where they are written out.                            *)

LEMMA IsConcat ==
    ASSUME NEW S, NEW s \in Seq(S), NEW t \in Seq(S), NEW w \in Seq(S),
           Len(w) = Len(s) + Len(t), \A i \in 1..Len(s) : w[i] = s[i],
           \A i \in (Len(s) + 1)..(Len(s) + Len(t)) : w[i] = t[i - Len(s)]
    PROVE  s \o t = w
<1>1. /\ s \o t \in Seq(S) /\ Len(s \o t) = Len(s) + Len(t)
      /\ \A i \in 1..Len(s) + Len(t) : (s \o t)[i] = IF i <= Len(s) THEN s[i] ELSE t[i - Len(s)]
  BY ConcatProperties
<1>2. Len(s) \in Nat /\ Len(t) \in Nat OBVIOUS
<1>3. \A i \in 1..Len(s \o t) : (s \o t)[i] = w[i] BY <1>1, <1>2
<1>. QED BY <1>1, <1>3, SeqEqual
LEMMA SequenceOfOne == ASSUME NEW a PROVE <<>> \o <<a>> = <<a>>
<1>1. <<a>> \in Seq({a}) OBVIOUS
<1>. QED BY <1>1, ConcatEmptySeq, Zenon

LEMMA OneOne ==
    ASSUME NEW a, NEW b PROVE <<a>> \o <<b>> = <<a, b>>
<1>. DEFINE S == {a, b}  s == <<a>>  t == <<b>>  w == <<a, b>>
<1>1. s \in Seq(S) /\ t \in Seq(S) /\ w \in Seq(S) OBVIOUS
<1>2. Len(s) = 1 /\ Len(t) = 1 /\ Len(w) = 2 OBVIOUS
<1>3. (\A i \in 1..1 : w[i] = s[i]) /\ \A i \in 2..2 : w[i] = t[i - 1] OBVIOUS
<1>. HIDE DEF s, t, w, S
<1>4. /\ Len(w) = Len(s) + Len(t) /\ \A i \in 1..Len(s) : w[i] = s[i]
      /\ \A i \in (Len(s) + 1)..(Len(s) + Len(t)) : w[i] = t[i - Len(s)]
  BY <1>2, <1>3
<1>5. s \o t = w BY <1>1, <1>4, IsConcat, Zenon
<1>. QED BY <1>5 DEF s, t, w

LEMMA TwoOne ==
    ASSUME NEW a, NEW b, NEW c PROVE <<a, b>> \o <<c>> = <<a, b, c>>
<1>. DEFINE S == {a, b, c}  s == <<a, b>>  t == <<c>>  w == <<a, b, c>>
<1>1. s \in Seq(S) /\ t \in Seq(S) /\ w \in Seq(S) OBVIOUS
<1>2. Len(s) = 2 /\ Len(t) = 1 /\ Len(w) = 3 OBVIOUS
<1>3. (\A i \in 1..2 : w[i] = s[i]) /\ \A i \in 3..3 : w[i] = t[i - 2] OBVIOUS
<1>. HIDE DEF s, t, w, S
<1>4. /\ Len(w) = Len(s) + Len(t) /\ \A i \in 1..Len(s) : w[i] = s[i]
      /\ \A i \in (Len(s) + 1)..(Len(s) + Len(t)) : w[i] = t[i - Len(s)]
  BY <1>2, <1>3
<1>5. s \o t = w BY <1>1, <1>4, IsConcat, Zenon
<1>. QED BY <1>5 DEF s, t, w

LEMMA TwoTwo ==
    ASSUME NEW a, NEW b, NEW c, NEW d PROVE <<a, b>> \o <<c, d>> = <<a, b, c, d>>
<1>. DEFINE S == {a, b, c, d}  s == <<a, b>>  t == <<c, d>>  w == <<a, b, c, d>>
<1>1. s \in Seq(S) /\ t \in Seq(S) /\ w \in Seq(S) OBVIOUS
<1>2. Len(s) = 2 /\ Len(t) = 2 /\ Len(w) = 4 OBVIOUS
<1>3. (\A i \in 1..2 : w[i] = s[i]) /\ \A i \in 3..4 : w[i] = t[i - 2] OBVIOUS
<1>. HIDE DEF s, t, w, S
<1>4. /\ Len(w) = Len(s) + Len(t) /\ \A i \in 1..Len(s) : w[i] = s[i]
      /\ \A i \in (Len(s) + 1)..(Len(s) + Len(t)) : w[i] = t[i - Len(s)]
  BY <1>2, <1>3
<1>5. s \o t = w BY <1>1, <1>4, IsConcat, Zenon
<1>. QED BY <1>5 DEF s, t, w

LEMMA ThreeTwo ==
    ASSUME NEW a, NEW b, NEW c, NEW d, NEW e PROVE <<a, b, c>> \o <<d, e>> = <<a, b, c, d, e>>
<1>. DEFINE S == {a, b, c, d, e}  s == <<a, b, c>>  t == <<d, e>>  w == <<a, b, c, d, e>>
<1>1. s \in Seq(S) /\ t \in Seq(S) /\ w \in Seq(S) OBVIOUS
<1>2. Len(s) = 3 /\ Len(t) = 2 /\ Len(w) = 5 OBVIOUS
<1>3. (\A i \in 1..3 : w[i] = s[i]) /\ \A i \in 4..5 : w[i] = t[i - 3] OBVIOUS
<1>. HIDE DEF s, t, w, S
<1>4. /\ Len(w) = Len(s) + Len(t) /\ \A i \in 1..Len(s) : w[i] = s[i]
      /\ \A i \in (Len(s) + 1)..(Len(s) + Len(t)) : w[i] = t[i - Len(s)]
  BY <1>2, <1>3
<1>5. s \o t = w BY <1>1, <1>4, IsConcat, Zenon
<1>. QED BY <1>5 DEF s, t, w

LEMMA OneFour ==
    ASSUME NEW a, NEW b, NEW c, NEW d, NEW e PROVE <<a>> \o <<b, c, d, e>> = <<a, b, c, d, e>>
<1>. DEFINE S == {a, b, c, d, e}  s == <<a>>  t == <<b, c, d, e>>  w == <<a, b, c, d, e>>
<1>1. s \in Seq(S) /\ t \in Seq(S) /\ w \in Seq(S) OBVIOUS
<1>2. Len(s) = 1 /\ Len(t) = 4 /\ Len(w) = 5 OBVIOUS
<1>3. (\A i \in 1..1 : w[i] = s[i]) /\ \A i \in 2..5 : w[i] = t[i - 1] OBVIOUS
<1>. HIDE DEF s, t, w, S
<1>4. /\ Len(w) = Len(s) + Len(t) /\ \A i \in 1..Len(s) : w[i] = s[i]
      /\ \A i \in (Len(s) + 1)..(Len(s) + Len(t)) : w[i] = t[i - Len(s)]
  BY <1>2, <1>3
<1>5. s \o t = w BY <1>1, <1>4, IsConcat, Zenon
<1>. QED BY <1>5 DEF s, t, w

LEMMA TwoFour ==
    ASSUME NEW a, NEW b, NEW c, NEW d, NEW e, NEW f
    PROVE  <<a, b>> \o <<c, d, e, f>> = <<a, b, c, d, e, f>>
<1>. DEFINE S == {a, b, c, d, e, f}  s == <<a, b>>  t == <<c, d, e, f>>  w == <<a, b, c, d, e, f>>
<1>1. s \in Seq(S) /\ t \in Seq(S) /\ w \in Seq(S) OBVIOUS
<1>2. Len(s) = 2 /\ Len(t) = 4 /\ Len(w) = 6 OBVIOUS
<1>3. (\A i \in 1..2 : w[i] = s[i]) /\ \A i \in 3..6 : w[i] = t[i - 2] OBVIOUS
<1>. HIDE DEF s, t, w, S
<1>4. /\ Len(w) = Len(s) + Len(t) /\ \A i \in 1..Len(s) : w[i] = s[i]
      /\ \A i \in (Len(s) + 1)..(Len(s) + Len(t)) : w[i] = t[i - Len(s)]
  BY <1>2, <1>3
<1>5. s \o t = w BY <1>1, <1>4, IsConcat, Zenon
<1>. QED BY <1>5 DEF s, t, w

LEMMA ThreeFour ==
    ASSUME NEW a, NEW b, NEW c, NEW d, NEW e, NEW f, NEW h
    PROVE  <<a, b, c>> \o <<d, e, f, h>> = <<a, b, c, d, e, f, h>>
<1>. DEFINE S == {a, b, c, d, e, f, h}  s == <<a, b, c>>  t == <<d, e, f, h>>  w == <<a, b, c, d, e, f, h>>
<1>1. s \in Seq(S) /\ t \in Seq(S) /\ w \in Seq(S) OBVIOUS
<1>2. Len(s) = 3 /\ Len(t) = 4 /\ Len(w) = 7 OBVIOUS
<1>3. (\A i \in 1..3 : w[i] = s[i]) /\ \A i \in 4..7 : w[i] = t[i - 3] OBVIOUS
<1>. HIDE DEF s, t, w, S
<1>4. /\ Len(w) = Len(s) + Len(t) /\ \A i \in 1..Len(s) : w[i] = s[i]
      /\ \A i \in (Len(s) + 1)..(Len(s) + Len(t)) : w[i] = t[i - Len(s)]
  BY <1>2, <1>3
<1>5. s \o t = w BY <1>1, <1>4, IsConcat, Zenon
<1>. QED BY <1>5 DEF s, t, w

LEMMA OneOneOne == ASSUME NEW a, NEW b, NEW c PROVE <<a>> \o <<b>> \o <<c>> = <<a, b, c>>
<1>1. <<a>> \o <<b>> = <<a, b>> BY OneOne
<1>. QED BY <1>1, TwoOne, Zenon

-----------------------------------------------------------------------------
(* What is planned.                                                           *)

LEMMA PlansKeepUp ==
    ASSUME BundlesConstants, Typed, SkipInv, PlanUpgrade PROVE SkipInv' /\ PlansInv'
<1>1. PICK force \in BOOLEAN, git \in {"merge", "conflict", "error"} :
        LET kind == Kind(force, git) IN
          run' = [step |-> "planned", kind |-> kind, source |-> Bundle, local |-> file["live"],
                  base |-> file[On],
                  on |-> IF There(On) /\ kind \in {"update", "resolved", "local-only", "merge",
                                                   "conflict", "error"} THEN {On} ELSE {},
                  todo |-> Writes(kind)]
  BY DEF PlanUpgrade
<1>. DEFINE kind == Kind(force, git)
<1>2. UNCHANGED <<package, file, declined, seen>> BY DEF PlanUpgrade
<1>3. SkipInv'
  BY <1>2 DEF SkipInv, FromPackages, Accounted, Offered, IsHeld, Packaged, Fits, Of, There,
              Unoffered, Bundle
<1>4. /\ run'.step = "planned" /\ run'.source = Bundle /\ run'.local = file["live"]
      /\ run'.base = file[On] /\ run'.todo = Writes(kind)
      /\ kind \in {"merge", "conflict", "error", "resolved"} /\ There(On) => run'.on = {On}
  BY <1>1
<1>5. PlanKeeps(run)'
  <2>. USE DEF Put, Unlink, Recorded
  <2>1. CASE kind \in {"up-to-date", "local-only", "keep"}
    BY <1>4, <2>1 DEF Writes, PlanKeeps
  <2>2. CASE kind = "adopt"
    <3>1. file["live"] = {Bundle} BY <2>2 DEF Kind, Forced
    <3>2. Writes(kind) = <<Put("baseline", Bundle)>> \o Tidy BY <2>2 DEF Writes, Baseline
    <3>. QED BY <1>4, <3>1, <3>2 DEF PlanKeeps
  <2>3. CASE kind = "create"
    <3>1. Writes(kind) = <<Put("live", Bundle), Put("baseline", Bundle)>> \o Tidy
      BY <2>3, OneOne DEF Writes, Baseline
    <3>. QED BY <1>4, <3>1 DEF PlanKeeps
  <2>4. CASE kind \in {"update", "overwrite"}
    <3>1. Bundle \in SUBSET Lines BY BundleIsPackaged
    <3>2. Writes(kind) = <<<<"backup", file["live"]>>, Put("live", Bundle), Put("baseline", Bundle)>>
                           \o Tidy
      BY <2>4, TwoOne DEF Writes, Replaced, Result, Baseline
    <3>. QED BY <1>4, <3>1, <3>2 DEF PlanKeeps, Brings
  <2>5. CASE kind = "merge"
    <3>1. There(On) /\ ~There("new") /\ There("live") BY <2>5 DEF Kind, Forced
    <3>2. PICK l : l = Merged OBVIOUS
    <3>3. l \in SUBSET Lines
      BY <3>2, BundleIsPackaged, ContentsAreLines, NamesOfFiles DEF Merged
    <3>4. Writes(kind) = <<<<"backup", file["live"]>>, Put("live", l), Put("baseline", Bundle)>>
                           \o Tidy
      BY <2>5, <3>2, TwoOne DEF Writes, Replaced, Result, Baseline
    <3>5. Brings(run, l)'
      <4>1. run'.on = {On} BY <1>4, <2>5, <3>1
      <4>2. (run.on = {"baseline"} \/ Acknowledges(run))'
        BY <1>2, <3>1, <4>1 DEF On, Acknowledged, Acknowledges, Unoffered, There
      <4>3. l = ((UNION run'.local) \ ((UNION run'.base) \ run'.source))
                  \cup (run'.source \ (UNION run'.base))
        BY <1>4, <3>2 DEF Merged, Of
      <4>4. /\ run'.source \ (UNION run'.base) \subseteq l
            /\ run'.source \cap (UNION run'.base) \cap (UNION run'.local) \subseteq l
        BY <4>3
      <4>5. run'.local # {} BY <1>4, <3>1 DEF There
      <4>. QED BY <4>2, <4>4, <4>5 DEF Brings
    <3>. QED BY <1>4, <3>3, <3>4, <3>5 DEF PlanKeeps
  <2>6. CASE kind \in {"legacy", "legacy-pending"}
    <3>1. ~There("merge") BY <2>6 DEF Kind, Forced, SkipInv, Offered
    <3>2. Writes(kind) = <<Put("new", Bundle), Put("pending", Bundle)>>
                           \o <<Unlink("merge"), Unlink("error")>>
      BY <2>6 DEF Writes, Offer
    <3>. QED BY <1>2, <1>4, <3>1, <3>2 DEF PlanKeeps, There
  <2>7. CASE kind = "conflict" /\ ~Acknowledged
    <3>1. ~There("new") BY <2>7 DEF Kind, Forced
    <3>2. Writes(kind) = <<Put("merge", Bundle), Put("pending", Bundle)>>
                           \o <<Unlink("new"), Unlink("error")>>
      BY <2>7 DEF Writes, Offer
    <3>. QED BY <1>2, <1>4, <3>1, <3>2 DEF PlanKeeps, There
  <2>8. CASE kind = "error" /\ ~Acknowledged
    <3>1. Writes(kind) = <<<<"error", {Bundle}>>>>
      BY <2>8, SequenceOfOne DEF Writes
    <3>. QED BY <1>4, <3>1 DEF PlanKeeps
  <2>9. CASE kind \in {"resolved", "conflict", "error"} /\ Acknowledged
    <3>1. On = "pending" /\ There("pending") /\ ~There("merge") /\ ~There("new")
      BY <2>9 DEF Kind, Forced, On, Acknowledged
    <3>2. Acknowledges(run)' BY <1>2, <1>4, <2>9, <3>1 DEF Acknowledges, Unoffered, There
    <3>3. PICK c \in SUBSET Lines : file[On] = {c} /\ Of(On) = c
      <4>1. file[On] \in Optional \ {{}} BY <3>1, NamesOfFiles DEF Typed, There, Bases
      <4>2. PICK c \in SUBSET Lines : file[On] = {c} BY <4>1 DEF Optional
      <4>. QED BY <4>2 DEF Of
    <3>4. CASE kind = "resolved"
      <4>1. Writes(kind) = <<Put("baseline", c)>> \o Tidy BY <3>3, <3>4 DEF Writes, Baseline
      <4>. QED BY <1>4, <3>2, <3>3, <4>1 DEF PlanKeeps
    <3>5. CASE kind = "conflict"
      <4>1. /\ Head(Offer("merge")) = Put("merge", Bundle)
            /\ Tail(Offer("merge")) = <<Put("pending", Bundle)>>
        BY DEF Offer
      <4>2. Writes(kind) = <<Put("merge", Bundle), Put("baseline", c), Put("pending", Bundle)>>
                             \o <<Unlink("new"), Unlink("error")>>
        <5>1. Baseline(kind) = <<Put("baseline", c)>> BY <3>3, <3>5 DEF Baseline
        <5>2. <<Head(Offer("merge"))>> \o Baseline(kind) \o Tail(Offer("merge"))
                = <<Put("merge", Bundle), Put("baseline", c), Put("pending", Bundle)>>
          BY <4>1, <5>1, OneOneOne
        <5>. QED BY <2>9, <3>5, <5>2 DEF Writes
      <4>. QED BY <1>4, <3>2, <3>3, <4>2 DEF PlanKeeps
    <3>6. CASE kind = "error"
      <4>1. Writes(kind) = <<Put("baseline", c), Unlink("pending"), <<"error", {Bundle}>>>>
        <5>1. Baseline(kind) = <<Put("baseline", c)>> BY <3>3, <3>6 DEF Baseline
        <5>2. Baseline(kind) \o <<Unlink("pending")>> \o <<<<"error", {Bundle}>>>>
                = <<Put("baseline", c), Unlink("pending"), <<"error", {Bundle}>>>>
          BY <5>1, OneOneOne
        <5>. QED BY <2>9, <3>6, <5>2 DEF Writes
      <4>. QED BY <1>4, <3>2, <3>3, <4>1 DEF PlanKeeps
    <3>. QED BY <2>9, <3>4, <3>5, <3>6
  <2>10. kind \in Kinds \ {"none", "seed"} BY KindsOfPlans
  <2>11. kind = "resolved" => Acknowledged BY DEF Kind, Forced
  <2>. HIDE DEF kind
  <2>. QED BY <2>1, <2>2, <2>3, <2>4, <2>5, <2>6, <2>7, <2>8, <2>9, <2>10, <2>11 DEF Kinds
<1>. QED BY <1>3, <1>4, <1>5 DEF PlansInv

(* What was planned, and nothing has changed since.                           *)
LEMMA AppliesSafely ==
    ASSUME BundlesConstants, Typed, SkipInv, PlanKeeps(run), Unchanged PROVE Left(run.todo)
<1>1. run.source = Bundle /\ Bundle \in Packaged /\ Bundle \in SUBSET Lines
  BY BundleIsPackaged DEF Unchanged, Typed, Packaged, SkipInv, FromPackages, Bundle
<1>2. run.local = file["live"] /\ run.local \in Optional BY DEF Unchanged, Typed
<1>3. \A l : Fits(Bundle, l) <=> Bundle \subseteq l \cup declined BY DEF Fits
<1>4. Covers(Bundle) /\ Fits(Bundle, Bundle) BY DEF Covers, Fits
<1>5. ASSUME Acknowledges(run), NEW c, run.base = {c} PROVE c \in Packaged /\ Reconciled(c)
  <2>1. file["pending"] = {c} /\ Of("pending") = c BY <1>5 DEF Acknowledges, Unchanged, Of
  <2>2. c \in Packaged BY <2>1, HeldNames DEF SkipInv, FromPackages, IsHeld
  <2>3. Reconciled(c) BY <1>5, <2>1 DEF Acknowledges, Reconciled, SkipInv, Accounted
  <2>. QED BY <2>2, <2>3
<1>. USE DEF Left, Unlink
<1>6. CASE run.todo = <<>> BY <1>6 DEF TidyLeft
<1>7. CASE run.todo = <<<<"error", {run.source}>>>>
  <2>1. {run.source} \in Optional BY <1>1, NamesOfFiles
  <2>. QED BY <1>1, <1>7, <2>1 DEF ErrorLeft
<1>8. CASE run.todo = <<Put("baseline", run.source)>> \o Tidy /\ run.local = {run.source}
  <2>1. Of("live") = Bundle BY <1>1, <1>2, <1>8 DEF Of
  <2>2. Reconciled(Bundle) BY <1>4, <2>1 DEF Reconciled
  <2>3. run.todo = <<Put("baseline", Bundle), Unlink("pending"), Unlink("new"), Unlink("merge"),
                     Unlink("error")>>
    BY <1>1, <1>8, OneFour DEF Tidy
  <2>. QED BY <1>1, <2>2, <2>3 DEF RecordLeft
<1>9. CASE run.todo = <<Put("live", run.source), Put("baseline", run.source)>> \o Tidy
  <2>1. run.todo = <<Put("live", Bundle), Put("baseline", Bundle), Unlink("pending"), Unlink("new"),
                     Unlink("merge"), Unlink("error")>>
    BY <1>1, <1>9, TwoFour DEF Tidy
  <2>. QED BY <1>1, <1>2, <1>4, <2>1 DEF ReplaceLeft
<1>10. ASSUME NEW l \in SUBSET Lines, Brings(run, l),
              run.todo = <<<<"backup", run.local>>, Put("live", l), Put("baseline", run.source)>>
                           \o Tidy
       PROVE  Left(run.todo)
  <2>1. run.todo = <<<<"backup", run.local>>, Put("live", l), Put("baseline", Bundle),
                     Unlink("pending"), Unlink("new"), Unlink("merge"), Unlink("error")>>
    BY <1>1, <1>10, ThreeFour DEF Tidy
  <2>2. Bundle \subseteq l \cup declined
    <3>1. CASE l = run.source BY <1>1, <3>1
    <3>2. CASE /\ run.source \ (UNION run.base) \subseteq l
               /\ run.source \cap (UNION run.base) \cap (UNION run.local) \subseteq l
               /\ run.local # {} /\ (run.on = {"baseline"} \/ Acknowledges(run))
      <4>1. PICK f \in {"baseline", "pending"} : /\ run.on = {f} /\ run.base = file[f]
                                                 /\ f = "pending" => Unoffered
        BY <3>2 DEF Acknowledges, Unchanged
      <4>2. There("live") => Fits(Of(f), Of("live")) BY <4>1 DEF SkipInv, Accounted
      <4>3. Of(f) \cap Bundle \subseteq Of("live") \cup declined
        BY <1>2, <3>2, <4>1, <4>2 DEF There, Fits
      <4>4. Of(f) = UNION run.base /\ Of("live") = UNION run.local BY <1>2, <4>1 DEF Of
      <4>. QED BY <1>1, <3>2, <4>3, <4>4
    <3>. QED BY <1>10, <3>1, <3>2 DEF Brings
  <2>3. Covers(l) /\ Fits(Bundle, l) BY <2>2 DEF Covers, Fits
  <2>. QED BY <1>1, <1>2, <2>1, <2>3 DEF ReplaceLeft
<1>11. CASE /\ run.todo = <<Put("new", run.source), Put("pending", run.source)>>
                            \o <<Unlink("merge"), Unlink("error")>>
            /\ ~There("merge")
  <2>1. run.todo = <<Put("new", Bundle), Put("pending", Bundle), Unlink("merge"), Unlink("error")>>
    BY <1>1, <1>11, TwoTwo
  <2>2. Of("pending") \cap Bundle \subseteq Bundle OBVIOUS
  <2>. QED BY <1>1, <1>11, <2>1, <2>2 DEF OfferLeft
<1>12. CASE /\ run.todo = <<Put("merge", run.source), Put("pending", run.source)>>
                            \o <<Unlink("new"), Unlink("error")>>
            /\ ~There("new")
  <2>1. run.todo = <<Put("merge", Bundle), Put("pending", Bundle), Unlink("new"), Unlink("error")>>
    BY <1>1, <1>12, TwoTwo
  <2>2. Of("pending") \cap Bundle \subseteq Bundle OBVIOUS
  <2>. QED BY <1>1, <1>12, <2>1, <2>2 DEF OfferLeft
<1>13. ASSUME Acknowledges(run), NEW c \in SUBSET Lines, run.base = {c},
              run.todo = <<Put("baseline", c)>> \o Tidy
       PROVE  Left(run.todo)
  <2>1. run.todo = <<Put("baseline", c), Unlink("pending"), Unlink("new"), Unlink("merge"),
                     Unlink("error")>>
    BY <1>13, OneFour DEF Tidy
  <2>. QED BY <1>5, <1>13, <2>1 DEF RecordLeft
<1>14. ASSUME Acknowledges(run), NEW c \in SUBSET Lines, run.base = {c},
              run.todo = <<Put("merge", run.source), Put("baseline", c), Put("pending", run.source)>>
                           \o <<Unlink("new"), Unlink("error")>>
       PROVE  Left(run.todo)
  <2>1. run.todo = <<Put("merge", Bundle), Put("baseline", c), Put("pending", Bundle), Unlink("new"),
                     Unlink("error")>>
    BY <1>1, <1>14, ThreeTwo
  <2>2. Of("pending") \cap Bundle \subseteq Bundle /\ ~There("new")
    BY <1>14 DEF Acknowledges, Unoffered
  <2>3. c \in Packaged /\ Reconciled(c) BY <1>5, <1>14
  <2>. QED BY <1>1, <2>1, <2>2, <2>3 DEF OfferLeft
<1>15. ASSUME Acknowledges(run), NEW c \in SUBSET Lines, run.base = {c},
              run.todo = <<Put("baseline", c), Unlink("pending"), <<"error", {run.source}>>>>
       PROVE  Left(run.todo)
  <2>1. {run.source} \in Optional BY <1>1, NamesOfFiles
  <2>2. c \in Packaged /\ Reconciled(c) BY <1>5, <1>15
  <2>. QED BY <1>15, <2>1, <2>2 DEF ErrorLeft
<1>. QED BY <1>6, <1>7, <1>8, <1>9, <1>10, <1>11, <1>12, <1>13, <1>14, <1>15 DEF PlanKeeps

LEMMA LeftAlone ==
    ASSUME NEW w, UNCHANGED <<package, file, declined, seen>>, Left(w) PROVE Left(w)'
<1>1. \A f : Of(f)' = Of(f) /\ (There(f)' <=> There(f)) BY DEF Of, There
<1>2. Packaged' = Packaged /\ Bundle' = Bundle BY DEF Packaged, Bundle
<1>3. \A c, l : Fits(c, l)' <=> Fits(c, l) BY <1>2 DEF Fits
<1>4. \A c : Reconciled(c)' <=> Reconciled(c) BY <1>1, <1>3 DEF Reconciled
<1>5. \A l : Covers(l)' <=> Covers(l) BY <1>1, <1>3 DEF Covers
<1>6. TidyLeft(w) => TidyLeft(w)' BY <1>1 DEF TidyLeft
<1>7. RecordLeft(w) => RecordLeft(w)' BY <1>2, <1>4 DEF RecordLeft
<1>8. ReplaceLeft(w) => ReplaceLeft(w)' BY <1>2, <1>3, <1>5 DEF ReplaceLeft
<1>9. OfferLeft(w) => OfferLeft(w)' BY <1>1, <1>2, <1>4 DEF OfferLeft
<1>10. OfferedLeft(w) => OfferedLeft(w)' BY <1>1, <1>2, <1>4 DEF OfferedLeft
<1>11. ErrorLeft(w) => ErrorLeft(w)' BY <1>2, <1>4 DEF ErrorLeft
<1>. QED BY <1>6, <1>7, <1>8, <1>9, <1>10, <1>11 DEF Left

LEMMA ApplyingKeepsUp ==
    ASSUME BundlesConstants, Typed, SkipInv, PlansInv, Apply PROVE SkipInv' /\ PlansInv'
<1>1. UNCHANGED <<package, file, declined, seen>> BY DEF Apply
<1>2. SkipInv'
  BY <1>1 DEF SkipInv, FromPackages, Accounted, Offered, IsHeld, Packaged, Fits, Of, There,
              Unoffered, Bundle
<1>3. CASE Unchanged
  <2>1. PlanKeeps(run) /\ run' = [run EXCEPT !.step = "write"] BY <1>3 DEF Apply, PlansInv
  <2>2. Left(run.todo) BY <1>3, <2>1, AppliesSafely
  <2>3. run'.todo = run.todo /\ run'.step = "write" BY <2>1 DEF Typed
  <2>4. PICK w : w = run.todo OBVIOUS
  <2>5. Left(w)' BY <1>1, <2>2, <2>4, LeftAlone
  <2>6. Left(run.todo)' BY <2>3, <2>4, <2>5
  <2>. QED BY <1>2, <2>3, <2>6 DEF PlansInv
<1>4. CASE ~Unchanged
  <2>1. run'.step = "idle" BY <1>4 DEF Apply, NoRun
  <2>. QED BY <1>2, <2>1 DEF PlansInv
<1>. QED BY <1>3, <1>4

LEMMA SeedingKeepsUp ==
    ASSUME BundlesConstants, Typed, SkipInv, Seed PROVE SkipInv' /\ PlansInv'
<1>1. UNCHANGED <<package, file, declined, seen>> BY DEF Seed
<1>2. SkipInv'
  BY <1>1 DEF SkipInv, FromPackages, Accounted, Offered, IsHeld, Packaged, Fits, Of, There,
              Unoffered, Bundle
<1>3. Bundle \in SUBSET Lines /\ Bundle \in Packaged' /\ Bundle' = Bundle
  BY <1>1, BundleIsPackaged DEF Typed, Packaged, SkipInv, FromPackages, Bundle
<1>4. run'.step = "write" BY DEF Seed, NoRun
<1>5. CASE There("live")
  <2>1. run'.todo = <<Put("baseline", Bundle)>>
    BY <1>5, SequenceOfOne DEF Seed, NoRun, Put
  <2>2. Of("live")' = Bundle BY <1>1, <1>5 DEF Seed, Adopts, Of
  <2>3. Reconciled(Bundle)' BY <1>3, <2>2 DEF Reconciled, Fits
  <2>4. RecordLeft(run.todo)' BY <1>3, <2>1, <2>3 DEF RecordLeft
  <2>. QED BY <1>2, <1>4, <2>4 DEF PlansInv, Left
<1>6. CASE ~There("live")
  <2>1. run'.todo = <<Put("live", Bundle), Put("baseline", Bundle)>>
    BY <1>6, OneOne DEF Seed, NoRun, Put
  <2>2. Covers(Bundle)' /\ Fits(Bundle, Bundle)' BY <1>3 DEF Covers, Fits
  <2>3. {} \in Optional BY NamesOfFiles
  <2>4. ReplaceLeft(run.todo)' BY <1>3, <2>1, <2>2, <2>3 DEF ReplaceLeft
  <2>. QED BY <1>2, <1>4, <2>4 DEF PlansInv, Left
<1>. QED BY <1>5, <1>6

-----------------------------------------------------------------------------
(* The operator, and new packages.                                            *)

LEMMA PlannedStays ==
    ASSUME UNCHANGED run, PlanKeeps(run),
           There("new")' => There("new"), There("merge")' => There("merge")
    PROVE  PlanKeeps(run)'
<1>1. Acknowledges(run) => Acknowledges(run)' BY DEF Acknowledges, Unoffered
<1>2. \A l : Brings(run, l) => Brings(run, l)' BY <1>1 DEF Brings
<1>. QED BY <1>1, <1>2 DEF PlanKeeps

LEMMA ByHand ==
    ASSUME Typed, SkipInv, PlansInv, NEW x, Edited(x), IsHeld(seen'), declined \subseteq declined',
           x # {} => /\ Of("baseline") \cap Bundle \subseteq (UNION x) \cup declined'
                     /\ (UNION seen') \cap Bundle \subseteq (UNION x) \cup declined'
                     /\ Unoffered => Of("pending") \cap Bundle \subseteq (UNION x) \cup declined'
    PROVE  SkipInv' /\ PlansInv'
<1>1. /\ UNCHANGED <<package, run>> /\ run.step # "write" /\ file' = [file EXCEPT !["live"] = x]
  BY DEF Edited
<1>2. /\ \A f \in Held : file'[f] = file[f] /\ Of(f)' = Of(f) /\ (There(f)' <=> There(f))
      /\ Of("live")' = UNION x /\ (There("live")' <=> x # {})
  BY <1>1, HeldNames DEF Typed, Of, There
<1>3. FromPackages' BY <1>1, <1>2 DEF SkipInv, FromPackages, IsHeld, Packaged
<1>4. Accounted'
  <2>1. Unoffered' <=> Unoffered BY <1>2, HeldNames DEF Unoffered
  <2>2. Of("baseline")' = Of("baseline") /\ Of("pending")' = Of("pending") /\ Bundle' = Bundle
    BY <1>1, <1>2, HeldNames DEF Bundle
  <2>3. There("live")' =>
          /\ Of("baseline")' \cap Bundle' \subseteq (UNION x) \cup declined'
          /\ (UNION seen') \cap Bundle' \subseteq (UNION x) \cup declined'
          /\ Unoffered' => Of("pending")' \cap Bundle' \subseteq (UNION x) \cup declined'
    BY <1>2, <2>1, <2>2
  <2>. QED BY <1>2, <2>3 DEF Accounted, Fits
<1>5. Offered' BY <1>1, <1>2, HeldNames DEF SkipInv, Offered, Bundle
<1>6. run.step = "planned" => PlanKeeps(run)'
  BY <1>1, <1>2, HeldNames, PlannedStays DEF PlansInv
<1>. QED BY <1>1, <1>3, <1>4, <1>5, <1>6 DEF SkipInv, PlansInv

LEMMA EditsKeepUp ==
    ASSUME BundlesConstants, EditsInv, SkipInv, PlansInv,
           \/ \E l \in Mine : AddLine(l)
           \/ \E l \in Lines : RemoveLine(l)
           \/ RemoveFile
           \/ \E s \in {"new", "merge"} : MergeByHand(s)
    PROVE  SkipInv' /\ PlansInv'
<1>0. Typed /\ IsHeld(seen) BY DEF EditsInv, SkipInv, FromPackages
<1>1. There("live") =>
        /\ Of("baseline") \cap Bundle \subseteq Of("live") \cup declined
        /\ (UNION seen) \cap Bundle \subseteq Of("live") \cup declined
        /\ Unoffered => Of("pending") \cap Bundle \subseteq Of("live") \cup declined
  BY DEF SkipInv, Accounted, Fits
<1>2. ASSUME NEW l \in Mine, AddLine(l) PROVE SkipInv' /\ PlansInv'
  <2>1. PICK x : x = {Of("live") \cup {l}} OBVIOUS
  <2>2. Edited(x) /\ There("live") /\ seen' = seen /\ declined' = declined
        /\ UNION x = Of("live") \cup {l}
    BY <1>2, <2>1 DEF AddLine
  <2>3. /\ Of("baseline") \cap Bundle \subseteq (UNION x) \cup declined'
        /\ (UNION seen') \cap Bundle \subseteq (UNION x) \cup declined'
        /\ Unoffered => Of("pending") \cap Bundle \subseteq (UNION x) \cup declined'
    BY <1>1, <2>2
  <2>4. IsHeld(seen') BY <1>0, <2>2
  <2>. QED BY <1>0, <2>2, <2>3, <2>4, ByHand
<1>3. ASSUME NEW l \in Lines, RemoveLine(l) PROVE SkipInv' /\ PlansInv'
  <2>1. PICK x : x = {Of("live") \ {l}} OBVIOUS
  <2>2. Edited(x) /\ There("live") /\ seen' = seen /\ declined' = declined \cup {l}
        /\ UNION x = Of("live") \ {l}
    BY <1>3, <2>1 DEF RemoveLine, Of, There
  <2>3. /\ Of("baseline") \cap Bundle \subseteq (UNION x) \cup declined'
        /\ (UNION seen') \cap Bundle \subseteq (UNION x) \cup declined'
        /\ Unoffered => Of("pending") \cap Bundle \subseteq (UNION x) \cup declined'
    BY <1>1, <2>2
  <2>4. IsHeld(seen') /\ declined \subseteq declined' BY <1>0, <2>2
  <2>. QED BY <1>0, <2>2, <2>3, <2>4, ByHand
<1>4. CASE RemoveFile
  <2>1. Edited({}) /\ seen' = seen /\ declined' = declined BY <1>4 DEF RemoveFile
  <2>. QED BY <1>0, <2>1, ByHand DEF IsHeld
<1>5. ASSUME NEW s \in {"new", "merge"}, MergeByHand(s) PROVE SkipInv' /\ PlansInv'
  <2>1. PICK taken \in SUBSET Of(s) :
          /\ Edited({own \cup taken})
          /\ declined' = declined \cup ((Of(s) \cup Of("live")) \ (taken \cup Mine))
    BY <1>5 DEF MergeByHand
  <2>2. There(s) /\ There("live") /\ seen' = file[s] /\ IsHeld(file[s])
    BY <1>5, HeldNames DEF MergeByHand, SkipInv, FromPackages
  <2>3. Bundle \cap Mine = {} BY <1>0, BundleIsPackaged
  <2>4. ~Unoffered /\ UNION seen' = Of(s) BY <2>2 DEF Unoffered, Of
  <2>5. PICK x : x = {own \cup taken} OBVIOUS
  <2>6. UNION x = own \cup taken BY <2>5
  <2>7. /\ Of("baseline") \cap Bundle \subseteq (UNION x) \cup declined'
        /\ (UNION seen') \cap Bundle \subseteq (UNION x) \cup declined'
    <3>1. (Of(s) \cup Of("live")) \cap Bundle \subseteq (UNION x) \cup declined'
      BY <2>1, <2>3, <2>6
    <3>2. Of("baseline") \cap Bundle \subseteq Of("live") \cup declined /\ declined \subseteq declined'
      BY <1>1, <2>1, <2>2
    <3>. QED BY <2>4, <3>1, <3>2
  <2>8. declined \subseteq declined' /\ IsHeld(seen') BY <2>1, <2>2
  <2>. QED BY <1>0, <2>1, <2>4, <2>5, <2>7, <2>8, ByHand
<1>. QED BY <1>2, <1>3, <1>4, <1>5

LEMMA RemovalsKeepUp ==
    ASSUME Typed, SkipInv, PlansInv, NEW s \in {"new", "merge"}, RemoveSidecar(s)
    PROVE  SkipInv' /\ PlansInv'
<1>1. /\ run.step # "write" /\ There(s) /\ seen = file[s] /\ file' = [file EXCEPT ![s] = {}]
      /\ seen' = {} /\ UNCHANGED <<package, run, declined>>
  BY DEF RemoveSidecar
<1>0. s \in Held /\ Other(s) \in Held \ {s} /\ {s, Other(s)} = {"new", "merge"}
      /\ s \notin {"baseline", "pending", "live"}
  BY DEF Held, Other
<1>2. /\ \A g \in (Held \cup {"live"}) \ {s} :
            file'[g] = file[g] /\ Of(g)' = Of(g) /\ (There(g)' <=> There(g))
      /\ file'[s] = {} /\ ~There(s)'
  BY <1>0, <1>1, HeldNames DEF Typed, Of, There
<1>3. FromPackages' BY <1>1, <1>2 DEF SkipInv, FromPackages, IsHeld, Packaged
<1>4. There("live") => Fits(Of("pending"), Of("live"))
  <2>1. Of("pending") \cap Bundle \subseteq UNION seen BY <1>0, <1>1 DEF SkipInv, Offered, Of
  <2>. QED BY <2>1 DEF SkipInv, Accounted, Fits
<1>5. Accounted'
  <2>1. Of("baseline")' = Of("baseline") /\ Of("pending")' = Of("pending") /\ Bundle' = Bundle
        /\ Of("live")' = Of("live") /\ (There("live")' <=> There("live"))
    BY <1>0, <1>1, <1>2, HeldNames DEF Bundle
  <2>2. UNION seen' = {} BY <1>1
  <2>. QED BY <1>1, <1>4, <2>1, <2>2 DEF SkipInv, Accounted, Fits
<1>6. Offered'
  <2>1. Of("pending")' = Of("pending") /\ Bundle' = Bundle /\ Of(Other(s))' = Of(Other(s))
        /\ (There(Other(s))' <=> There(Other(s)))
    BY <1>0, <1>1, <1>2, HeldNames DEF Bundle
  <2>. QED BY <1>0, <1>2, <2>1 DEF SkipInv, Offered, Other
<1>7. run.step = "planned" => PlanKeeps(run)'
  BY <1>0, <1>1, <1>2, HeldNames, PlannedStays DEF PlansInv, Other
<1>. QED BY <1>1, <1>3, <1>5, <1>6, <1>7 DEF SkipInv, PlansInv

(* Of a bundle so far, the next one has nothing that the newest has not.      *)
LEMMA Newer ==
    ASSUME BundlesConstants, Typed, SkipInv, NewPackage, NEW c \in Packaged
    PROVE  c \cap Bundle' \subseteq Bundle /\ c \in Packaged'
<1>1. package' = package + 1 /\ package \in Nat \ {0} /\ package + 1 \in DOMAIN Bundles
      /\ package \in DOMAIN Bundles
  BY DEF NewPackage, SkipInv, FromPackages, Typed
<1>2. PICK i \in DOMAIN Bundles \cap 1..package : c = Bundles[i] BY DEF Packaged
<1>3. c \in Packaged' BY <1>1, <1>2 DEF Packaged
<1>4. CASE i = package BY <1>2, <1>3, <1>4 DEF Bundle
<1>5. CASE i # package
  <2>1. i < package /\ package < package + 1 BY <1>1, <1>2, <1>5
  <2>2. Bundles[i] \cap Bundles[package + 1] \subseteq Bundles[package]
    BY <1>1, <1>2, <2>1 DEF BundlesConstants
  <2>. QED BY <1>1, <1>2, <1>3, <2>2 DEF Bundle
<1>. QED BY <1>4, <1>5

LEMMA PackagesKeepUp ==
    ASSUME BundlesConstants, Typed, SkipInv, PlansInv, NewPackage PROVE SkipInv' /\ PlansInv'
<1>1. UNCHANGED <<file, run, declined, seen>> /\ package' = package + 1
      /\ package' \in Nat \ {0}
  BY DEF NewPackage, SkipInv, FromPackages
<1>2. \A f : Of(f)' = Of(f) /\ (There(f)' <=> There(f)) BY <1>1 DEF Of, There
<1>3. \A c \in Packaged : c \cap Bundle' \subseteq Bundle /\ c \in Packaged' BY Newer
<1>4. \A c \in Packaged : \A l : Fits(c, l) => Fits(c, l)' BY <1>1, <1>3 DEF Fits
<1>5. \A l : Fits({}, l)' BY DEF Fits
<1>6. ASSUME NEW f \in Held
      PROVE  /\ IsHeld(file[f])' /\ Of(f) \in Packaged \cup {{}}
             /\ Of(f) \cap Bundle' \subseteq Bundle
  <2>1. IsHeld(file[f]) BY DEF SkipInv, FromPackages
  <2>. QED BY <1>1, <1>3, <2>1 DEF IsHeld, Of
<1>7. IsHeld(seen)' /\ UNION seen \in Packaged \cup {{}}
  <2>1. IsHeld(seen) BY DEF SkipInv, FromPackages
  <2>. QED BY <1>1, <1>3, <2>1 DEF IsHeld
<1>8. FromPackages' BY <1>1, <1>6, <1>7 DEF FromPackages
<1>9. \A l : /\ Fits(Of("baseline"), l) => Fits(Of("baseline"), l)'
             /\ Fits(Of("pending"), l) => Fits(Of("pending"), l)'
             /\ Fits(UNION seen, l) => Fits(UNION seen, l)'
  <2>1. ASSUME NEW c \in Packaged \cup {{}}, NEW l, Fits(c, l)
        PROVE  c \cap Bundle' \subseteq l \cup declined'
    BY <1>1, <1>3, <2>1 DEF Fits
  <2>2. Of("baseline")' = Of("baseline") /\ Of("pending")' = Of("pending")
        /\ (UNION seen)' = UNION seen
    BY <1>1, <1>2
  <2>3. Of("baseline") \in Packaged \cup {{}} /\ Of("pending") \in Packaged \cup {{}}
    BY <1>6, HeldNames
  <2>. QED BY <1>7, <2>1, <2>2, <2>3 DEF Fits
<1>10. Accounted' 
  <2>1. Unoffered' <=> Unoffered BY <1>2 DEF Unoffered
  <2>2. Of("live")' = Of("live") /\ (There("live")' <=> There("live")) BY <1>2
  <2>3. PICK l : l = Of("live") OBVIOUS
  <2>. QED BY <1>9, <2>1, <2>2, <2>3 DEF SkipInv, Accounted
<1>11. Offered'
  <2>1. Of("pending") \cap Bundle' \subseteq Bundle BY <1>6, HeldNames
  <2>. QED BY <1>2, <2>1 DEF SkipInv, Offered
<1>12. run.step = "planned" => PlanKeeps(run)' BY <1>1, <1>2, PlannedStays DEF PlansInv
<1>13. ASSUME NEW w, Left(w) PROVE Left(w)'
  <2>1. \A c \in Packaged : c \in Packaged' /\ (Reconciled(c) => Reconciled(c)')
    BY <1>1, <1>2, <1>3, <1>4 DEF Reconciled
  <2>2. \A l : Covers(l) => Covers(l)' BY <1>9 DEF Covers
  <2>3. TidyLeft(w) => TidyLeft(w)' BY <1>1, <1>2 DEF TidyLeft
  <2>4. RecordLeft(w) => RecordLeft(w)' BY <2>1 DEF RecordLeft
  <2>5. ReplaceLeft(w) => ReplaceLeft(w)' BY <1>4, <2>1, <2>2 DEF ReplaceLeft
  <2>6. \A b : Of("pending") \cap Bundle \subseteq b => (Of("pending") \cap Bundle)' \subseteq b
    <3>1. Of("pending") \cap Bundle' \subseteq Bundle BY <1>6, HeldNames
    <3>. QED BY <1>2, <3>1
  <2>7. OfferLeft(w) => OfferLeft(w)' BY <1>2, <2>1, <2>6 DEF OfferLeft
  <2>8. OfferedLeft(w) => OfferedLeft(w)' BY <1>1, <1>2, <2>1 DEF OfferedLeft
  <2>9. ErrorLeft(w) => ErrorLeft(w)' BY <2>1 DEF ErrorLeft
  <2>. QED BY <1>13, <2>3, <2>4, <2>5, <2>7, <2>8, <2>9 DEF Left
<1>14. run.step = "write" => Left(run.todo)'
  <2>1. PICK w : w = run.todo OBVIOUS
  <2>. QED BY <1>1, <1>13, <2>1 DEF PlansInv
<1>. QED BY <1>1, <1>8, <1>10, <1>11, <1>12, <1>14 DEF SkipInv, PlansInv

LEMMA RestKeepsUp ==
    ASSUME SkipInv, UNCHANGED <<package, file, declined, seen>>, run'.step = "idle"
    PROVE  SkipInv' /\ PlansInv'
  BY DEF SkipInv, FromPackages, Accounted, Offered, IsHeld, Packaged, Fits, Of, There,
         Unoffered, Bundle, PlansInv

LEMMA StepsKeepUp ==
    ASSUME BundlesConstants, EditsInv, SkipInv, PlansInv, BundledNext PROVE SkipInv' /\ PlansInv'
<1>0. Typed BY DEF EditsInv
<1>1. CASE PlanUpgrade BY <1>0, <1>1, PlansKeepUp
<1>2. CASE Apply BY <1>0, <1>2, ApplyingKeepsUp
<1>3. CASE Abort \/ Finish \/ Interrupt
  BY <1>3, RestKeepsUp DEF Abort, Finish, Interrupt, NoRun
<1>4. CASE Seed BY <1>0, <1>4, SeedingKeepsUp
<1>5. CASE Write BY <1>0, <1>5, WritingKeepsUp
<1>6. CASE \/ \E l \in Mine : AddLine(l)
           \/ \E l \in Lines : RemoveLine(l)
           \/ RemoveFile
           \/ \E s \in {"new", "merge"} : MergeByHand(s)
  BY <1>6, EditsKeepUp
<1>7. CASE \E s \in {"new", "merge"} : RemoveSidecar(s) BY <1>0, <1>7, RemovalsKeepUp
<1>8. CASE NewPackage BY <1>0, <1>8, PackagesKeepUp
<1>. QED BY <1>1, <1>2, <1>3, <1>4, <1>5, <1>6, <1>7, <1>8 DEF BundledNext

LEMMA NothingSkippedYet == ASSUME BundlesConstants, BundledInit PROVE SkipInv /\ PlansInv
<1>1. /\ run = NoRun /\ declined = {} /\ seen = {} /\ package = 1
      /\ \A f \in Files \ {"live"} : file[f] = {}
  BY DEF BundledInit
<1>2. \A f \in Held : file[f] = {} /\ Of(f) = {} /\ ~There(f)
  BY <1>1, HeldNames DEF Of, There, Files
<1>3. SkipInv
  BY <1>1, <1>2, HeldNames DEF SkipInv, FromPackages, IsHeld, Accounted, Offered, Fits, Unoffered
<1>. QED BY <1>1, <1>3 DEF PlansInv, NoRun

(* No change of a bundle is skipped for good, wherever a run was interrupted: *)
(* what the baseline says has been reconciled is in the live file, unless the *)
(* operator declined it (plan_reconcile, apply_reconcile, _write_baseline).   *)
THEOREM NoneSkipped == ASSUME BundlesConstants PROVE BundledSpec => []NothingSkipped
<1>. DEFINE Inv == EditsInv /\ SkipInv /\ PlansInv
<1>1. BundledInit => Inv BY Beginning, NothingSkippedYet
<1>2. Inv /\ [BundledNext]_bundledVars => Inv'
  <2>. SUFFICES ASSUME Inv, [BundledNext]_bundledVars PROVE Inv' OBVIOUS
  <2>1. CASE BundledNext BY <2>1, RunSteps, StepsKeepUp
  <2>2. CASE UNCHANGED bundledVars
    <3>1. EditsInv'
      BY <2>2 DEF bundledVars, EditsInv, Typed, NothingOfHis, RunInv, EditsKept, Carried, Copied, Of
    <3>2. SkipInv'
      BY <2>2 DEF bundledVars, SkipInv, FromPackages, Accounted, Offered, IsHeld, Packaged, Fits,
                  Of, There, Unoffered, Bundle
    <3>3. run.step = "planned" => PlanKeeps(run)' BY <2>2, PlannedStays DEF PlansInv,
                                                     bundledVars, There
    <3>4. PICK w : w = run.todo OBVIOUS
    <3>5. run.step = "write" => Left(w)' BY <2>2, <3>4, LeftAlone DEF PlansInv, bundledVars
    <3>. QED BY <2>2, <3>1, <3>2, <3>3, <3>4, <3>5 DEF PlansInv, bundledVars
  <2>. QED BY <2>1, <2>2
<1>3. Inv => NothingSkipped BY DEF SkipInv, Accounted, Fits, NothingSkipped
<1>. QED BY <1>1, <1>2, <1>3, PTL DEF BundledSpec
=============================================================================
