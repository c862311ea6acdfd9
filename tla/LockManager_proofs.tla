------------------------- MODULE LockManager_proofs -------------------------
(* Theorems about LockManager for any threads, processes, keys and teams.  *)
EXTENDS LockManager, FiniteSetTheorems, TLAPS

(* What the assumptions on the constants give.                             *)
LEMMA LockFacts ==
    /\ Keys \subseteq Locks /\ Teams \subseteq Locks /\ System \in Locks
    /\ ProdKeys \subseteq Keys /\ DevKeys \subseteq Keys /\ OtherKeys \subseteq Keys
    /\ NoTeam \notin Teams
BY LockConstants DEF Locks, Keys

(* The gate files of a call are files of locks.                            *)
LEMMA GateSetType ==
    ASSUME NEW c \in Calls
    PROVE  /\ GateSet(c) \subseteq Locks
           /\ \A G \in SUBSET GateSet(c) : First(c, G) \in Locks
           /\ \A G \in SUBSET GateSet(c) : G # {} => First(c, G) \in G
<1>1. c.lock \in Locks /\ c.team \in Teams \cup {NoTeam}
  BY DEF Calls
<1>2. GateSet(c) \subseteq Locks
  BY <1>1, LockFacts DEF GateSet
<1>3. GateSet(c) \subseteq {c.lock, c.team, System}
  BY DEF GateSet
<1> QED
  BY <1>1, <1>2, <1>3, LockFacts DEF First

(* Exactly the environment names are asked for, and granted, with a team.  *)
TeamFits(c) == c.team \in Teams <=> c.lock \in DevKeys

CallsOK ==
    /\ \A t \in Threads :
         /\ TeamFits(call[t])
         /\ call[t].blocking => call[t].lock \in ProdKeys \cup Teams
         /\ pc[t] \in {"wait", "got", "retry"} => call[t].lock \in ProdKeys
         /\ pc[t] = "poll" => call[t].lock \in Teams
         /\ pc[t] = "release" => call[t].lock \in Keys
    /\ \A h \in held : TeamFits(h)

(* Types, and what the call of a thread looks like at each step.           *)
LEMMA Typing == Spec => [](TypeOK /\ CallsOK)
<1> USE LockConstants, LockFacts
<1>1. Init => TypeOK
  BY DEF Init, TypeOK, EmptyTable, NoCall, Calls
<1>2. TypeOK /\ CallsOK /\ [Next]_vars => TypeOK'
  <2> SUFFICES ASSUME TypeOK, CallsOK, [Next]_vars PROVE TypeOK'
    OBVIOUS
  <2> USE DEF TypeOK, procVars, books, Goto, Enter, Leave, Called, LockKey, UnlockKey, Calls
  <2>1. ASSUME NEW t \in Threads, NEW k \in Keys, NEW tm \in Teams \cup {NoTeam},
               AcquireEnv(t, k, tm)
        PROVE TypeOK'
    BY <2>1 DEF AcquireEnv
  <2>2. ASSUME NEW t \in Threads, NEW k \in ProdKeys, AcquireEnvBlocking(t, k)
        PROVE TypeOK'
    BY <2>2 DEF AcquireEnvBlocking
  <2>3. ASSUME NEW t \in Threads, NEW tm \in Teams,
               AcquireTeam(t, tm) \/ AcquireTeamBlocking(t, tm)
        PROVE TypeOK'
    <3>1. CASE AcquireTeam(t, tm)
      BY <3>1 DEF AcquireTeam, AcquireTeamFrom
    <3>2. CASE AcquireTeamBlocking(t, tm)
      BY <3>2 DEF AcquireTeamBlocking
    <3> QED
      BY <2>3, <3>1, <3>2
  <2>4. ASSUME NEW t \in Threads, AcquireSystem(t) PROVE TypeOK'
    BY <2>4 DEF AcquireSystem
  <2>5. ASSUME NEW t \in Threads,
               WaitAcquired(t) \/ WaitTimeout(t) \/ BlockingTry(t) \/ BlockingSkipped(t)
                 \/ RetryTimeout(t) \/ PollTimeout(t)
        PROVE TypeOK'
    <3>1. CASE WaitAcquired(t)
      <4>1. call[t].lock \in Keys
        BY <3>1 DEF WaitAcquired, CallsOK
      <4> QED
        BY <3>1, <4>1 DEF WaitAcquired
    <3>2. CASE WaitTimeout(t) \/ PollTimeout(t)
      BY <3>2 DEF WaitTimeout, PollTimeout
    <3>3. CASE BlockingTry(t)
      BY <3>3 DEF BlockingTry
    <3>4. CASE BlockingSkipped(t)
      BY <3>4 DEF BlockingSkipped
    <3>5. CASE RetryTimeout(t)
      BY <3>5 DEF RetryTimeout
    <3> QED
      BY <2>5, <3>1, <3>2, <3>3, <3>4, <3>5
  <2>6. ASSUME NEW t \in Threads, PollTeam(t) PROVE TypeOK'
    BY <2>6 DEF PollTeam, AcquireTeamFrom
  <2>7. ASSUME NEW t \in Threads, TakeGate(t) PROVE TypeOK'
    <3>1. NextGate(t) \in Locks
      BY GateSetType DEF NextGate
    <3>2. Mode(call[t], NextGate(t)) \in {"EX", "SH"}
      BY DEF Mode
    <3> QED
      BY <2>7, <3>1, <3>2 DEF TakeGate, Files
  <2>8. ASSUME NEW t \in Threads, GateBusy(t) \/ GateError(t) PROVE TypeOK'
    <3>1. ASSUME NEW label \in {"idle", "poll", "retry"}, BackOut(t, label)
          PROVE TypeOK'
      BY <3>1 DEF BackOut
    <3> QED
      BY <2>8, <3>1 DEF GateBusy, GateError
  <2>9. ASSUME NEW t \in Threads, Commit(t) PROVE TypeOK'
    <3>1. held' \in SUBSET [t : Threads, lock : Locks, team : Teams \cup {NoTeam}]
      BY <2>9 DEF Commit, Grant
    <3>2. CASE CommitKey(t)
      BY <2>9, <3>1, <3>2 DEF Commit, CommitKey
    <3>3. CASE CommitTeam(t)
      BY <2>9, <3>1, <3>3 DEF Commit, CommitTeam
    <3>4. CASE CommitSystem(t)
      BY <2>9, <3>1, <3>4 DEF Commit, CommitSystem
    <3> QED
      BY <2>9, <3>2, <3>3, <3>4 DEF Commit
  <2>10. ASSUME NEW t \in Threads, NEW h \in held, ReleaseEnv(t, h) PROVE TypeOK'
    BY <2>10 DEF ReleaseEnv
  <2>11. ASSUME NEW t \in Threads, CloseGate(t) PROVE TypeOK'
    BY <2>11 DEF CloseGate
  <2>12. ASSUME NEW t \in Threads, ForgetHolder(t) PROVE TypeOK'
    <3>1. call[t].lock \in Keys
      BY <2>12 DEF ForgetHolder, CallsOK
    <3> QED
      BY <2>12, <3>1 DEF ForgetHolder
  <2>13. ASSUME NEW t \in Threads, NEW h \in held, ReleaseTeam(t, h) \/ ReleaseSystem(t, h)
         PROVE TypeOK'
    <3>0. files' \subseteq files /\ held' \subseteq held
      BY <2>13 DEF ReleaseTeam, ReleaseSystem, ReleaseFilesOf
    <3>1. CASE ReleaseTeam(t, h)
      <4>1. activeTeams' \in [Procs -> SUBSET Teams]
        BY <3>1 DEF ReleaseTeam
      <4> QED
        BY <3>0, <3>1, <4>1 DEF ReleaseTeam
    <3>2. CASE ReleaseSystem(t, h)
      BY <3>0, <3>2 DEF ReleaseSystem
    <3> QED
      BY <2>13, <3>1, <3>2
  <2>14. ASSUME NEW p \in Procs, Crash(p) PROVE TypeOK'
    BY <2>14 DEF Crash, EmptyTable
  <2>15. CASE UNCHANGED vars
    BY <2>15 DEF vars
  <2> QED
    BY <2>1, <2>2, <2>3, <2>4, <2>5, <2>6, <2>7, <2>8, <2>9, <2>10, <2>11, <2>12, <2>13,
       <2>14, <2>15
    DEF Next, Internal, AcquireCall, ReleaseCall
<1>3. Init => CallsOK
  BY DEF Init, CallsOK, NoCall, TeamFits, Locks, Keys
<1>4. TypeOK /\ CallsOK /\ [Next]_vars => CallsOK'
  <2> SUFFICES ASSUME TypeOK, CallsOK, [Next]_vars PROVE CallsOK'
    OBVIOUS
  <2> USE DEF TypeOK, CallsOK, TeamFits, procVars, books, Goto, Called
  <2>1. ASSUME NEW t \in Threads, NEW k \in Keys, NEW tm \in Teams \cup {NoTeam},
               tm \in Teams <=> k \in DevKeys, AcquireEnv(t, k, tm)
        PROVE CallsOK'
    BY <2>1 DEF AcquireEnv
  <2>2. ASSUME NEW t \in Threads, NEW k \in ProdKeys, AcquireEnvBlocking(t, k)
        PROVE CallsOK'
    BY <2>2 DEF AcquireEnvBlocking, Keys
  <2>3. ASSUME NEW t \in Threads, NEW tm \in Teams, NEW b \in BOOLEAN,
               AcquireTeamFrom(t, tm, b) \/ AcquireTeamBlocking(t, tm)
        PROVE CallsOK'
    <3>1. ~ (tm \in DevKeys)
      BY DEF Keys
    <3>2. CASE AcquireTeamFrom(t, tm, b)
      BY <3>1, <3>2 DEF AcquireTeamFrom
    <3>3. CASE AcquireTeamBlocking(t, tm)
      BY <3>1, <3>3 DEF AcquireTeamBlocking
    <3> QED
      BY <2>3, <3>2, <3>3
  <2>4. ASSUME NEW t \in Threads, AcquireSystem(t) PROVE CallsOK'
    BY <2>4 DEF AcquireSystem, Keys, Locks
  <2>5. ASSUME NEW t \in Threads,
               WaitAcquired(t) \/ WaitTimeout(t) \/ BlockingTry(t) \/ BlockingSkipped(t)
                 \/ RetryTimeout(t) \/ PollTimeout(t) \/ TakeGate(t) \/ CloseGate(t)
                 \/ ForgetHolder(t)
        PROVE CallsOK'
    <3>1. UNCHANGED <<call, held>>
      BY <2>5 DEF WaitAcquired, WaitTimeout, BlockingTry, BlockingSkipped, RetryTimeout,
                  PollTimeout, TakeGate, CloseGate, ForgetHolder
    <3>2. \/ pc' = pc
          \/ pc[t] = "wait" /\ pc' = [pc EXCEPT ![t] = "got"]
          \/ \E l \in {"idle", "gates"} : pc' = [pc EXCEPT ![t] = l]
      BY <2>5 DEF WaitAcquired, WaitTimeout, BlockingTry, BlockingSkipped, RetryTimeout,
                  PollTimeout, TakeGate, CloseGate, ForgetHolder
    <3> QED
      BY <3>1, <3>2
  <2>6. ASSUME NEW t \in Threads, PollTeam(t) PROVE CallsOK'
    BY <2>3, <2>6 DEF PollTeam
  <2>7. ASSUME NEW t \in Threads, GateBusy(t) \/ GateError(t) PROVE CallsOK'
    BY <2>7 DEF GateBusy, GateError, BackOut
  <2>8. ASSUME NEW t \in Threads, Commit(t) PROVE CallsOK'
    BY <2>8 DEF Commit, Grant
  <2>9. ASSUME NEW t \in Threads, NEW h \in held, ReleaseEnv(t, h) PROVE CallsOK'
    BY <2>9 DEF ReleaseEnv
  <2>10. ASSUME NEW t \in Threads, NEW h \in held, ReleaseTeam(t, h) \/ ReleaseSystem(t, h)
         PROVE CallsOK'
    BY <2>10 DEF ReleaseTeam, ReleaseSystem
  <2>11. ASSUME NEW p \in Procs, Crash(p) PROVE CallsOK'
    BY <2>11 DEF Crash
  <2>12. CASE UNCHANGED vars
    BY <2>12 DEF vars
  <2>13. ASSUME NEW t \in Threads, AcquireCall(t) PROVE CallsOK'
    <3>1. \A k \in DevKeys, tm \in Teams : AcquireEnv(t, k, tm) => CallsOK'
      BY <2>1
    <3>2. \A k \in ProdKeys \cup OtherKeys : AcquireEnv(t, k, NoTeam) => CallsOK'
      BY <2>1
    <3> QED
      BY <2>2, <2>3, <2>4, <2>13, <3>1, <3>2 DEF AcquireCall, AcquireTeam
  <2> QED
    BY <2>5, <2>6, <2>7, <2>8, <2>9, <2>10, <2>11, <2>12, <2>13
    DEF Next, Internal, ReleaseCall
<1> QED
  BY <1>1, <1>2, <1>3, <1>4, PTL DEF Spec

(* TypeOK: the dictionaries, the files and the program counters keep their *)
(* types, whatever the interleaving and the crashes.                       *)
THEOREM TypeCorrect == Spec => []TypeOK
BY Typing, PTL

-----------------------------------------------------------------------------
(* _map_lock belongs to the one thread of its process that is at the gates *)
(* or in a release.                                                        *)
MapOwner ==
    /\ \A p \in Procs : mapLock[p] # NoThread =>
         procOf[mapLock[p]] = p /\ pc[mapLock[p]] \in {"gates", "release"}
    /\ \A t \in Threads : pc[t] \in {"gates", "release"} => mapLock[procOf[t]] = t

(* Whoever is inside _map_lock is the thread it records.                   *)
LEMMA MapOwnership == Spec => []MapOwner
<1> USE LockConstants, LockFacts
<1>1. Init => MapOwner
  BY DEF Init, MapOwner
<1>2. TypeOK /\ MapOwner /\ [Next]_vars => MapOwner'
  <2> SUFFICES ASSUME TypeOK, MapOwner, [Next]_vars PROVE MapOwner'
    OBVIOUS
  <2>0. /\ mapLock \in [Procs -> Threads \cup {NoThread}]
        /\ pc \in [Threads -> {"idle", "wait", "got", "retry", "poll", "gates", "release"}]
        /\ procOf \in [Threads -> Procs]
    BY DEF TypeOK
  <2> USE <2>0 DEF MapOwner, Goto, Enter, Leave, procVars
  <2>1. ASSUME NEW t \in Threads, NEW l \in {"gates", "release"}, pc[t] # "release",
               Enter(t), Goto(t, l)
        PROVE MapOwner'
    BY <2>1
  <2>2. ASSUME NEW t \in Threads, NEW l \in {"idle", "poll", "retry"},
               pc[t] \in {"gates", "release"}, Leave(t), Goto(t, l)
        PROVE MapOwner'
    BY <2>2
  <2>3. ASSUME NEW t \in Threads, NEW l \in {"idle", "wait", "got", "poll"},
               pc[t] \notin {"gates", "release"}, UNCHANGED mapLock, Goto(t, l)
        PROVE MapOwner'
    BY <2>3
  <2>4. ASSUME UNCHANGED <<mapLock, pc>> PROVE MapOwner'
    BY <2>4
  <2>5. ASSUME NEW t \in Threads, AcquireCall(t) PROVE MapOwner'
    BY <2>1, <2>3, <2>5 DEF AcquireCall, AcquireEnv, AcquireEnvBlocking, AcquireTeam,
         AcquireTeamFrom, AcquireTeamBlocking, AcquireSystem, MayAcquire
  <2>6. ASSUME NEW t \in Threads, Internal(t) PROVE MapOwner'
    <3>1. CASE BlockingTry(t) \/ PollTeam(t)
      BY <2>1, <3>1 DEF BlockingTry, PollTeam, AcquireTeamFrom
    <3>2. CASE GateBusy(t) \/ GateError(t)
      BY <2>2, <3>2 DEF GateBusy, GateError, BackOut
    <3>3. CASE Commit(t) \/ ForgetHolder(t)
      BY <2>2, <3>3 DEF Commit, ForgetHolder
    <3>4. CASE \/ WaitAcquired(t) \/ WaitTimeout(t) \/ BlockingSkipped(t)
               \/ RetryTimeout(t) \/ PollTimeout(t)
      BY <2>3, <3>4 DEF WaitAcquired, WaitTimeout, BlockingSkipped, RetryTimeout, PollTimeout
    <3>5. CASE TakeGate(t) \/ CloseGate(t)
      BY <2>4, <3>5 DEF TakeGate, CloseGate
    <3> QED
      BY <2>6, <3>1, <3>2, <3>3, <3>4, <3>5 DEF Internal
  <2>7. ASSUME NEW t \in Threads, ReleaseCall(t) PROVE MapOwner'
    BY <2>1, <2>4, <2>7 DEF ReleaseCall, ReleaseEnv, ReleaseTeam, ReleaseSystem
  <2>8. ASSUME NEW p \in Procs, Crash(p) PROVE MapOwner'
    BY <2>8 DEF Crash
  <2> QED
    BY <2>4, <2>5, <2>6, <2>7, <2>8 DEF Next, vars
<1> QED
  BY <1>1, <1>2, Typing, PTL DEF Spec

-----------------------------------------------------------------------------
(* A thread owns the locks it was granted and the one it is acquiring, once *)
(* it has passed the in-process checks.                                     *)
Owns(t, l) ==
    \/ \E h \in held : h.t = t /\ h.lock = l
    \/ pc[t] \in {"got", "retry", "gates"} /\ call[t].lock = l

(* Within a process a lock has one owner, and a key's Lock is locked       *)
(* exactly while it has one.                                               *)
OneOwner ==
    \A t, u \in Threads, l \in Locks :
        procOf[t] = procOf[u] /\ Owns(t, l) /\ Owns(u, l) => t = u

ExactKeys ==
    \A p \in Procs, k \in Keys :
        k \in keyMutex[p] <=> \E t \in Threads : procOf[t] = p /\ Owns(t, k)

(* Nobody acquires what it holds; a lock being released is held by nobody. *)
FreshCalls ==
    \A t \in Threads, h \in held :
        /\ pc[t] \in {"got", "retry", "gates"} /\ h.t = t => h.lock # call[t].lock
        /\ pc[t] = "release" /\ procOf[h.t] = procOf[t] => h.lock # call[t].lock

OneGrant == \A g, h \in held : g.t = h.t /\ g.lock = h.lock => g = h

(* The active teams and the system holder are those of the grants.         *)
ExactWide ==
    \A p \in Procs :
        /\ \A tm \in Teams :
             tm \in activeTeams[p] <=> \E h \in held : procOf[h.t] = p /\ h.lock = tm
        /\ sysHolder[p] <=> \E h \in held : procOf[h.t] = p /\ h.lock = System

Ownership == OneOwner /\ ExactKeys /\ FreshCalls /\ OneGrant /\ ExactWide

(* Ownership is kept while nobody starts or stops owning a lock.           *)
LEMMA OwnersUnchanged ==
    ASSUME OneOwner, ExactKeys, UNCHANGED keyMutex,
           \A u \in Threads, l \in Locks : Owns(u, l)' <=> Owns(u, l)
    PROVE  OneOwner' /\ ExactKeys'
BY LockFacts DEF OneOwner, ExactKeys

(* Ownership is kept when a thread comes to own a lock nobody owned.       *)
LEMMA OwnerGained ==
    ASSUME OneOwner, ExactKeys, TypeOK, NEW t \in Threads, NEW l \in Locks,
           \A u \in Threads : procOf[u] = procOf[t] => ~ Owns(u, l),
           \A u \in Threads, m \in Locks : Owns(u, m)' <=> Owns(u, m) \/ (u = t /\ m = l),
           keyMutex' = [keyMutex EXCEPT ![procOf[t]] = @ \cup ({l} \cap Keys)]
    PROVE  OneOwner' /\ ExactKeys'
<1>1. OneOwner'
  BY DEF OneOwner
<1>2. ExactKeys'
  BY LockFacts, LockConstants DEF ExactKeys, TypeOK
<1> QED
  BY <1>1, <1>2

(* Keys locked in a process, its teams and its wide locks each have one owner.*)
LEMMA Owners == Spec => []Ownership
<1> USE LockConstants, LockFacts
<1>1. Init => Ownership
  BY DEF Init, Ownership, OneOwner, FreshCalls, OneGrant, ExactKeys, ExactWide, Owns
<1>2. TypeOK /\ CallsOK /\ MapOwner /\ Ownership /\ [Next]_vars => Ownership'
  <2> SUFFICES ASSUME TypeOK, CallsOK, MapOwner, Ownership, [Next]_vars
               PROVE  Ownership'
    OBVIOUS
  <2>0. /\ mapLock \in [Procs -> Threads \cup {NoThread}]
        /\ pc \in [Threads -> {"idle", "wait", "got", "retry", "poll", "gates", "release"}]
        /\ procOf \in [Threads -> Procs]
        /\ call \in [Threads -> Calls]
        /\ keyMutex \in [Procs -> SUBSET Keys]
        /\ activeTeams \in [Procs -> SUBSET Teams]
        /\ sysHolder \in [Procs -> BOOLEAN]
        /\ held \subseteq [t : Threads, lock : Locks, team : Teams \cup {NoTeam}]
    BY DEF TypeOK
  <2> USE <2>0 DEF Ownership, Calls
  <2>U. ASSUME UNCHANGED <<held, keyMutex, activeTeams, sysHolder>>,
               \A u \in Threads, l \in Locks : Owns(u, l)' <=> Owns(u, l),
               FreshCalls'
        PROVE  Ownership'
    BY <2>U, OwnersUnchanged DEF OneGrant, ExactWide
  <2>1. ASSUME NEW t \in Threads, NEW k \in Keys, NEW tm \in Teams \cup {NoTeam},
               AcquireEnv(t, k, tm)
        PROVE Ownership'
    <3> USE <2>1 DEF AcquireEnv, MayAcquire, Goto, Called, LockKey, books
    <3>1. \A u \in Threads, m \in Locks : Owns(u, m)' <=> Owns(u, m) \/ (u = t /\ m = k)
      BY DEF Owns
    <3>2. \A u \in Threads : procOf[u] = procOf[t] => ~ Owns(u, k)
      BY DEF ExactKeys
    <3>a. k \in Locks /\ keyMutex' = [keyMutex EXCEPT ![procOf[t]] = @ \cup ({k} \cap Keys)]
      <4>1. {k} \cap Keys = {k} /\ k \in Locks
        OBVIOUS
      <4> QED
        BY <4>1
    <3>3. OneOwner' /\ ExactKeys'
      <4> HIDE <2>1 DEF AcquireEnv
      <4>1. OneOwner'
        BY <3>1, <3>2 DEF OneOwner
      <4>2. ExactKeys'
        BY <3>a, <3>1 DEF ExactKeys
      <4> QED
        BY <4>1, <4>2
    <3>4. FreshCalls'
      BY <3>2 DEF FreshCalls, Owns
    <3> QED
      BY <3>3, <3>4 DEF OneGrant, ExactWide
  <2>2. ASSUME NEW t \in Threads, NEW l \in {"wait", "poll", "idle"},
               pc[t] \in {"idle", "wait", "poll"}, Goto(t, l),
               NEW c \in Calls, call' = [call EXCEPT ![t] = c],
               UNCHANGED <<held, keyMutex, activeTeams, sysHolder>>
        PROVE Ownership'
    BY <2>2, <2>U DEF Owns, FreshCalls, Goto
  <2>3. ASSUME NEW t \in Threads, NEW l \in Teams \cup {System},
               pc[t] \in {"idle", "poll"}, Enter(t), Goto(t, "gates"),
               NEW c \in Calls, c.lock = l, call' = [call EXCEPT ![t] = c],
               \A h \in held : procOf[h.t] = procOf[t] => h.lock # l,
               UNCHANGED <<held, keyMutex, activeTeams, sysHolder>>
        PROVE Ownership'
    <3>1. \A u \in Threads, m \in Locks : Owns(u, m)' <=> Owns(u, m) \/ (u = t /\ m = l)
      BY <2>3 DEF Owns, Goto
    <3>2. \A u \in Threads : procOf[u] = procOf[t] => pc[u] \notin {"gates", "release"}
      BY <2>3 DEF Enter, MapOwner
    <3>3. \A u \in Threads : procOf[u] = procOf[t] => ~ Owns(u, l)
      BY <2>3, <3>2 DEF Owns, CallsOK, Keys
    <3>4. OneOwner' /\ ExactKeys'
      BY <2>3, <3>1, <3>3, OwnerGained DEF Keys
    <3>5. FreshCalls'
      BY <2>3, <3>3 DEF FreshCalls, Owns, Goto
    <3> QED
      BY <2>3, <3>4, <3>5 DEF OneGrant, ExactWide
  <2>4. ASSUME NEW t \in Threads, WaitAcquired(t) PROVE Ownership'
    <3> DEFINE k == call[t].lock
    <3> USE <2>4 DEF WaitAcquired, Goto, LockKey, books
    <3>1. k \in Keys
      BY DEF CallsOK
    <3>2. \A u \in Threads, m \in Locks : Owns(u, m)' <=> Owns(u, m) \/ (u = t /\ m = k)
      BY DEF Owns
    <3>3. \A u \in Threads : procOf[u] = procOf[t] => ~ Owns(u, k)
      BY <3>1 DEF ExactKeys
    <3>a. k \in Locks /\ keyMutex' = [keyMutex EXCEPT ![procOf[t]] = @ \cup ({k} \cap Keys)]
      <4>1. {k} \cap Keys = {k} /\ k \in Locks
        BY <3>1
      <4> QED
        BY <4>1
    <3> HIDE <2>4 DEF k
    <3>4. OneOwner' /\ ExactKeys'
      BY <3>a, <3>2, <3>3, OwnerGained, ZenonT(40)
    <3>5. \A h \in held : h.t = t => h.lock # k
      BY <3>3 DEF Owns
    <3>6. FreshCalls'
      BY <2>4, <3>5 DEF FreshCalls, k
    <3> QED
      BY <2>4, <3>4, <3>6 DEF OneGrant, ExactWide
  <2>5. ASSUME NEW t \in Threads, NEW l \in {"got", "retry", "gates"},
               pc[t] \in {"got", "retry", "gates"}, Goto(t, l),
               UNCHANGED <<call, held, keyMutex, activeTeams, sysHolder>>
        PROVE Ownership'
    BY <2>5, <2>U DEF Owns, FreshCalls, Goto
  <2>6. ASSUME NEW t \in Threads, NEW l \in {"idle", "poll"},
               pc[t] \in {"got", "retry", "gates"}, Goto(t, l), UnlockKey(t, call[t].lock),
               UNCHANGED <<call, held, activeTeams, sysHolder>>
        PROVE Ownership'
    <3>1. \A u \in Threads, m \in Locks :
            Owns(u, m)' <=> Owns(u, m) /\ ~ (u = t /\ m = call[t].lock)
      BY <2>6 DEF Owns, FreshCalls, Goto
    <3>2. Owns(t, call[t].lock)
      BY <2>6 DEF Owns
    <3>a. call[t].lock \in Locks /\ keyMutex' = [keyMutex EXCEPT ![procOf[t]] = @ \ {call[t].lock}]
      BY <2>6 DEF UnlockKey
    <3>3. OneOwner' /\ ExactKeys'
      <4> DEFINE l0 == call[t].lock
      <4>1. /\ l0 \in Locks /\ Owns(t, l0)
            /\ keyMutex' = [keyMutex EXCEPT ![procOf[t]] = @ \ {l0}]
            /\ \A u \in Threads, m \in Locks : Owns(u, m)' <=> Owns(u, m) /\ ~ (u = t /\ m = l0)
        BY <3>a, <3>1, <3>2
      <4> HIDE DEF l0
      <4>2. OneOwner'
        BY <4>1 DEF OneOwner
      <4>3. ExactKeys'
        BY <4>1 DEF ExactKeys, OneOwner
      <4> QED
        BY <4>2, <4>3
    <3>4. FreshCalls'
      BY <2>6 DEF FreshCalls, Goto
    <3> QED
      BY <2>6, <3>3, <3>4 DEF OneGrant, ExactWide
  <2>7. ASSUME NEW t \in Threads, AcquireCall(t) PROVE Ownership'
    <3>1. ASSUME NEW k \in ProdKeys, AcquireEnvBlocking(t, k) PROVE Ownership'
      BY <2>2, <3>1 DEF AcquireEnvBlocking, MayAcquire, Called, Goto, procVars
    <3>2. ASSUME NEW tm \in Teams, AcquireTeamBlocking(t, tm) PROVE Ownership'
      BY <2>2, <3>2 DEF AcquireTeamBlocking, MayAcquire, Called, Goto, procVars
    <3>3. ASSUME NEW tm \in Teams, AcquireTeam(t, tm) PROVE Ownership'
      <4>1. /\ pc[t] = "idle" /\ Enter(t) /\ Goto(t, "gates")
            /\ call' = [call EXCEPT ![t] = [lock |-> tm, team |-> NoTeam, blocking |-> FALSE]]
            /\ tm \notin activeTeams[procOf[t]]
            /\ UNCHANGED <<held, keyMutex, activeTeams, sysHolder>>
        BY <3>3 DEF AcquireTeam, AcquireTeamFrom, MayAcquire, Called, books
      <4>2. \A h \in held : procOf[h.t] = procOf[t] => h.lock # tm
        BY <4>1 DEF ExactWide
      <4> QED
        BY <2>3, <4>1, <4>2
    <3>4. ASSUME AcquireSystem(t) PROVE Ownership'
      <4>1. /\ pc[t] = "idle" /\ Enter(t) /\ Goto(t, "gates")
            /\ call' = [call EXCEPT ![t] = [lock |-> System, team |-> NoTeam, blocking |-> FALSE]]
            /\ ~ sysHolder[procOf[t]]
            /\ UNCHANGED <<held, keyMutex, activeTeams, sysHolder>>
        BY <3>4 DEF AcquireSystem, MayAcquire, Called, books
      <4>2. \A h \in held : procOf[h.t] = procOf[t] => h.lock # System
        BY <4>1 DEF ExactWide
      <4> QED
        BY <2>3, <4>1, <4>2
    <3>5. ASSUME NEW k \in Keys, NEW tm \in Teams \cup {NoTeam}, AcquireEnv(t, k, tm)
          PROVE  Ownership'
      BY <2>1, <3>5
    <3> QED
      BY <2>7, <3>1, <3>2, <3>3, <3>4, <3>5 DEF AcquireCall
  <2>8. ASSUME NEW t \in Threads, PollTeam(t) PROVE Ownership'
    <3>1. /\ pc[t] = "poll" /\ Enter(t) /\ Goto(t, "gates")
          /\ call' = [call EXCEPT ![t] = [lock |-> call[t].lock, team |-> NoTeam, blocking |-> TRUE]]
          /\ call[t].lock \in Teams /\ call[t].lock \notin activeTeams[procOf[t]]
          /\ UNCHANGED <<held, keyMutex, activeTeams, sysHolder>>
      BY <2>8 DEF PollTeam, AcquireTeamFrom, Called, books, CallsOK
    <3>2. \A h \in held : procOf[h.t] = procOf[t] => h.lock # call[t].lock
      BY <3>1 DEF ExactWide
    <3> QED
      BY <2>3, <3>1, <3>2
  <2>9. ASSUME NEW t \in Threads, NEW label \in {"idle", "poll", "retry"},
               pc[t] = "gates", BackOut(t, label)
        PROVE  Ownership'
    <3>1. CASE label = "retry"
      BY <2>5, <2>9, <3>1 DEF BackOut, books
    <3>2. CASE label # "retry"
      BY <2>6, <2>9, <3>2 DEF BackOut, books, UnlockKey
    <3> QED
      BY <3>1, <3>2
  <2>10. ASSUME NEW t \in Threads, GateBusy(t) \/ GateError(t) PROVE Ownership'
    BY <2>9, <2>10 DEF GateBusy, GateError
  <2>11. ASSUME NEW t \in Threads, Commit(t) PROVE Ownership'
    <3> USE <2>11 DEF Commit, Goto, Leave
    <3>1. held' = held \cup {Grant(t, call[t])} /\ Grant(t, call[t]).t = t
            /\ Grant(t, call[t]).lock = call[t].lock
      BY DEF Grant
    <3>2. \A u \in Threads, l \in Locks : Owns(u, l)' <=> Owns(u, l)
      BY <3>1 DEF Owns
    <3>3. OneOwner' /\ ExactKeys'
      BY <3>2, OwnersUnchanged
    <3>4. FreshCalls'
      BY <3>1 DEF FreshCalls, MapOwner, OneOwner, Owns
    <3>5. OneGrant'
      BY <3>1 DEF OneGrant, FreshCalls
    <3>6. ExactWide'
      BY <3>1 DEF ExactWide, CommitKey, CommitTeam, CommitSystem, Keys, Locks
    <3> QED
      BY <3>3, <3>4, <3>5, <3>6
  <2>12. ASSUME NEW t \in Threads, NEW h \in held, ReleaseEnv(t, h) PROVE Ownership'
    <3> USE <2>12 DEF ReleaseEnv, Goto, Called, UnlockKey, books
    <3>1. \A u \in Threads, m \in Locks : Owns(u, m)' <=> Owns(u, m) /\ ~ (u = t /\ m = h.lock)
      BY DEF Owns, OneGrant
    <3>2. Owns(t, h.lock)
      BY DEF Owns
    <3>3. OneOwner'
      BY <3>1 DEF OneOwner
    <3>4. ExactKeys'
      BY <3>1, <3>2 DEF ExactKeys, OneOwner
    <3>5. \A g \in held' : procOf[g.t] = procOf[t] => g.lock # h.lock
      BY <3>2 DEF OneOwner, OneGrant, Owns
    <3>6. FreshCalls'
      BY <3>5 DEF FreshCalls
    <3> QED
      BY <3>3, <3>4, <3>6 DEF OneGrant, ExactWide, Keys, Locks
  <2>13. ASSUME NEW t \in Threads, NEW h \in held, ReleaseTeam(t, h) \/ ReleaseSystem(t, h)
         PROVE  Ownership'
    <3>1. /\ pc[t] = "idle" /\ h.t = t /\ h.lock \in Teams \cup {System}
          /\ held' = held \ {h}
          /\ UNCHANGED <<pc, call, keyMutex>>
      BY <2>13 DEF ReleaseTeam, ReleaseSystem
    <3>2. \A u \in Threads, m \in Locks : Owns(u, m)' <=> Owns(u, m) /\ ~ (u = t /\ m = h.lock)
      BY <3>1 DEF Owns, OneGrant
    <3>3. OneOwner' /\ ExactKeys'
      BY <3>1, <3>2 DEF OneOwner, ExactKeys, Keys
    <3>4. FreshCalls' /\ OneGrant'
      BY <3>1 DEF FreshCalls, OneGrant
    <3>5. \A g \in held : procOf[g.t] = procOf[t] /\ g.lock = h.lock => g = h
      BY <3>1 DEF OneOwner, OneGrant, Owns
    <3>6. ExactWide'
      <4>1. CASE ReleaseTeam(t, h)
        BY <3>1, <3>5, <4>1 DEF ReleaseTeam, ExactWide
      <4>2. CASE ReleaseSystem(t, h)
        BY <3>1, <3>5, <4>2 DEF ReleaseSystem, ExactWide, Keys
      <4> QED
        BY <2>13, <4>1, <4>2
    <3> QED
      BY <3>3, <3>4, <3>6
  <2>14. ASSUME NEW t \in Threads, Internal(t) PROVE Ownership'
    <3>1. CASE WaitTimeout(t) \/ PollTimeout(t)
      BY <2>2, <3>1 DEF WaitTimeout, PollTimeout, procVars
    <3>2. CASE BlockingTry(t)
      BY <2>5, <3>2 DEF BlockingTry, books
    <3>3. CASE BlockingSkipped(t) \/ RetryTimeout(t)
      BY <2>6, <3>3 DEF BlockingSkipped, RetryTimeout, books
    <3>4. CASE TakeGate(t) \/ CloseGate(t)
      BY <3>4, <2>U DEF TakeGate, CloseGate, procVars, Owns, FreshCalls
    <3>5. CASE ForgetHolder(t)
      BY <3>5, <2>U DEF ForgetHolder, Goto, Owns, FreshCalls
    <3> QED
      BY <2>4, <2>8, <2>10, <2>11, <2>14, <3>1, <3>2, <3>3, <3>4, <3>5 DEF Internal
  <2>15. ASSUME NEW p \in Procs, Crash(p) PROVE Ownership'
    <3> USE <2>15 DEF Crash
    <3>1. \A u \in Threads, l \in Locks : Owns(u, l)' <=> Owns(u, l) /\ procOf[u] # p
      BY DEF Owns
    <3>2. OneOwner' /\ ExactKeys'
      BY <3>1 DEF OneOwner, ExactKeys
    <3> QED
      BY <3>2 DEF FreshCalls, OneGrant, ExactWide
  <2>16. CASE UNCHANGED vars
    BY <2>16, <2>U DEF vars, procVars, Owns, FreshCalls
  <2> QED
    BY <2>7, <2>12, <2>13, <2>14, <2>15, <2>16 DEF Next, ReleaseCall
<1> QED
  BY <1>1, <1>2, Typing, MapOwnership, PTL DEF Spec

-----------------------------------------------------------------------------
(* The lock files: at most one exclusive lock or several shared ones on a  *)
(* gate, and the files an acquire has opened so far are gates of its lock, *)
(* in the right mode.                                                      *)
Flocked == \A f, g \in files : f # g /\ f.gate = g.gate => f.mode = "SH" /\ g.mode = "SH"

OpenedFits ==
    \A f \in files : pc[f.t] = "gates" /\ f.lock = call[f.t].lock =>
        f.gate \in GateSet(call[f.t]) /\ f.mode = Mode(call[f.t], f.gate)

FilesInv == Flocked /\ OpenedFits /\ NoStaleFile /\ GrantsHoldGates

(* Open files: one lock per gate, and only the files of a call or a grant. *)
LEMMA FilesInvariant == Spec => []FilesInv
<1> USE LockConstants, LockFacts
<1>1. Init => FilesInv
  BY DEF Init, FilesInv, Flocked, OpenedFits, NoStaleFile, GrantsHoldGates
<1>2. TypeOK /\ CallsOK /\ MapOwner /\ Ownership /\ FilesInv /\ [Next]_vars => FilesInv'
  <2> SUFFICES ASSUME TypeOK, CallsOK, MapOwner, Ownership, FilesInv, [Next]_vars
               PROVE  FilesInv'
    OBVIOUS
  <2>0. /\ pc \in [Threads -> {"idle", "wait", "got", "retry", "poll", "gates", "release"}]
        /\ procOf \in [Threads -> Procs]
        /\ call \in [Threads -> Calls]
        /\ files \subseteq Files
        /\ held \subseteq [t : Threads, lock : Locks, team : Teams \cup {NoTeam}]
    BY DEF TypeOK
  <2> USE <2>0 DEF FilesInv, Files, Calls
  <2>1. ASSUME NEW t \in Threads, NEW l \in {"idle", "wait", "poll", "got"},
               pc[t] \notin {"gates", "release"}, Goto(t, l),
               \A u \in Threads \ {t} : call'[u] = call[u],
               UNCHANGED <<files, held>>
        PROVE FilesInv'
    BY <2>1 DEF Goto, Flocked, OpenedFits, NoStaleFile, GrantsHoldGates
  <2>2. ASSUME NEW t \in Threads, pc[t] \notin {"gates", "release"}, Goto(t, "gates"),
               \A u \in Threads \ {t} : call'[u] = call[u],
               \A h \in held : h.t = t => h.lock # call'[t].lock,
               UNCHANGED <<files, held>>
        PROVE FilesInv'
    BY <2>2 DEF Goto, Flocked, OpenedFits, NoStaleFile, GrantsHoldGates
  <2>3. ASSUME NEW t \in Threads, AcquireCall(t) \/ PollTeam(t) PROVE FilesInv'
    <3>1. CASE \E k \in Keys, tm \in Teams \cup {NoTeam} : AcquireEnv(t, k, tm)
      BY <2>2, <3>1 DEF AcquireEnv, MayAcquire, Called, books, Ownership, ExactKeys, Owns
    <3>2. CASE \E k \in ProdKeys : AcquireEnvBlocking(t, k)
      BY <2>1, <3>2 DEF AcquireEnvBlocking, MayAcquire, Called
    <3>3. CASE \E tm \in Teams : AcquireTeamBlocking(t, tm)
      BY <2>1, <3>3 DEF AcquireTeamBlocking, MayAcquire, Called
    <3>4. CASE \E tm \in Teams, b \in BOOLEAN :
                 pc[t] \in {"idle", "poll"} /\ AcquireTeamFrom(t, tm, b)
      BY <2>2, <3>4 DEF AcquireTeamFrom, Called, books, Ownership, ExactWide
    <3>5. CASE AcquireSystem(t)
      BY <2>2, <3>5 DEF AcquireSystem, MayAcquire, Called, books, Ownership, ExactWide
    <3> QED
      BY <2>3, <3>1, <3>2, <3>3, <3>4, <3>5
      DEF AcquireCall, AcquireTeam, PollTeam, MayAcquire, CallsOK, Keys
  <2>4. ASSUME NEW t \in Threads, BlockingTry(t) PROVE FilesInv'
    BY <2>2, <2>4 DEF BlockingTry, Ownership, FreshCalls
  <2>5. ASSUME NEW t \in Threads, \/ WaitAcquired(t) \/ WaitTimeout(t) \/ BlockingSkipped(t)
                                  \/ RetryTimeout(t) \/ PollTimeout(t)
        PROVE FilesInv'
    BY <2>1, <2>5 DEF WaitAcquired, WaitTimeout, BlockingSkipped, RetryTimeout, PollTimeout
  <2>6. ASSUME NEW t \in Threads, TakeGate(t) PROVE FilesInv'
    <3> DEFINE g == NextGate(t)
               f == [t |-> t, lock |-> call[t].lock, gate |-> g, mode |-> Mode(call[t], g)]
    <3> USE <2>6 DEF TakeGate
    <3>1. files' = files \cup {f}
      OBVIOUS
    <3>2. g \in GateSet(call[t]) /\ g \notin OpenGates(t)
      <4>1. OpenGates(t) \subseteq GateSet(call[t])
        BY DEF OpenGates, Opened, OpenedFits
      <4>2. GateSet(call[t]) \ OpenGates(t) # {}
        BY <4>1
      <4> DEFINE G == GateSet(call[t]) \ OpenGates(t)
      <4>3. First(call[t], G) \in G
        <5>1. G \in SUBSET GateSet(call[t]) /\ G # {} /\ call[t] \in Calls
          BY <4>2
        <5> HIDE DEF G
        <5> QED
          BY <5>1, GateSetType
      <4> QED
        BY <4>3 DEF NextGate
    <3>3. Flocked'
      BY <3>1 DEF Flocked, Grantable
    <3>4. OpenedFits'
      BY <3>1, <3>2 DEF OpenedFits
    <3>5. NoStaleFile' /\ GrantsHoldGates'
      BY <3>1 DEF NoStaleFile, GrantsHoldGates
    <3> QED
      BY <3>3, <3>4, <3>5
  <2>7. ASSUME NEW t \in Threads, NEW label \in {"idle", "poll", "retry"},
               pc[t] = "gates", BackOut(t, label)
        PROVE  FilesInv'
    <3> USE <2>7 DEF BackOut, Goto
    <3>1. Flocked' /\ OpenedFits'
      BY DEF Flocked, OpenedFits
    <3>2. NoStaleFile'
      BY DEF NoStaleFile, Opened
    <3>3. GrantsHoldGates'
      BY DEF GrantsHoldGates, Opened, Ownership, FreshCalls
    <3> QED
      BY <3>1, <3>2, <3>3
  <2>8. ASSUME NEW t \in Threads, GateBusy(t) \/ GateError(t) PROVE FilesInv'
    BY <2>7, <2>8 DEF GateBusy, GateError
  <2>9. ASSUME NEW t \in Threads, Commit(t) PROVE FilesInv'
    <3> USE <2>9 DEF Commit, Goto
    <3>1. Flocked' /\ OpenedFits'
      BY DEF Flocked, OpenedFits
    <3> DEFINE n == Grant(t, call[t])
    <3>2. /\ n.t = t /\ n.lock = call[t].lock /\ n.team = call[t].team
          /\ held' = held \cup {n}
      BY DEF Grant
    <3>3. NoStaleFile'
      BY <3>2 DEF NoStaleFile
    <3>4. ASSUME NEW g \in GateSet(call[t])
          PROVE  [t |-> t, lock |-> call[t].lock, gate |-> g, mode |-> Mode(call[t], g)] \in files
      <4>1. PICK f \in files : f.t = t /\ f.lock = call[t].lock /\ f.gate = g
        BY DEF OpenGates, Opened
      <4>2. f.mode = Mode(call[t], g)
        BY <4>1 DEF OpenedFits
      <4>3. f = [t |-> f.t, lock |-> f.lock, gate |-> f.gate, mode |-> f.mode]
        OBVIOUS
      <4> QED
        BY <4>1, <4>2, <4>3
    <3>5. ASSUME NEW h \in held',
                 NEW g \in GateSet([lock |-> h.lock, team |-> h.team, blocking |-> FALSE])
          PROVE  [t |-> h.t, lock |-> h.lock, gate |-> g,
                  mode |-> Mode([lock |-> h.lock, team |-> h.team, blocking |-> FALSE], g)]
                   \in files
      <4>1. CASE h \in held
        BY <4>1 DEF GrantsHoldGates
      <4>2. CASE h = n
        <5>1. g \in GateSet(call[t])
          BY <3>2, <4>2 DEF GateSet
        <5> QED
          BY <3>2, <3>4, <4>2, <5>1 DEF Mode
      <4> QED
        BY <3>2, <4>1, <4>2
    <3>6. GrantsHoldGates'
      BY <3>5 DEF GrantsHoldGates
    <3> QED
      BY <3>1, <3>3, <3>6
  <2>10. ASSUME NEW t \in Threads, NEW h \in held, ReleaseEnv(t, h) PROVE FilesInv'
    <3> USE <2>10 DEF ReleaseEnv, Goto, Called
    <3>1. Flocked' /\ OpenedFits'
      BY DEF Flocked, OpenedFits
    <3>2. NoStaleFile'
      BY DEF NoStaleFile
    <3>3. GrantsHoldGates'
      BY DEF GrantsHoldGates
    <3> QED
      BY <3>1, <3>2, <3>3
  <2>11. ASSUME NEW t \in Threads, CloseGate(t) PROVE FilesInv'
    <3> USE <2>11 DEF CloseGate
    <3>1. Flocked' /\ OpenedFits' /\ NoStaleFile'
      BY DEF Flocked, OpenedFits, NoStaleFile
    <3>2. \A h \in held : h.t = t => h.lock # call[t].lock
      BY DEF Ownership, FreshCalls
    <3>3. \A f \in files \ files' : f.t = t /\ f.lock = call[t].lock
      BY DEF Opened
    <3>4. GrantsHoldGates'
      BY <3>2, <3>3 DEF GrantsHoldGates
    <3> QED
      BY <3>1, <3>4
  <2>12. ASSUME NEW t \in Threads, ForgetHolder(t) PROVE FilesInv'
    BY <2>12 DEF ForgetHolder, Goto, Opened, Flocked, OpenedFits, NoStaleFile, GrantsHoldGates
  <2>13. ASSUME NEW t \in Threads, NEW h \in held, ReleaseTeam(t, h) \/ ReleaseSystem(t, h)
         PROVE  FilesInv'
    <3>1. /\ h.t = t /\ held' = held \ {h} /\ UNCHANGED <<pc, call>>
          /\ files' = {f \in files : ~ (f.t = h.t /\ f.lock = h.lock)}
      BY <2>13 DEF ReleaseTeam, ReleaseSystem, ReleaseFilesOf
    <3>2. Flocked' /\ OpenedFits'
      BY <3>1 DEF Flocked, OpenedFits
    <3>3. NoStaleFile'
      BY <3>1 DEF NoStaleFile
    <3>4. GrantsHoldGates'
      BY <3>1 DEF GrantsHoldGates, Ownership, OneGrant
    <3> QED
      BY <3>2, <3>3, <3>4
  <2>14. ASSUME NEW p \in Procs, Crash(p) PROVE FilesInv'
    <3> USE <2>14 DEF Crash
    <3>1. Flocked' /\ OpenedFits' /\ NoStaleFile'
      BY DEF Flocked, OpenedFits, NoStaleFile
    <3>2. GrantsHoldGates'
      BY DEF GrantsHoldGates
    <3> QED
      BY <3>1, <3>2
  <2>15. CASE UNCHANGED vars
    BY <2>15 DEF vars, Flocked, OpenedFits, NoStaleFile, GrantsHoldGates
  <2> QED
    BY <2>3, <2>4, <2>5, <2>6, <2>8, <2>9, <2>10, <2>11, <2>12, <2>13, <2>14, <2>15
    DEF Next, Internal, ReleaseCall
<1> QED
  BY <1>1, <1>2, Typing, MapOwnership, Owners, PTL DEF Spec

-----------------------------------------------------------------------------
(* The keys recorded under a team in one process's _env_lock_teams.        *)
Under(tbl, tm) == {k \in Keys : tbl[k] = tm}

(* The size of the set of a team's environments: one is added.             *)
LEMMA CountUp ==
    ASSUME NEW tbl \in [Keys -> Teams \cup {NoTeam}], NEW k \in Keys, tbl[k] = NoTeam,
           NEW tm \in Teams, NEW x \in Teams, NEW new,
           new[k] = tm, \A j \in Keys \ {k} : new[j] = tbl[j]
    PROVE  Cardinality(Under(new, x)) =
             IF x = tm THEN Cardinality(Under(tbl, x)) + 1 ELSE Cardinality(Under(tbl, x))
<1>1. IsFiniteSet(Under(tbl, x))
  BY LockConstants, FS_Subset DEF Under
<1>2. k \notin Under(tbl, x)
  BY LockFacts DEF Under
<1>3. CASE x = tm
  <2>1. Under(new, x) = Under(tbl, x) \cup {k}
    BY <1>3 DEF Under
  <2> QED
    BY <1>1, <1>2, <1>3, <2>1, FS_AddElement
<1>4. CASE x # tm
  <2>1. Under(new, x) = Under(tbl, x)
    BY <1>4, LockFacts DEF Under
  <2> QED
    BY <1>4, <2>1
<1> QED
  BY <1>3, <1>4

(* The same: one is taken away.                                            *)
LEMMA CountDown ==
    ASSUME NEW tbl \in [Keys -> Teams \cup {NoTeam}], NEW k \in Keys, NEW x \in Teams,
           NEW new, new[k] = NoTeam, \A j \in Keys \ {k} : new[j] = tbl[j]
    PROVE  Cardinality(Under(new, x)) =
             IF x = tbl[k] THEN Cardinality(Under(tbl, x)) - 1 ELSE Cardinality(Under(tbl, x))
<1>1. IsFiniteSet(Under(tbl, x))
  BY LockConstants, FS_Subset DEF Under
<1>2. CASE x = tbl[k]
  <2>1. Under(new, x) = Under(tbl, x) \ {k} /\ k \in Under(tbl, x)
    BY <1>2, LockFacts DEF Under
  <2> QED
    BY <1>1, <1>2, <2>1, FS_RemoveElement
<1>3. CASE x # tbl[k]
  <2>1. Under(new, x) = Under(tbl, x)
    BY <1>3, LockFacts DEF Under
  <2> QED
    BY <1>3, <2>1
<1> QED
  BY <1>2, <1>3

(* The same: none is left.                                                 *)
LEMMA CountZero ==
    ASSUME NEW tbl \in [Keys -> Teams \cup {NoTeam}], NEW x \in Teams
    PROVE  /\ Cardinality(Under(tbl, x)) \in Nat
           /\ Cardinality(Under(tbl, x)) = 0 <=> \A k \in Keys : tbl[k] # x
<1>1. IsFiniteSet(Under(tbl, x))
  BY LockConstants, FS_Subset DEF Under
<1> QED
  BY <1>1, FS_CardinalityType, FS_EmptySet DEF Under

(* The same: there was none.                                               *)
LEMMA CountNone ==
    ASSUME NEW x \in Teams PROVE Cardinality(Under(EmptyTable, x)) = 0
<1>1. EmptyTable \in [Keys -> Teams \cup {NoTeam}] /\ \A k \in Keys : EmptyTable[k] # x
  BY LockFacts DEF EmptyTable
<1> QED
  BY <1>1, CountZero

(* A key is recorded in its process from the commit of its acquire to the  *)
(* end of its release.                                                     *)
Recorded(p, k) ==
    \/ \E h \in held : procOf[h.t] = p /\ h.lock = k
    \/ \E t \in Threads : procOf[t] = p /\ pc[t] = "release" /\ call[t].lock = k

(* The dictionaries of the keys are exact, the counts included.            *)
ExactBooks ==
    /\ \A p \in Procs, k \in Keys :
         /\ k \in envHolders[p] <=> Recorded(p, k)
         /\ k \in activeProd[p] <=> k \in ProdKeys /\ k \in envHolders[p]
         /\ k \notin envHolders[p] => envTeam[p][k] = NoTeam
    /\ \A p \in Procs, tm \in Teams : envCount[p][tm] = Cardinality(Under(envTeam[p], tm))
    /\ \A h \in held : h.lock \in Keys => envTeam[procOf[h.t]][h.lock] = h.team

(* The dictionaries say exactly which locks the process holds.             *)
LEMMA BooksInvariant == Spec => []ExactBooks
<1> USE LockConstants, LockFacts
<1>1. Init => ExactBooks
  BY CountNone DEF Init, ExactBooks, Recorded, EmptyTable
<1>2. TypeOK /\ CallsOK /\ MapOwner /\ Ownership /\ ExactBooks /\ [Next]_vars => ExactBooks'
  <2> SUFFICES ASSUME TypeOK, CallsOK, MapOwner, Ownership, ExactBooks, [Next]_vars
               PROVE  ExactBooks'
    OBVIOUS
  <2>0. /\ pc \in [Threads -> {"idle", "wait", "got", "retry", "poll", "gates", "release"}]
        /\ procOf \in [Threads -> Procs]
        /\ call \in [Threads -> Calls]
        /\ envTeam \in [Procs -> [Keys -> Teams \cup {NoTeam}]]
        /\ envCount \in [Procs -> [Teams -> Nat]]
        /\ envHolders \in [Procs -> SUBSET Keys]
        /\ activeProd \in [Procs -> SUBSET ProdKeys]
        /\ held \subseteq [t : Threads, lock : Locks, team : Teams \cup {NoTeam}]
    BY DEF TypeOK
  <2> USE <2>0 DEF Calls
  <2>1. ASSUME UNCHANGED <<envTeam, envCount, envHolders, activeProd>>,
               \A p \in Procs, k \in Keys : Recorded(p, k)' <=> Recorded(p, k),
               \A h \in held' : h.lock \in Keys => h \in held
        PROVE  ExactBooks'
    BY <2>1 DEF ExactBooks
  <2>2. ASSUME NEW t \in Threads, NEW l \in {"idle", "wait", "got", "retry", "poll", "gates"},
               pc[t] # "release", Goto(t, l), \A u \in Threads \ {t} : call'[u] = call[u],
               UNCHANGED <<held, envTeam, envCount, envHolders, activeProd>>
        PROVE  ExactBooks'
    <3>1. \A p \in Procs, k \in Keys : Recorded(p, k)' <=> Recorded(p, k)
      BY <2>2 DEF Recorded, Goto
    <3> QED
      BY <2>2, <3>1, <2>1
  <2>3. ASSUME NEW t \in Threads, AcquireCall(t) PROVE ExactBooks'
    BY <2>2, <2>3 DEF AcquireCall, AcquireEnv, AcquireEnvBlocking, AcquireTeam,
         AcquireTeamBlocking, AcquireTeamFrom, AcquireSystem, MayAcquire, Called,
         procVars, books
  <2>4. ASSUME NEW t \in Threads, NEW label \in {"idle", "poll", "retry"},
               pc[t] = "gates", BackOut(t, label)
        PROVE  ExactBooks'
    BY <2>2, <2>4 DEF BackOut, books
  <2>5. ASSUME NEW t \in Threads,
               \/ WaitAcquired(t) \/ WaitTimeout(t) \/ BlockingTry(t) \/ BlockingSkipped(t)
               \/ RetryTimeout(t) \/ PollTimeout(t) \/ PollTeam(t) \/ GateBusy(t) \/ GateError(t)
        PROVE  ExactBooks'
    <3>1. CASE GateBusy(t) \/ GateError(t)
      BY <2>4, <3>1 DEF GateBusy, GateError
    <3>2. CASE PollTeam(t)
      BY <2>2, <3>2 DEF PollTeam, AcquireTeamFrom, Called, books
    <3>3. CASE \/ WaitAcquired(t) \/ WaitTimeout(t) \/ BlockingTry(t) \/ BlockingSkipped(t)
               \/ RetryTimeout(t) \/ PollTimeout(t)
      BY <2>2, <3>3 DEF WaitAcquired, WaitTimeout, BlockingTry, BlockingSkipped, RetryTimeout,
           PollTimeout, procVars, books
    <3> QED
      BY <2>5, <3>1, <3>2, <3>3
  <2>6. ASSUME NEW t \in Threads, TakeGate(t) \/ CloseGate(t) PROVE ExactBooks'
    BY <2>1, <2>6 DEF TakeGate, CloseGate, procVars, Recorded
  <2>7. ASSUME NEW t \in Threads, NEW h \in held, ReleaseTeam(t, h) \/ ReleaseSystem(t, h)
        PROVE  ExactBooks'
    <3>1. h.lock \notin Keys
      BY <2>7 DEF ReleaseTeam, ReleaseSystem, Keys
    <3> QED
      BY <2>1, <2>7, <3>1 DEF ReleaseTeam, ReleaseSystem, Recorded
  <2>8. ASSUME NEW t \in Threads, NEW h \in held, ReleaseEnv(t, h) PROVE ExactBooks'
    <3> USE <2>8 DEF ReleaseEnv, Goto, Called
    <3>1. \A p \in Procs, k \in Keys : Recorded(p, k)' <=> Recorded(p, k)
      BY DEF Recorded, OneGrant, Ownership
    <3> QED
      BY <3>1, <2>1 DEF books
  <2>9. ASSUME NEW t \in Threads, Commit(t), CommitKey(t) PROVE ExactBooks'
    <3> DEFINE p == procOf[t]
               k == call[t].lock
               tm == call[t].team
    <3>1. /\ k \in Keys /\ p \in Procs /\ tm \in Teams \cup {NoTeam} /\ pc[t] = "gates"
          /\ held' = held \cup {Grant(t, call[t])} /\ Grant(t, call[t]).t = t
          /\ Grant(t, call[t]).lock = k /\ Grant(t, call[t]).team = tm
          /\ envHolders' = [envHolders EXCEPT ![p] = @ \cup {k}]
          /\ activeProd' = [activeProd EXCEPT ![p] = @ \cup ({k} \cap ProdKeys)]
          /\ envTeam' = [envTeam EXCEPT ![p][k] = tm]
          /\ pc' = [pc EXCEPT ![t] = "idle"] /\ call' = call
      BY <2>9 DEF Commit, CommitKey, Grant, Goto
    <3>2. ~ Recorded(p, k)
      <4>1. Owns(t, k) /\ k \in Locks
        BY <3>1 DEF Owns
      <4>2. \A h \in held : ~ (procOf[h.t] = p /\ h.lock = k)
        <5> SUFFICES ASSUME NEW h \in held, procOf[h.t] = p, h.lock = k PROVE FALSE
          OBVIOUS
        <5>1. h.t \in Threads /\ Owns(h.t, k)
          BY DEF Owns, TypeOK
        <5>2. h.t = t
          BY <4>1, <5>1 DEF Ownership, OneOwner
        <5> QED
          BY <3>1, <5>2 DEF Ownership, FreshCalls
      <4>3. \A u \in Threads : ~ (procOf[u] = p /\ pc[u] = "release")
        BY <3>1 DEF MapOwner
      <4> QED
        BY <4>2, <4>3 DEF Recorded
    <3>3. envTeam[p][k] = NoTeam /\ k \notin envHolders[p]
      BY <3>1, <3>2 DEF ExactBooks
    <3>4. \A q \in Procs, j \in Keys : Recorded(q, j)' <=> Recorded(q, j) \/ (q = p /\ j = k)
      <4> SUFFICES ASSUME NEW q \in Procs, NEW j \in Keys
                   PROVE  Recorded(q, j)' <=> Recorded(q, j) \/ (q = p /\ j = k)
        OBVIOUS
      <4> DEFINE Holds(hs) == \E h \in hs : procOf[h.t] = q /\ h.lock = j
                 Frees(u)  == procOf[u] = q /\ pc[u] = "release" /\ call[u].lock = j
      <4>1. Holds(held') <=> Holds(held) \/ (q = p /\ j = k)
        BY <3>1
      <4>2. \A u \in Threads : Frees(u)' <=> Frees(u)
        <5>1. \A u \in Threads : pc'[u] = IF u = t THEN "idle" ELSE pc[u]
          BY <3>1 DEF TypeOK
        <5> QED
          BY <3>1, <5>1
      <4> QED
        BY <4>1, <4>2 DEF Recorded
    <3>5. \A x \in Teams : envCount'[p][x] = Cardinality(Under(envTeam'[p], x))
      <4>0. /\ envTeam[p] \in [Keys -> Teams \cup {NoTeam}] /\ envCount[p] \in [Teams -> Nat]
            /\ \A x \in Teams : envCount[p][x] = Cardinality(Under(envTeam[p], x))
        BY <3>1 DEF ExactBooks
      <4>1. /\ envTeam'[p] = [envTeam[p] EXCEPT ![k] = tm]
            /\ envTeam'[p][k] = tm /\ \A j \in Keys \ {k} : envTeam'[p][j] = envTeam[p][j]
        BY <3>1
      <4>2. CASE tm = NoTeam
        <5>1. envTeam'[p] = envTeam[p]
          BY <3>1, <3>3, <4>1, <4>2
        <5>2. envCount' = envCount
          BY <2>9, <4>2 DEF CommitKey
        <5> QED
          BY <4>0, <5>1, <5>2
      <4>3. CASE tm # NoTeam
        <5>1. envCount' = [envCount EXCEPT ![p][tm] = @ + 1]
          BY <2>9, <4>3 DEF CommitKey
        <5>2. \A x \in Teams : Cardinality(Under(envTeam'[p], x)) =
                IF x = tm THEN envCount[p][x] + 1 ELSE envCount[p][x]
          <6>1. tm \in Teams /\ k \in Keys /\ envTeam[p][k] = NoTeam
            BY <3>1, <3>3, <4>3
          <6> HIDE DEF p, k, tm
          <6>2. \A x \in Teams : Cardinality(Under(envTeam'[p], x)) =
                  IF x = tm THEN Cardinality(Under(envTeam[p], x)) + 1
                  ELSE Cardinality(Under(envTeam[p], x))
            <7>1. PICK tbl, new : tbl = envTeam[p] /\ new = envTeam'[p]
              OBVIOUS
            <7>2. /\ tbl \in [Keys -> Teams \cup {NoTeam}] /\ k \in Keys /\ tbl[k] = NoTeam
                  /\ tm \in Teams /\ new[k] = tm /\ \A j \in Keys \ {k} : new[j] = tbl[j]
              BY <4>0, <4>1, <6>1, <7>1
            <7>3. \A x \in Teams : Cardinality(Under(new, x)) =
                    IF x = tm THEN Cardinality(Under(tbl, x)) + 1 ELSE Cardinality(Under(tbl, x))
              <8> HIDE <2>0, LockConstants, LockFacts
              <8> QED
                BY <7>2, CountUp
            <7> QED
              BY <7>1, <7>3
          <6> QED
            BY <4>0, <6>2
        <5>3. \A x \in Teams : envCount'[p][x] = IF x = tm THEN envCount[p][x] + 1 ELSE envCount[p][x]
          <6>1. tm \in Teams /\ p \in Procs
            BY <3>1, <4>3
          <6> HIDE DEF p, k, tm
          <6> QED
            BY <4>0, <5>1, <6>1
        <5> QED
          BY <5>2, <5>3
      <4> QED
        BY <4>2, <4>3
    <3>6. \A q \in Procs \ {p} : envCount'[q] = envCount[q] /\ envTeam'[q] = envTeam[q]
      BY <2>9, <3>1 DEF CommitKey
    <3>7. \A h \in held' : h.lock \in Keys => envTeam'[procOf[h.t]][h.lock] = h.team
      BY <3>1, <3>2 DEF ExactBooks, Recorded
    <3> HIDE DEF p, k, tm
    <3>8. \A q \in Procs, j \in Keys :
            /\ j \in envHolders'[q] <=> Recorded(q, j)'
            /\ j \in activeProd'[q] <=> j \in ProdKeys /\ j \in envHolders'[q]
            /\ j \notin envHolders'[q] => envTeam'[q][j] = NoTeam
      <4> SUFFICES ASSUME NEW q \in Procs, NEW j \in Keys
                   PROVE  /\ j \in envHolders'[q] <=> Recorded(q, j)'
                          /\ j \in activeProd'[q] <=> j \in ProdKeys /\ j \in envHolders'[q]
                          /\ j \notin envHolders'[q] => envTeam'[q][j] = NoTeam
        OBVIOUS
      <4>1. /\ j \in envHolders[q] <=> Recorded(q, j)
            /\ j \in activeProd[q] <=> j \in ProdKeys /\ j \in envHolders[q]
            /\ j \notin envHolders[q] => envTeam[q][j] = NoTeam
        BY DEF ExactBooks
      <4>2. CASE q = p
        BY <3>1, <3>4, <4>1, <4>2
      <4>3. CASE q # p
        BY <3>1, <3>4, <4>1, <4>3
      <4> QED
        BY <4>2, <4>3
    <3>9. \A q \in Procs, x \in Teams : envCount'[q][x] = Cardinality(Under(envTeam'[q], x))
      <4> SUFFICES ASSUME NEW q \in Procs, NEW x \in Teams, q # p
                   PROVE  envCount'[q][x] = Cardinality(Under(envTeam'[q], x))
        BY <3>5
      <4>1. envCount[q][x] = Cardinality(Under(envTeam[q], x))
        BY DEF ExactBooks
      <4> QED
        BY <4>1, <3>6
    <3> QED
      BY <3>7, <3>8, <3>9 DEF ExactBooks
  <2>10. ASSUME NEW t \in Threads, Commit(t), ~ CommitKey(t) PROVE ExactBooks'
    <3>1. /\ held' = held \cup {Grant(t, call[t])} /\ Grant(t, call[t]).t = t
          /\ Grant(t, call[t]).lock = call[t].lock /\ call[t].lock \notin Keys
          /\ pc[t] = "gates" /\ pc' = [pc EXCEPT ![t] = "idle"] /\ call' = call
          /\ UNCHANGED <<envTeam, envCount, envHolders, activeProd>>
      BY <2>10 DEF Commit, CommitTeam, CommitSystem, Grant, Goto, Keys
    <3>2. \A p \in Procs, k \in Keys : Recorded(p, k)' <=> Recorded(p, k)
      BY <3>1 DEF Recorded
    <3> QED
      BY <3>1, <3>2, <2>1
  <2>11. ASSUME NEW t \in Threads, ForgetHolder(t) PROVE ExactBooks'
    <3> DEFINE p == procOf[t]
               k == call[t].lock
               tm == envTeam[p][k]
    <3>1. /\ k \in Keys /\ p \in Procs /\ tm \in Teams \cup {NoTeam} /\ pc[t] = "release"
          /\ envHolders' = [envHolders EXCEPT ![p] = @ \ {k}]
          /\ activeProd' = [activeProd EXCEPT ![p] = @ \ {k}]
          /\ envTeam' = [envTeam EXCEPT ![p][k] = NoTeam]
          /\ pc' = [pc EXCEPT ![t] = "idle"] /\ call' = call /\ held' = held
      BY <2>11 DEF ForgetHolder, Goto, CallsOK
    <3>2. \A h \in held : procOf[h.t] = p => h.lock # k
      BY <3>1 DEF Ownership, FreshCalls
    <3>3. \A q \in Procs, j \in Keys : Recorded(q, j)' <=> Recorded(q, j) /\ ~ (q = p /\ j = k)
      BY <3>1, <3>2 DEF Recorded, MapOwner
    <3>4. \A x \in Teams : envCount'[p][x] = Cardinality(Under(envTeam'[p], x))
      <4>0. /\ envTeam[p] \in [Keys -> Teams \cup {NoTeam}] /\ envCount[p] \in [Teams -> Nat]
            /\ \A x \in Teams : envCount[p][x] = Cardinality(Under(envTeam[p], x))
            /\ k \in Keys /\ p \in Procs /\ tm = envTeam[p][k] /\ tm \in Teams \cup {NoTeam}
        BY <3>1 DEF ExactBooks
      <4>1. envTeam'[p][k] = NoTeam /\ \A j \in Keys \ {k} : envTeam'[p][j] = envTeam[p][j]
        BY <3>1
      <4>2. \A x \in Teams : Cardinality(Under(envTeam'[p], x)) =
              IF x = tm THEN envCount[p][x] - 1 ELSE envCount[p][x]
        <5> HIDE DEF p, k, tm
        <5>1. \A x \in Teams : Cardinality(Under(envTeam'[p], x)) =
                IF x = envTeam[p][k] THEN Cardinality(Under(envTeam[p], x)) - 1
                ELSE Cardinality(Under(envTeam[p], x))
          <6>1. PICK tbl, new : tbl = envTeam[p] /\ new = envTeam'[p]
            OBVIOUS
          <6>2. /\ tbl \in [Keys -> Teams \cup {NoTeam}] /\ k \in Keys
                /\ new[k] = NoTeam /\ \A j \in Keys \ {k} : new[j] = tbl[j]
            BY <4>0, <4>1, <6>1
          <6>3. \A x \in Teams : Cardinality(Under(new, x)) =
                  IF x = tbl[k] THEN Cardinality(Under(tbl, x)) - 1 ELSE Cardinality(Under(tbl, x))
            <7> HIDE <2>0, LockConstants, LockFacts
            <7> QED
              BY <6>2, CountDown
          <6> QED
            BY <6>1, <6>3
        <5> QED
          BY <4>0, <5>1
      <4>3. tm # NoTeam => envCount[p][tm] > 0
        <5> HIDE DEF p, k, tm
        <5>1. \A x \in Teams : /\ Cardinality(Under(envTeam[p], x)) \in Nat
                               /\ Cardinality(Under(envTeam[p], x)) = 0 <=> \A j \in Keys : envTeam[p][j] # x
          BY <4>0, CountZero, ZenonT(20)
        <5> QED
          BY <4>0, <5>1
      <4>4. tm # NoTeam => envCount' = [envCount EXCEPT ![p][tm] = IF @ > 1 THEN @ - 1 ELSE 0]
        BY <2>11 DEF ForgetHolder
      <4>5. tm = NoTeam => envCount' = envCount
        BY <2>11 DEF ForgetHolder
      <4>6. \A x \in Teams : envCount'[p][x] = IF x = tm THEN envCount[p][x] - 1 ELSE envCount[p][x]
        <5> HIDE DEF p, k, tm
        <5>1. CASE tm = NoTeam
          BY <4>0, <4>5, <5>1
        <5>2. CASE tm # NoTeam
          <6>1. envCount'[p] = [envCount[p] EXCEPT ![tm] = IF @ > 1 THEN @ - 1 ELSE 0]
            BY <4>0, <4>4, <5>2
          <6>2. tm \in Teams /\ envCount[p][tm] \in Nat /\ envCount[p][tm] > 0
            BY <4>0, <4>3, <5>2
          <6> QED
            BY <4>0, <6>1, <6>2
        <5> QED
          BY <5>1, <5>2
      <4> QED
        BY <4>2, <4>6
    <3>5. \A q \in Procs \ {p} : envCount'[q] = envCount[q] /\ envTeam'[q] = envTeam[q]
      BY <2>11, <3>1 DEF ForgetHolder
    <3>6. \A h \in held' : h.lock \in Keys => envTeam'[procOf[h.t]][h.lock] = h.team
      BY <3>1, <3>2 DEF ExactBooks
    <3> HIDE DEF p, k, tm
    <3>7. \A q \in Procs, j \in Keys :
            /\ j \in envHolders'[q] <=> Recorded(q, j)'
            /\ j \in activeProd'[q] <=> j \in ProdKeys /\ j \in envHolders'[q]
            /\ j \notin envHolders'[q] => envTeam'[q][j] = NoTeam
      <4> SUFFICES ASSUME NEW q \in Procs, NEW j \in Keys
                   PROVE  /\ j \in envHolders'[q] <=> Recorded(q, j)'
                          /\ j \in activeProd'[q] <=> j \in ProdKeys /\ j \in envHolders'[q]
                          /\ j \notin envHolders'[q] => envTeam'[q][j] = NoTeam
        OBVIOUS
      <4>1. /\ j \in envHolders[q] <=> Recorded(q, j)
            /\ j \in activeProd[q] <=> j \in ProdKeys /\ j \in envHolders[q]
            /\ j \notin envHolders[q] => envTeam[q][j] = NoTeam
        BY DEF ExactBooks
      <4>2. CASE q = p
        BY <3>1, <3>3, <4>1, <4>2
      <4>3. CASE q # p
        BY <3>1, <3>3, <4>1, <4>3
      <4> QED
        BY <4>2, <4>3
    <3>8. \A q \in Procs, x \in Teams : envCount'[q][x] = Cardinality(Under(envTeam'[q], x))
      <4> SUFFICES ASSUME NEW q \in Procs, NEW x \in Teams, q # p
                   PROVE  envCount'[q][x] = Cardinality(Under(envTeam'[q], x))
        BY <3>4
      <4>1. envCount[q][x] = Cardinality(Under(envTeam[q], x))
        BY DEF ExactBooks
      <4> QED
        BY <4>1, <3>5
    <3> QED
      BY <3>6, <3>7, <3>8 DEF ExactBooks
  <2>12. ASSUME NEW p \in Procs, Crash(p) PROVE ExactBooks'
    <3> USE <2>12 DEF Crash
    <3>1. \A q \in Procs, k \in Keys : Recorded(q, k)' <=> Recorded(q, k) /\ q # p
      BY DEF Recorded
    <3>2. \A tm \in Teams : envCount'[p][tm] = Cardinality(Under(envTeam'[p], tm))
      BY CountNone
    <3>3. \A q \in Procs, tm \in Teams : envCount'[q][tm] = Cardinality(Under(envTeam'[q], tm))
      BY <3>2 DEF ExactBooks
    <3> QED
      BY <3>1, <3>3 DEF ExactBooks, EmptyTable
  <2>13. CASE UNCHANGED vars
    BY <2>1, <2>13 DEF vars, procVars, Recorded
  <2> QED
    BY <2>3, <2>5, <2>6, <2>7, <2>8, <2>9, <2>10, <2>11, <2>12, <2>13
    DEF Next, Internal, ReleaseCall
<1> QED
  BY <1>1, <1>2, Typing, MapOwnership, Owners, PTL DEF Spec

-----------------------------------------------------------------------------
(* While a thread is at the gates, what it checked before going there still *)
(* holds: nobody else of its process can be inside _map_lock.               *)
GateChecks ==
    \A t \in Threads : pc[t] = "gates" =>
        LET p == procOf[t]
            l == call[t].lock
        IN
        /\ l = System => activeProd[p] = {}
        /\ l \in ProdKeys => ~ sysHolder[p]
        /\ l \in Teams => envCount[p][l] = 0
        /\ l \in DevKeys => call[t].team \notin activeTeams[p]

ExclusiveHere ==
    \A a, b \in held : procOf[a.t] = procOf[b.t] /\ a # b => ~ Abstract!Conflict(a, b)

(* What an acquire checked under _map_lock stays true until it is granted. *)
LEMMA ChecksHold == Spec => []GateChecks
<1> USE LockConstants, LockFacts
<1>1. Init => GateChecks
  BY DEF Init, GateChecks
<1>2. TypeOK /\ CallsOK /\ MapOwner /\ GateChecks /\ [Next]_vars => GateChecks'
  <2> SUFFICES ASSUME TypeOK, CallsOK, MapOwner, GateChecks, [Next]_vars
               PROVE  GateChecks'
    OBVIOUS
  <2>0. /\ mapLock \in [Procs -> Threads \cup {NoThread}]
        /\ pc \in [Threads -> {"idle", "wait", "got", "retry", "poll", "gates", "release"}]
        /\ procOf \in [Threads -> Procs]
        /\ call \in [Threads -> Calls]
    BY DEF TypeOK
  <2> USE <2>0 DEF Calls
  <2>1. ASSUME NEW t \in Threads, pc'[t] # "gates",
               \A u \in Threads \ {t} : pc'[u] = pc[u] /\ call'[u] = call[u],
               \A u \in Threads \ {t} : procOf[u] = procOf[t] => pc[u] # "gates",
               \A p \in Procs \ {procOf[t]} :
                 /\ activeProd'[p] = activeProd[p] /\ sysHolder'[p] = sysHolder[p]
                 /\ envCount'[p] = envCount[p] /\ activeTeams'[p] = activeTeams[p]
        PROVE  GateChecks'
    BY <2>1 DEF GateChecks
  <2>2. ASSUME NEW t \in Threads, pc' = [pc EXCEPT ![t] = "gates"],
               NEW l \in Locks, NEW tm \in Teams \cup {NoTeam},
               call'[t].lock = l, call'[t].team = tm,
               \A u \in Threads \ {t} : call'[u] = call[u],
               l = System => activeProd[procOf[t]] = {},
               l \in ProdKeys => ~ sysHolder[procOf[t]],
               l \in Teams => envCount[procOf[t]][l] = 0,
               l \in DevKeys => tm \notin activeTeams[procOf[t]],
               UNCHANGED <<activeProd, sysHolder, envCount, activeTeams>>
        PROVE  GateChecks'
    BY <2>2 DEF GateChecks
  <2>3. ASSUME NEW t \in Threads, pc'[t] # "gates",
               \A u \in Threads \ {t} : pc'[u] = pc[u] /\ call'[u] = call[u],
               UNCHANGED <<activeProd, sysHolder, envCount, activeTeams>>
        PROVE  GateChecks'
    BY <2>3 DEF GateChecks
  <2>4. ASSUME NEW t \in Threads, AcquireCall(t) \/ PollTeam(t) PROVE GateChecks'
    <3>1. ASSUME NEW k \in Keys, NEW tm \in Teams \cup {NoTeam}, AcquireEnv(t, k, tm)
          PROVE  GateChecks'
      <4>1. k \in Locks /\ k # System /\ k \notin Teams
        BY DEF Keys, Locks
      <4>2. /\ pc' = [pc EXCEPT ![t] = "gates"]
            /\ call'[t].lock = k /\ call'[t].team = tm
            /\ \A u \in Threads \ {t} : call'[u] = call[u]
            /\ tm \notin activeTeams[procOf[t]] /\ ~ (k \in ProdKeys /\ sysHolder[procOf[t]])
            /\ UNCHANGED <<activeProd, sysHolder, envCount, activeTeams>>
        BY <3>1 DEF AcquireEnv, Goto, Called, books
      <4> QED
        BY <2>2, <4>1, <4>2
    <3>2. ASSUME NEW tm \in Teams, NEW b \in BOOLEAN, AcquireTeamFrom(t, tm, b)
          PROVE  GateChecks'
      <4>1. tm \in Locks /\ tm # System /\ tm \notin ProdKeys /\ tm \notin DevKeys
        BY DEF Keys, Locks
      <4>2. /\ pc' = [pc EXCEPT ![t] = "gates"]
            /\ call'[t].lock = tm /\ call'[t].team = NoTeam
            /\ \A u \in Threads \ {t} : call'[u] = call[u]
            /\ envCount[procOf[t]][tm] = 0
            /\ UNCHANGED <<activeProd, sysHolder, envCount, activeTeams>>
        BY <3>2 DEF AcquireTeamFrom, Goto, Called, books
      <4> QED
        BY <2>2, <4>1, <4>2
    <3>3. CASE \/ \E k \in ProdKeys : AcquireEnvBlocking(t, k)
               \/ \E tm \in Teams : AcquireTeamBlocking(t, tm)
      BY <2>3, <3>3 DEF AcquireEnvBlocking, AcquireTeamBlocking, Goto, Called, procVars
    <3>4. CASE AcquireSystem(t)
      <4>1. System \notin ProdKeys /\ System \notin DevKeys /\ System \notin Teams
        BY DEF Keys
      <4>2. /\ pc' = [pc EXCEPT ![t] = "gates"]
            /\ call'[t].lock = System /\ call'[t].team = NoTeam
            /\ \A u \in Threads \ {t} : call'[u] = call[u]
            /\ activeProd[procOf[t]] = {}
            /\ UNCHANGED <<activeProd, sysHolder, envCount, activeTeams>>
        BY <3>4 DEF AcquireSystem, Goto, Called, books
      <4> QED
        BY <2>2, <4>1, <4>2
    <3>5. CASE PollTeam(t)
      BY <3>2, <3>5 DEF PollTeam, CallsOK
    <3> QED
      BY <2>4, <3>1, <3>2, <3>3, <3>4, <3>5 DEF AcquireCall, AcquireTeam
  <2>5. ASSUME NEW t \in Threads, BlockingTry(t) PROVE GateChecks'
    <3> DEFINE l == call[t].lock
               tm == call[t].team
    <3>1. /\ l \in ProdKeys /\ l \in Locks /\ tm \in Teams \cup {NoTeam}
          /\ l # System /\ l \notin Teams /\ l \notin DevKeys
      BY <2>5 DEF BlockingTry, CallsOK, Keys
    <3>2. /\ pc' = [pc EXCEPT ![t] = "gates"] /\ call' = call /\ ~ sysHolder[procOf[t]]
          /\ call'[t].lock = l /\ call'[t].team = tm
          /\ UNCHANGED <<activeProd, sysHolder, envCount, activeTeams>>
      BY <2>5 DEF BlockingTry, Goto, books
    <3> HIDE DEF l, tm
    <3> QED
      BY <2>2, <3>1, <3>2
  <2>6. ASSUME NEW t \in Threads, \/ WaitAcquired(t) \/ WaitTimeout(t) \/ BlockingSkipped(t)
                                  \/ RetryTimeout(t) \/ PollTimeout(t)
        PROVE  GateChecks'
    BY <2>3, <2>6 DEF WaitAcquired, WaitTimeout, BlockingSkipped, RetryTimeout, PollTimeout,
         Goto, procVars, books
  <2>7. ASSUME NEW t \in Threads, TakeGate(t) \/ CloseGate(t) PROVE GateChecks'
    BY <2>7 DEF TakeGate, CloseGate, procVars, GateChecks
  <2>8. ASSUME NEW t \in Threads, GateBusy(t) \/ GateError(t) PROVE GateChecks'
    BY <2>3, <2>8 DEF GateBusy, GateError, BackOut, Goto, books
  <2>9. ASSUME NEW t \in Threads, Commit(t) \/ ForgetHolder(t) PROVE GateChecks'
    <3>1. /\ pc[t] \in {"gates", "release"} /\ pc' = [pc EXCEPT ![t] = "idle"] /\ call' = call
      BY <2>9 DEF Commit, ForgetHolder, Goto
    <3>2. \A u \in Threads \ {t} : procOf[u] = procOf[t] => pc[u] # "gates"
      BY <3>1 DEF MapOwner
    <3>3. \A p \in Procs \ {procOf[t]} :
            /\ activeProd'[p] = activeProd[p] /\ sysHolder'[p] = sysHolder[p]
            /\ envCount'[p] = envCount[p] /\ activeTeams'[p] = activeTeams[p]
      BY <2>9 DEF TypeOK, Commit, CommitKey, CommitTeam, CommitSystem, ForgetHolder
    <3> QED
      BY <2>1, <3>1, <3>2, <3>3
  <2>10. ASSUME NEW t \in Threads, NEW h \in held, ReleaseEnv(t, h) PROVE GateChecks'
    BY <2>3, <2>10 DEF ReleaseEnv, Goto, Called, books
  <2>11. ASSUME NEW t \in Threads, NEW h \in held, ReleaseTeam(t, h) \/ ReleaseSystem(t, h)
         PROVE  GateChecks'
    <3>1. /\ pc[t] = "idle" /\ mapLock[procOf[t]] = NoThread /\ UNCHANGED <<pc, call>>
      BY <2>11 DEF ReleaseTeam, ReleaseSystem
    <3>2. \A u \in Threads \ {t} : procOf[u] = procOf[t] => pc[u] # "gates"
      BY <3>1 DEF MapOwner
    <3>3. \A p \in Procs \ {procOf[t]} :
            /\ activeProd'[p] = activeProd[p] /\ sysHolder'[p] = sysHolder[p]
            /\ envCount'[p] = envCount[p] /\ activeTeams'[p] = activeTeams[p]
      BY <2>11 DEF TypeOK, ReleaseTeam, ReleaseSystem
    <3> QED
      BY <2>1, <3>1, <3>2, <3>3
  <2>12. ASSUME NEW p \in Procs, Crash(p) PROVE GateChecks'
    BY <2>12 DEF Crash, GateChecks, TypeOK
  <2>13. CASE UNCHANGED vars
    BY <2>13 DEF vars, procVars, GateChecks
  <2> QED
    BY <2>4, <2>5, <2>6, <2>7, <2>8, <2>9, <2>10, <2>11, <2>12, <2>13
    DEF Next, Internal, ReleaseCall
<1> QED
  BY <1>1, <1>2, Typing, MapOwnership, PTL DEF Spec

(* Only a commit adds a grant, of the lock its thread was acquiring; grants *)
(* go one at a time by a release, or all those of a process by its death.   *)
LEMMA HeldChanges ==
    ASSUME [Next]_vars
    PROVE  \/ held' = held
           \/ \E h \in held : held' = held \ {h}
           \/ \E p \in Procs : held' = {h \in held : procOf[h.t] # p}
           \/ \E t \in Threads : Commit(t) /\ held' = held \cup {Grant(t, call[t])}
<1> DEFINE Changes == \/ held' = held
                      \/ \E h \in held : held' = held \ {h}
                      \/ \E p \in Procs : held' = {h \in held : procOf[h.t] # p}
                      \/ \E t \in Threads : Commit(t) /\ held' = held \cup {Grant(t, call[t])}
<1>1. ASSUME NEW t \in Threads, Internal(t) PROVE Changes
  <2>1. CASE Commit(t)
    BY <2>1 DEF Commit
  <2>2. ASSUME WaitAcquired(t) \/ WaitTimeout(t) \/ PollTimeout(t) PROVE held' = held
    BY <2>2 DEF WaitAcquired, WaitTimeout, PollTimeout
  <2>3. ASSUME BlockingTry(t) \/ BlockingSkipped(t) \/ RetryTimeout(t) PROVE held' = held
    BY <2>3 DEF BlockingTry, BlockingSkipped, RetryTimeout
  <2>4. CASE PollTeam(t)
    BY <2>4 DEF PollTeam, AcquireTeamFrom
  <2>5. CASE GateBusy(t)
    BY <2>5 DEF GateBusy, BackOut
  <2>6. CASE GateError(t)
    BY <2>6 DEF GateError, BackOut
  <2>7. ASSUME TakeGate(t) \/ CloseGate(t) \/ ForgetHolder(t) PROVE held' = held
    BY <2>7 DEF TakeGate, CloseGate, ForgetHolder
  <2> QED
    BY <1>1, <2>1, <2>2, <2>3, <2>4, <2>5, <2>6, <2>7 DEF Internal
<1>2. ASSUME NEW t \in Threads, AcquireCall(t) PROVE held' = held
  <2>1. ASSUME NEW k, NEW tm, AcquireEnv(t, k, tm) \/ AcquireEnvBlocking(t, k)
        PROVE  held' = held
    BY <2>1 DEF AcquireEnv, AcquireEnvBlocking
  <2>2. ASSUME NEW tm, AcquireTeam(t, tm) \/ AcquireTeamBlocking(t, tm)
        PROVE  held' = held
    BY <2>2 DEF AcquireTeam, AcquireTeamFrom, AcquireTeamBlocking
  <2>3. CASE AcquireSystem(t)
    BY <2>3 DEF AcquireSystem
  <2> QED
    BY <1>2, <2>1, <2>2, <2>3 DEF AcquireCall
<1>3. ASSUME NEW t \in Threads, NEW h \in held,
             ReleaseEnv(t, h) \/ ReleaseTeam(t, h) \/ ReleaseSystem(t, h)
      PROVE  held' = held \ {h}
  BY <1>3 DEF ReleaseEnv, ReleaseTeam, ReleaseSystem
<1>4. ASSUME NEW p \in Procs, Crash(p) PROVE held' = {h \in held : procOf[h.t] # p}
  BY <1>4 DEF Crash
<1>5. CASE UNCHANGED vars
  BY <1>5 DEF vars
<1> QED
  BY <1>1, <1>2, <1>3, <1>4, <1>5 DEF Next, ReleaseCall

(* Within one process, grants exclude each other.                          *)
LEMMA ExclusionHere == Spec => []ExclusiveHere
<1> USE LockConstants, LockFacts
<1>1. Init => ExclusiveHere
  BY DEF Init, ExclusiveHere
<1>2. TypeOK /\ CallsOK /\ MapOwner /\ Ownership /\ ExactBooks /\ GateChecks /\ ExclusiveHere
        /\ [Next]_vars => ExclusiveHere'
  <2> SUFFICES ASSUME TypeOK, CallsOK, MapOwner, Ownership, ExactBooks, GateChecks,
                      ExclusiveHere, [Next]_vars
               PROVE  ExclusiveHere'
    OBVIOUS
  <2>1. CASE held' \subseteq held
    BY <2>1 DEF ExclusiveHere
  <2>2. ASSUME NEW t \in Threads, Commit(t), held' = held \cup {Grant(t, call[t])}
        PROVE  ExclusiveHere'
    <3> DEFINE n == Grant(t, call[t])
               l == call[t].lock
               p == procOf[t]
    <3>1. /\ n.t = t /\ n.lock = l /\ n.team = call[t].team /\ pc[t] = "gates"
          /\ l \in Locks /\ p \in Procs /\ n.team \in Teams \cup {NoTeam}
          /\ n.team \in Teams <=> l \in DevKeys
      BY <2>2 DEF Commit, Grant, TypeOK, Calls, CallsOK, TeamFits
    <3>2. ASSUME NEW h \in held, procOf[h.t] = p
          PROVE  ~ Abstract!Conflict(n, h) /\ ~ Abstract!Conflict(h, n)
      <4>0. /\ h.t \in Threads /\ h.lock \in Locks /\ h.team \in Teams \cup {NoTeam}
            /\ h.team \in Teams <=> h.lock \in DevKeys
        BY DEF TypeOK, CallsOK, TeamFits
      <4>1. h.lock # l
        <5>1. Owns(h.t, h.lock) /\ Owns(t, l)
          BY <3>1 DEF Owns
        <5>2. h.t = t => h.lock # l
          BY <3>1 DEF Ownership, FreshCalls
        <5> QED
          BY <3>1, <3>2, <4>0, <5>1, <5>2 DEF Ownership, OneOwner
      <4>2. ~ (l \in Teams /\ h.team = l)
        <5> SUFFICES ASSUME l \in Teams, h.team = l PROVE FALSE
          OBVIOUS
        <5>1. h.lock \in Keys /\ envTeam[p][h.lock] = l
          BY <3>2, <4>0 DEF ExactBooks
        <5>2. envCount[p][l] = 0 /\ envCount[p][l] = Cardinality(Under(envTeam[p], l))
          BY <3>1 DEF GateChecks, ExactBooks
        <5>3. envTeam[p] \in [Keys -> Teams \cup {NoTeam}]
          BY <3>1 DEF TypeOK
        <5> QED
          BY <5>1, <5>2, <5>3, CountZero
      <4>3. ~ (h.lock \in Teams /\ n.team = h.lock)
        BY <3>1, <3>2, <4>0 DEF GateChecks, Ownership, ExactWide
      <4>4. ~ (l = System /\ h.lock \in ProdKeys)
        BY <3>1, <3>2, <4>0 DEF GateChecks, ExactBooks, Recorded
      <4>5. ~ (h.lock = System /\ l \in ProdKeys)
        BY <3>1, <3>2, <4>0 DEF GateChecks, Ownership, ExactWide
      <4> QED
        BY <3>1, <4>1, <4>2, <4>3, <4>4, <4>5 DEF Abstract!Conflict
    <3> HIDE DEF n, p, l
    <3> QED
      BY <2>2, <3>1, <3>2 DEF ExclusiveHere, n, p
  <2> QED
    BY <2>1, <2>2, HeldChanges
<1> QED
  BY <1>1, <1>2, Typing, MapOwnership, Owners, BooksInvariant, ChecksHold, PTL DEF Spec

-----------------------------------------------------------------------------
(* Exclusion: no two callers hold conflicting locks.  Between the threads  *)
(* of one process the dictionaries of LockManager see to it, between       *)
(* processes the gate files.                                               *)
THEOREM MutualExclusion == Spec => []Exclusion
<1>1. TypeOK /\ CallsOK /\ Ownership /\ FilesInv /\ ExclusiveHere => Exclusion
  <2> SUFFICES ASSUME TypeOK, CallsOK, Ownership, FilesInv, ExclusiveHere,
                      NEW a \in held, NEW b \in held, a # b, Abstract!Conflict(a, b)
               PROVE  FALSE
    BY DEF Exclusion, Abstract!Exclusive
  <2>0. /\ a.t \in Threads /\ a.lock \in Locks /\ a.team \in Teams \cup {NoTeam}
        /\ b.t \in Threads /\ b.lock \in Locks /\ b.team \in Teams \cup {NoTeam}
    BY DEF TypeOK
  <2>1. CASE ~ UseFiles
    BY <2>0, <2>1, LockConstants DEF ExclusiveHere
  <2>2. CASE UseFiles
    <3> DEFINE Gates(h) == GateSet([lock |-> h.lock, team |-> h.team, blocking |-> FALSE])
               File(h, g) == [t |-> h.t, lock |-> h.lock, gate |-> g,
                              mode |-> IF g = h.lock THEN "EX" ELSE "SH"]
    <3>1. \A h \in held : \A g \in Gates(h) : File(h, g) \in files
      BY DEF FilesInv, GrantsHoldGates, Mode
    <3>2. \A h \in held : /\ h.lock \in Gates(h)
                          /\ h.team \in Teams => h.team \in Gates(h)
                          /\ h.lock \in ProdKeys => System \in Gates(h)
      BY <2>2 DEF GateSet
    <3>3. PICK g : g \in Gates(a) /\ g \in Gates(b) /\ (g = a.lock \/ g = b.lock)
      BY <2>0, <3>2 DEF Abstract!Conflict
    <3>4. File(a, g) \in files /\ File(b, g) \in files
      BY <3>1, <3>3
    <3>5. File(a, g) = File(b, g)
      BY <3>3, <3>4 DEF FilesInv, Flocked
    <3>6. a.t = b.t /\ a.lock = b.lock
      BY <3>5
    <3> QED
      BY <3>6 DEF Ownership, OneGrant
  <2> QED
    BY <2>1, <2>2
<1> QED
  BY <1>1, Typing, Owners, FilesInvariant, ExclusionHere, PTL

(* NoStaleFile: a lock file stays locked only for a live grant or call.    *)
THEOREM NoFileLeaks == Spec => []NoStaleFile
<1>1. FilesInv => NoStaleFile
  BY DEF FilesInv
<1> QED
  BY <1>1, FilesInvariant, PTL

(* GrantsHoldGates: a grant is backed by all its gate files while it lasts. *)
THEOREM GrantsAreBacked == Spec => []GrantsHoldGates
<1>1. FilesInv => GrantsHoldGates
  BY DEF FilesInv
<1> QED
  BY <1>1, FilesInvariant, PTL

(* BooksMatchHolders: whenever _map_lock is free the dictionaries list     *)
(* exactly the grants of their process.                                    *)
THEOREM BooksAreExact == Spec => []BooksMatchHolders
<1>1. TypeOK /\ CallsOK /\ MapOwner /\ Ownership /\ ExactBooks => BooksMatchHolders
  <2> SUFFICES ASSUME TypeOK, CallsOK, MapOwner, Ownership, ExactBooks,
                      NEW p \in Procs, mapLock[p] = NoThread
               PROVE  LET mine == {h \in held : procOf[h.t] = p}
                          keys == {h.lock : h \in mine} \cap Keys
                      IN
                      /\ envHolders[p] = keys
                      /\ activeProd[p] = keys \cap ProdKeys
                      /\ activeTeams[p] = {h.lock : h \in mine} \cap Teams
                      /\ sysHolder[p] <=> \E h \in mine : h.lock = System
                      /\ \A k \in Keys \ keys : envTeam[p][k] = NoTeam
                      /\ \A h \in mine : h.lock \in Keys => envTeam[p][h.lock] = h.team
                      /\ \A tm \in Teams :
                           envCount[p][tm] = Cardinality({k \in Keys : envTeam[p][k] = tm})
                      /\ keyMutex[p] = keys \cup
                           {call[t].lock : t \in {u \in Threads : procOf[u] = p
                                                    /\ pc[u] \in {"got", "retry"}}}
    BY DEF BooksMatchHolders
  <2> DEFINE mine == {h \in held : procOf[h.t] = p}
             keys == {h.lock : h \in mine} \cap Keys
             waiting == {u \in Threads : procOf[u] = p /\ pc[u] \in {"got", "retry"}}
  <2>0. /\ held \subseteq [t : Threads, lock : Locks, team : Teams \cup {NoTeam}]
        /\ envHolders[p] \subseteq Keys /\ activeProd[p] \subseteq ProdKeys
        /\ activeTeams[p] \subseteq Teams /\ keyMutex[p] \subseteq Keys
        /\ ProdKeys \subseteq Keys /\ Keys \subseteq Locks
    BY LockFacts DEF TypeOK
  <2>1. \A t \in Threads : procOf[t] = p => pc[t] \notin {"gates", "release"}
    BY LockConstants DEF MapOwner
  <2>2. \A k \in Keys : Recorded(p, k) <=> k \in keys
    BY <2>1 DEF Recorded
  <2>3. envHolders[p] = keys /\ activeProd[p] = keys \cap ProdKeys
    BY <2>0, <2>2 DEF ExactBooks
  <2>4. activeTeams[p] = {h.lock : h \in mine} \cap Teams
    BY <2>0 DEF Ownership, ExactWide
  <2>5. sysHolder[p] <=> \E h \in mine : h.lock = System
    BY DEF Ownership, ExactWide
  <2>6. /\ \A k \in Keys \ keys : envTeam[p][k] = NoTeam
        /\ \A h \in mine : h.lock \in Keys => envTeam[p][h.lock] = h.team
    BY <2>2 DEF ExactBooks
  <2>7. \A tm \in Teams : envCount[p][tm] = Cardinality({k \in Keys : envTeam[p][k] = tm})
    BY DEF ExactBooks, Under
  <2>8. keyMutex[p] = keys \cup {call[t].lock : t \in waiting}
    <3>1. \A k \in Keys : k \in keyMutex[p] <=> k \in keys \/ \E t \in waiting : call[t].lock = k
      BY <2>0, <2>1 DEF Ownership, ExactKeys, Owns
    <3>2. \A t \in waiting : call[t].lock \in Keys
      BY <2>0 DEF CallsOK
    <3> QED
      BY <2>0, <3>1, <3>2
  <2> QED
    BY <2>3, <2>4, <2>5, <2>6, <2>7, <2>8
<1> QED
  BY <1>1, Typing, MapOwnership, Owners, BooksInvariant, PTL

(* ImplementsGrants: to its callers the manager, which takes its gates one  *)
(* file at a time, is the atomic grants of LockGrants.                      *)
THEOREM Refinement == Spec => ImplementsGrants
<1>1. Init => Abstract!Init
  BY DEF Init, Abstract!Init
<1>2. TypeOK /\ CallsOK /\ Ownership /\ Exclusion' /\ [Next]_vars => [Abstract!Next]_held
  <2> SUFFICES ASSUME TypeOK, CallsOK, Ownership, Exclusion', [Next]_vars
               PROVE  [Abstract!Next]_held
    OBVIOUS
  <2>1. ASSUME NEW h \in held, held' = held \ {h} PROVE Abstract!Next
    BY <2>1 DEF Abstract!Next, Abstract!Release
  <2>2. ASSUME NEW p \in Procs, held' = {h \in held : procOf[h.t] # p} PROVE Abstract!Next
    <3>1. held' = {h \in held : h.t \notin {t \in Threads : procOf[t] = p}}
      BY <2>2 DEF TypeOK
    <3> QED
      BY <3>1 DEF Abstract!Next, Abstract!Drop
  <2>3. ASSUME NEW t \in Threads, Commit(t), held' = held \cup {Grant(t, call[t])}
        PROVE  Abstract!Next
    <3> DEFINE n == Grant(t, call[t])
    <3>1. /\ n = [t |-> t, lock |-> call[t].lock, team |-> call[t].team] /\ pc[t] = "gates"
          /\ call[t].lock \in Locks /\ call[t].team \in Teams \cup {NoTeam}
          /\ call[t].team \in Teams <=> call[t].lock \in DevKeys
      BY <2>3 DEF Commit, Grant, TypeOK, Calls, CallsOK, TeamFits
    <3>2. n \in Abstract!Grants
      BY <3>1 DEF Abstract!Grants, Abstract!Locks, Abstract!Keys, Locks, Keys
    <3>3. n \notin held
      BY <3>1 DEF Ownership, FreshCalls
    <3>4. Abstract!Exclusive(held \cup {n})
      BY <2>3 DEF Exclusion, Abstract!Exclusive
    <3> HIDE DEF n
    <3> QED
      BY <2>3, <3>2, <3>3, <3>4 DEF Abstract!Next, Abstract!Grant, n
  <2> QED
    BY <2>1, <2>2, <2>3, HeldChanges
<1> QED
  BY <1>1, <1>2, Typing, Owners, MutualExclusion, PTL
  DEF Spec, ImplementsGrants, Abstract!Spec
=============================================================================
