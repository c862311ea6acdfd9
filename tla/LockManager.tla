---------------------------- MODULE LockManager ----------------------------
(***************************************************************************)
(* LockManager of src/oduflow/locking.py: the in-process locks (a          *)
(* threading.Lock per key and per team, the bookkeeping dictionaries       *)
(* guarded by _map_lock) and the advisory file locks that make them hold   *)
(* between server processes, cron workers and the CLI.                     *)
(*                                                                         *)
(* Atomicity.  Everything under _map_lock is atomic for the other threads  *)
(* of the process, except for those blocked in Lock.acquire(blocking) of   *)
(* acquire_env_blocking, which do not take _map_lock.  Other processes see *)
(* only the file locks, so each flock and each close is a step of its own. *)
(*                                                                         *)
(* Definitions marked "Fault:" are plausible bugs; no action uses them.    *)
(* They are put in place of the definition that follows them to see that   *)
(* a property notices.                                                     *)
(*                                                                         *)
(* Abstractions.  A gate file is named by the lock that takes it           *)
(* exclusively (sha256("key:"+k), sha256("team:"+t), sha256("system")).    *)
(* The per-team threading.Lock is taken and released together with         *)
(* membership in _active_team_locks inside one _map_lock section, so the   *)
(* set stands for both.  A refused non-blocking acquire (BusyError before  *)
(* any file is opened) changes nothing and is not a step.  Holder          *)
(* descriptions, ages and progress reports are left out: only *that* a     *)
(* holder is recorded is kept.                                             *)
(***************************************************************************)
EXTENDS Naturals, FiniteSets

CONSTANTS
    Threads, Procs,     \* threads, and the processes sharing the data directory
    procOf,             \* procOf[t]: the process of thread t
    DevKeys,            \* environment names: acquired with a team_id
    ProdKeys,           \* "prod:..." keys, "prod:__cluster__" included
    OtherKeys,          \* every other resource key ("svc:", "vol:", "tpl:", ...)
    Teams, System,      \* team ids, and the system-wide lock
    NoTeam, NoThread,   \* team_id is None; nobody holds _map_lock
    UseFiles,           \* lock_dir is set (it is, in every process that serves)
    MaxHeld,            \* bound: locks one thread holds at a time
    MaxCrashes          \* bound: process deaths

Keys  == DevKeys \cup ProdKeys \cup OtherKeys
Locks == Keys \cup Teams \cup {System}

ASSUME LockConstants ==
    /\ procOf \in [Threads -> Procs]
    /\ IsFiniteSet(Keys)
    /\ DevKeys \cap (ProdKeys \cup OtherKeys) = {} /\ ProdKeys \cap OtherKeys = {}
    /\ Keys \cap Teams = {}
    /\ System \notin Keys \cup Teams
    /\ NoTeam \notin Locks
    /\ NoThread \notin Threads
    /\ UseFiles \in BOOLEAN
    /\ UseFiles \/ \A p, q \in Procs : p = q
    /\ MaxHeld \in Nat /\ MaxCrashes \in Nat

VARIABLES
    mapLock,     \* mapLock[p]: the thread inside _map_lock of process p
    keyMutex,    \* keyMutex[p]: the keys whose threading.Lock is locked
    envTeam,     \* envTeam[p][k]: _env_lock_teams (NoTeam: no entry)
    envCount,    \* envCount[p][tm]: _active_env_counts_by_team (0: no entry)
    envHolders,  \* envHolders[p]: keys of _env_holders
    activeProd,  \* activeProd[p]: _active_prod_keys
    activeTeams, \* activeTeams[p]: _active_team_locks (and the team's Lock)
    sysHolder,   \* sysHolder[p]: _system_holder is set
    files,       \* open lock files: who opened it, for which lock, gate, mode
    pc,          \* where each thread is inside the manager
    call,        \* the acquire or release it is executing
    held,        \* history: the grants callers believe they have
    crashes

procVars == <<mapLock, keyMutex, envTeam, envCount, envHolders, activeProd,
              activeTeams, sysHolder>>
books    == <<envTeam, envCount, envHolders, activeProd, activeTeams, sysHolder>>
vars     == <<procVars, files, pc, call, held, crashes>>

Calls == [lock : Locks, team : Teams \cup {NoTeam}, blocking : BOOLEAN]

Files == [t : Threads, lock : Locks, gate : Locks, mode : {"EX", "SH"}]

Grant(t, c) == [t |-> t, lock |-> c.lock, team |-> c.team]

-----------------------------------------------------------------------------
(* The gate files of one lock, the order they are opened in, their mode.   *)

(* Fault: a production does not lock the system gate.                      *)
NoSystemGate(c) ==
    IF ~ UseFiles THEN {} ELSE {c.lock} \cup {tm \in Teams : tm = c.team}

GateSet(c) ==
    IF ~ UseFiles THEN {}
    ELSE {c.lock}
           \cup {tm \in Teams : tm = c.team}
           \cup {s \in {System} : c.lock \in ProdKeys}

(* Fault: nobody asks for an exclusive lock.                               *)
AlwaysShared(c, g) == "SH"

Mode(c, g) == IF g = c.lock THEN "EX" ELSE "SH"

Opened(t)  == {f \in files : f.t = t /\ f.lock = call[t].lock}
OpenGates(t) == {f.gate : f \in Opened(t)}

(* The key's own gate, then the team's, then the system's.                 *)
First(c, G) == IF c.lock \in G THEN c.lock ELSE IF c.team \in G THEN c.team ELSE System

NextGate(t) == First(call[t], GateSet(call[t]) \ OpenGates(t))

(* flock(2): an exclusive lock excludes every other open file description. *)
Grantable(g, m) == \A f \in files : f.gate = g => m = "SH" /\ f.mode = "SH"

-----------------------------------------------------------------------------
EmptyTable == [k \in Keys |-> NoTeam]
NoCall == [lock |-> System, team |-> NoTeam, blocking |-> FALSE]

Init ==
    /\ mapLock = [p \in Procs |-> NoThread]
    /\ keyMutex = [p \in Procs |-> {}]
    /\ envTeam = [p \in Procs |-> EmptyTable]
    /\ envCount = [p \in Procs |-> [tm \in Teams |-> 0]]
    /\ envHolders = [p \in Procs |-> {}]
    /\ activeProd = [p \in Procs |-> {}]
    /\ activeTeams = [p \in Procs |-> {}]
    /\ sysHolder = [p \in Procs |-> FALSE]
    /\ files = {}
    /\ pc = [t \in Threads |-> "idle"]
    /\ call = [t \in Threads |-> NoCall]
    /\ held = {}
    /\ crashes = 0

MayAcquire(t) == /\ pc[t] = "idle"
                 /\ Cardinality({h \in held : h.t = t}) < MaxHeld

Goto(t, label) == pc' = [pc EXCEPT ![t] = label]
Enter(t)       == /\ mapLock[procOf[t]] = NoThread
                  /\ mapLock' = [mapLock EXCEPT ![procOf[t]] = t]
Leave(t)       == mapLock' = [mapLock EXCEPT ![procOf[t]] = NoThread]
Called(t, l, tm, b) ==
    call' = [call EXCEPT ![t] = [lock |-> l, team |-> tm, blocking |-> b]]
LockKey(t, k)   == keyMutex' = [keyMutex EXCEPT ![procOf[t]] = @ \cup {k}]
UnlockKey(t, k) == keyMutex' = [keyMutex EXCEPT ![procOf[t]] = @ \ {k}]

-----------------------------------------------------------------------------
(* acquire_env: refused when the team or the system excludes the key, or   *)
(* the key's Lock is taken; otherwise it goes on to the gate files.        *)
AcquireEnv(t, k, tm) ==
    LET p == procOf[t] IN
    /\ MayAcquire(t)
    /\ tm \notin activeTeams[p]
    /\ ~ (k \in ProdKeys /\ sysHolder[p])
    /\ k \notin keyMutex[p]
    /\ Enter(t)
    /\ LockKey(t, k)
    /\ Called(t, k, tm, FALSE)
    /\ Goto(t, "gates")
    /\ UNCHANGED <<books, files, held, crashes>>

(* acquire_env_blocking: queue on the key's Lock, outside _map_lock.  Only *)
(* production deploys (webhook, dashboard) call it.                        *)
AcquireEnvBlocking(t, k) ==
    /\ MayAcquire(t)
    /\ Called(t, k, NoTeam, TRUE)
    /\ Goto(t, "wait")
    /\ UNCHANGED <<procVars, files, held, crashes>>

WaitAcquired(t) ==
    /\ pc[t] = "wait"
    /\ call[t].lock \notin keyMutex[procOf[t]]
    /\ LockKey(t, call[t].lock)
    /\ Goto(t, "got")
    /\ UNCHANGED <<mapLock, books, files, call, held, crashes>>

WaitTimeout(t) ==
    /\ pc[t] = "wait"
    /\ Goto(t, "idle")
    /\ UNCHANGED <<procVars, files, call, held, crashes>>

(* With the key's Lock in hand: give up if a system-level operation owns   *)
(* the production keyspace, otherwise try the gate files.                  *)
BlockingTry(t) ==
    /\ pc[t] \in {"got", "retry"}
    /\ ~ sysHolder[procOf[t]]
    /\ Enter(t)
    /\ Goto(t, "gates")
    /\ UNCHANGED <<keyMutex, books, files, call, held, crashes>>

BlockingSkipped(t) ==
    /\ pc[t] \in {"got", "retry"}
    /\ mapLock[procOf[t]] = NoThread
    /\ sysHolder[procOf[t]]
    /\ UnlockKey(t, call[t].lock)
    /\ Goto(t, "idle")
    /\ UNCHANGED <<mapLock, books, files, call, held, crashes>>

(* The deadline passed while another process held the key's file.          *)
RetryTimeout(t) ==
    /\ pc[t] = "retry"
    /\ UnlockKey(t, call[t].lock)
    /\ Goto(t, "idle")
    /\ UNCHANGED <<mapLock, books, files, call, held, crashes>>

(* acquire_team, called directly or by a poll of acquire_team_blocking.    *)
AcquireTeamFrom(t, tm, b) ==
    LET p == procOf[t] IN
    /\ tm \notin activeTeams[p]
    /\ envCount[p][tm] = 0
    /\ Enter(t)
    /\ Called(t, tm, NoTeam, b)
    /\ Goto(t, "gates")
    /\ UNCHANGED <<keyMutex, books, files, held, crashes>>

AcquireTeam(t, tm) == MayAcquire(t) /\ AcquireTeamFrom(t, tm, FALSE)

AcquireTeamBlocking(t, tm) ==
    /\ MayAcquire(t)
    /\ Called(t, tm, NoTeam, TRUE)
    /\ Goto(t, "poll")
    /\ UNCHANGED <<procVars, files, held, crashes>>

PollTeam(t) == pc[t] = "poll" /\ AcquireTeamFrom(t, call[t].lock, TRUE)

PollTimeout(t) ==
    /\ pc[t] = "poll"
    /\ Goto(t, "idle")
    /\ UNCHANGED <<procVars, files, call, held, crashes>>

AcquireSystem(t) ==
    LET p == procOf[t] IN
    /\ MayAcquire(t)
    /\ ~ sysHolder[p]
    /\ activeProd[p] = {}
    /\ Enter(t)
    /\ Called(t, System, NoTeam, FALSE)
    /\ Goto(t, "gates")
    /\ UNCHANGED <<keyMutex, books, files, held, crashes>>

-----------------------------------------------------------------------------
(* _acquire_files, one flock at a time, under _map_lock throughout.        *)
TakeGate(t) ==
    LET g == NextGate(t)
        m == Mode(call[t], g)
    IN
    /\ pc[t] = "gates"
    /\ OpenGates(t) # GateSet(call[t])
    /\ Grantable(g, m)
    /\ files' = files \cup {[t |-> t, lock |-> call[t].lock, gate |-> g, mode |-> m]}
    /\ UNCHANGED <<procVars, pc, call, held, crashes>>

(* Fault: the key's Lock is not given back when a file cannot be locked.   *)
BackOutKeepingKey(t, label) ==
    /\ files' = files \ Opened(t)
    /\ Leave(t)
    /\ Goto(t, label)
    /\ UNCHANGED <<keyMutex, books, call, held, crashes>>

(* Every file opened so far is closed, and the key's Lock is given back,   *)
(* unless the caller keeps it to poll the file (label = "retry").          *)
BackOut(t, label) ==
    /\ files' = files \ Opened(t)
    /\ keyMutex' = IF label = "retry" THEN keyMutex
                   ELSE [keyMutex EXCEPT ![procOf[t]] = @ \ {call[t].lock}]
    /\ Leave(t)
    /\ Goto(t, label)
    /\ UNCHANGED <<books, call, held, crashes>>

(* Fault: a blocking acquire polls the file without leaving _map_lock.     *)
GateBusyInsideMapLock(t) ==
    LET g == NextGate(t) IN
    /\ pc[t] = "gates"
    /\ OpenGates(t) # GateSet(call[t])
    /\ ~ Grantable(g, Mode(call[t], g))
    /\ IF call[t].blocking
       THEN /\ files' = files \ Opened(t)
            /\ Goto(t, "retry")
            /\ UNCHANGED <<procVars, call, held, crashes>>
       ELSE BackOut(t, "idle")

(* _ProcessBusy: another process holds the gate.  A blocking production    *)
(* acquire waits for its key's file but not for the system's; a blocking   *)
(* team acquire polls again; everybody else is refused.                    *)
GateBusy(t) ==
    LET g == NextGate(t)
        c == call[t]
    IN
    /\ pc[t] = "gates"
    /\ OpenGates(t) # GateSet(c)
    /\ ~ Grantable(g, Mode(c, g))
    /\ BackOut(t, IF ~ c.blocking THEN "idle"
                  ELSE IF c.lock \in Teams THEN "poll"
                  ELSE IF g = System THEN "idle" ELSE "retry")

(* The file could not be opened (PrerequisiteNotMetError): always raised.  *)
GateError(t) ==
    /\ pc[t] = "gates"
    /\ OpenGates(t) # GateSet(call[t])
    /\ BackOut(t, "idle")

(* Every gate is open: record the holder and leave _map_lock.              *)
CommitKey(t) ==
    LET p == procOf[t]
        k == call[t].lock
        tm == call[t].team
    IN
    /\ k \in Keys
    /\ envHolders' = [envHolders EXCEPT ![p] = @ \cup {k}]
    /\ activeProd' = [activeProd EXCEPT ![p] = @ \cup ({k} \cap ProdKeys)]
    /\ envTeam' = [envTeam EXCEPT ![p][k] = tm]
    /\ envCount' = IF tm = NoTeam THEN envCount
                   ELSE [envCount EXCEPT ![p][tm] = @ + 1]
    /\ UNCHANGED <<activeTeams, sysHolder>>

CommitTeam(t) ==
    /\ call[t].lock \in Teams
    /\ activeTeams' = [activeTeams EXCEPT ![procOf[t]] = @ \cup {call[t].lock}]
    /\ UNCHANGED <<envTeam, envCount, envHolders, activeProd, sysHolder>>

CommitSystem(t) ==
    /\ call[t].lock = System
    /\ sysHolder' = [sysHolder EXCEPT ![procOf[t]] = TRUE]
    /\ UNCHANGED <<envTeam, envCount, envHolders, activeProd, activeTeams>>

Commit(t) ==
    /\ pc[t] = "gates"
    /\ OpenGates(t) = GateSet(call[t])
    /\ CommitKey(t) \/ CommitTeam(t) \/ CommitSystem(t)
    /\ held' = held \cup {Grant(t, call[t])}
    /\ Leave(t)
    /\ Goto(t, "idle")
    /\ UNCHANGED <<keyMutex, files, call, crashes>>

-----------------------------------------------------------------------------
(* release_env gives the key's Lock back first (a queued deploy may take   *)
(* it at once, then blocks on _map_lock), closes the files one by one, and *)
(* only then forgets the holder.                                           *)
ReleaseEnv(t, h) ==
    /\ pc[t] = "idle"
    /\ h.t = t /\ h.lock \in Keys
    /\ Enter(t)
    /\ UnlockKey(t, h.lock)
    /\ Called(t, h.lock, h.team, FALSE)
    /\ Goto(t, "release")
    /\ held' = held \ {h}
    /\ UNCHANGED <<books, files, crashes>>

CloseGate(t) ==
    /\ pc[t] = "release"
    /\ Opened(t) # {}
    /\ files' = files \ {f \in Opened(t) : f.gate = First(call[t], OpenGates(t))}
    /\ UNCHANGED <<procVars, pc, call, held, crashes>>

ForgetHolder(t) ==
    LET p == procOf[t]
        k == call[t].lock
        tm == envTeam[p][k]
    IN
    /\ pc[t] = "release"
    /\ Opened(t) = {}
    /\ envHolders' = [envHolders EXCEPT ![p] = @ \ {k}]
    /\ activeProd' = [activeProd EXCEPT ![p] = @ \ {k}]
    /\ envTeam' = [envTeam EXCEPT ![p][k] = NoTeam]
    /\ envCount' = IF tm = NoTeam THEN envCount
                   ELSE [envCount EXCEPT ![p][tm] = IF @ > 1 THEN @ - 1 ELSE 0]
    /\ Leave(t)
    /\ Goto(t, "idle")
    /\ UNCHANGED <<keyMutex, activeTeams, sysHolder, files, call, held, crashes>>

(* release_team and release_system are one _map_lock section with a single *)
(* file to close: one step for everybody.                                  *)
ReleaseFilesOf(h) == files' = {f \in files : ~ (f.t = h.t /\ f.lock = h.lock)}

ReleaseTeam(t, h) ==
    /\ pc[t] = "idle"
    /\ h.t = t /\ h.lock \in Teams
    /\ mapLock[procOf[t]] = NoThread
    /\ ReleaseFilesOf(h)
    /\ activeTeams' = [activeTeams EXCEPT ![procOf[t]] = @ \ {h.lock}]
    /\ held' = held \ {h}
    /\ UNCHANGED <<mapLock, keyMutex, envTeam, envCount, envHolders, activeProd,
                   sysHolder, pc, call, crashes>>

ReleaseSystem(t, h) ==
    /\ pc[t] = "idle"
    /\ h.t = t /\ h.lock = System
    /\ mapLock[procOf[t]] = NoThread
    /\ ReleaseFilesOf(h)
    /\ sysHolder' = [sysHolder EXCEPT ![procOf[t]] = FALSE]
    /\ held' = held \ {h}
    /\ UNCHANGED <<mapLock, keyMutex, envTeam, envCount, envHolders, activeProd,
                   activeTeams, pc, call, crashes>>

(* The process is killed: the kernel closes its files, its memory is gone, *)
(* and a new process starts with an empty LockManager.                     *)
Crash(p) ==
    /\ crashes < MaxCrashes
    /\ crashes' = crashes + 1
    /\ files' = {f \in files : procOf[f.t] # p}
    /\ held' = {h \in held : procOf[h.t] # p}
    /\ pc' = [t \in Threads |-> IF procOf[t] = p THEN "idle" ELSE pc[t]]
    /\ mapLock' = [mapLock EXCEPT ![p] = NoThread]
    /\ keyMutex' = [keyMutex EXCEPT ![p] = {}]
    /\ envTeam' = [envTeam EXCEPT ![p] = EmptyTable]
    /\ envCount' = [envCount EXCEPT ![p] = [tm \in Teams |-> 0]]
    /\ envHolders' = [envHolders EXCEPT ![p] = {}]
    /\ activeProd' = [activeProd EXCEPT ![p] = {}]
    /\ activeTeams' = [activeTeams EXCEPT ![p] = {}]
    /\ sysHolder' = [sysHolder EXCEPT ![p] = FALSE]
    /\ UNCHANGED call

-----------------------------------------------------------------------------
(* What a thread does inside the manager, once it has called it.           *)
Internal(t) ==
    \/ WaitAcquired(t) \/ WaitTimeout(t)
    \/ BlockingTry(t) \/ BlockingSkipped(t) \/ RetryTimeout(t)
    \/ PollTeam(t) \/ PollTimeout(t)
    \/ TakeGate(t) \/ GateBusy(t) \/ GateError(t) \/ Commit(t)
    \/ CloseGate(t) \/ ForgetHolder(t)

AcquireCall(t) ==
    \/ \E k \in DevKeys, tm \in Teams : AcquireEnv(t, k, tm)
    \/ \E k \in ProdKeys \cup OtherKeys : AcquireEnv(t, k, NoTeam)
    \/ \E k \in ProdKeys : AcquireEnvBlocking(t, k)
    \/ \E tm \in Teams : AcquireTeam(t, tm) \/ AcquireTeamBlocking(t, tm)
    \/ AcquireSystem(t)

ReleaseCall(t) ==
    \E h \in held : ReleaseEnv(t, h) \/ ReleaseTeam(t, h) \/ ReleaseSystem(t, h)

Next ==
    \/ \E t \in Threads : Internal(t) \/ AcquireCall(t) \/ ReleaseCall(t)
    \/ \E p \in Procs : Crash(p)

Spec == Init /\ [][Next]_vars

(* A running thread is scheduled: inside _map_lock nothing blocks (weak    *)
(* fairness).  A thread that wants _map_lock gets it if it comes free      *)
(* again and again, and the deadline of a poll that goes on for ever       *)
(* passes (strong fairness: both are only intermittently enabled).         *)
Fairness ==
    \A t \in Threads :
      /\ WF_vars(TakeGate(t) \/ GateBusy(t) \/ GateError(t) \/ Commit(t))
      /\ WF_vars(CloseGate(t) \/ ForgetHolder(t))
      /\ WF_vars(WaitTimeout(t))
      /\ SF_vars(BlockingTry(t) \/ BlockingSkipped(t))
      /\ SF_vars(PollTimeout(t))
      /\ SF_vars(RetryTimeout(t))

FairSpec == Spec /\ Fairness

-----------------------------------------------------------------------------
TypeOK ==
    /\ mapLock \in [Procs -> Threads \cup {NoThread}]
    /\ keyMutex \in [Procs -> SUBSET Keys]
    /\ envTeam \in [Procs -> [Keys -> Teams \cup {NoTeam}]]
    /\ envCount \in [Procs -> [Teams -> Nat]]
    /\ envHolders \in [Procs -> SUBSET Keys]
    /\ activeProd \in [Procs -> SUBSET ProdKeys]
    /\ activeTeams \in [Procs -> SUBSET Teams]
    /\ sysHolder \in [Procs -> BOOLEAN]
    /\ files \in SUBSET Files
    /\ pc \in [Threads -> {"idle", "wait", "got", "retry", "poll", "gates", "release"}]
    /\ call \in [Threads -> Calls]
    /\ held \in SUBSET [t : Threads, lock : Locks, team : Teams \cup {NoTeam}]
    /\ crashes \in 0..MaxCrashes

Abstract == INSTANCE LockGrants

(* No two callers, of any threads and processes, ever hold conflicting     *)
(* locks: one resource twice, a team lock together with an environment of  *)
(* that team, the system lock together with a production.                  *)
Exclusion == Abstract!Exclusive(held)

(* The dictionaries say exactly who holds what whenever _map_lock is free: *)
(* a leaked entry would refuse a team or a restart for ever                *)
(* (active_operations), a missing one would let a team operation or a      *)
(* cluster restore start over a running operation.                         *)
BooksMatchHolders ==
    \A p \in Procs : mapLock[p] = NoThread =>
        LET mine == {h \in held : procOf[h.t] = p}
            keys == {h.lock : h \in mine} \cap Keys
        IN
        /\ envHolders[p] = keys
        /\ activeProd[p] = keys \cap ProdKeys
        /\ activeTeams[p] = {h.lock : h \in mine} \cap Teams
        /\ sysHolder[p] <=> \E h \in mine : h.lock = System
        /\ \A k \in Keys \ keys : envTeam[p][k] = NoTeam
        /\ \A h \in mine : h.lock \in Keys => envTeam[p][h.lock] = h.team
        /\ \A tm \in Teams :
             envCount[p][tm] = Cardinality({k \in Keys : envTeam[p][k] = tm})
        /\ keyMutex[p] = keys \cup
             {call[t].lock : t \in {u \in Threads : procOf[u] = p /\ pc[u] \in {"got", "retry"}}}

(* A file stays locked only for a grant, or for the call now taking or     *)
(* releasing it, of a live process: nothing is left behind by a refused    *)
(* acquire, by a crash, or by a release.                                   *)
NoStaleFile ==
    \A f \in files :
        \/ \E h \in held : h.t = f.t /\ h.lock = f.lock
        \/ pc[f.t] \in {"gates", "release"} /\ call[f.t].lock = f.lock

(* Every grant is backed by all of its gate files, in the right mode, from *)
(* the moment the caller has it until it gives it back.                    *)
GrantsHoldGates ==
    \A h \in held :
        LET c == [lock |-> h.lock, team |-> h.team, blocking |-> FALSE] IN
        \A g \in GateSet(c) :
            [t |-> h.t, lock |-> h.lock, gate |-> g, mode |-> Mode(c, g)] \in files

(* Every call of the manager returns, however long the holders keep their  *)
(* locks, in this process or another: nobody waits, sleeps or polls while  *)
(* inside _map_lock, and every wait outside it has its deadline.           *)
CallsReturn == \A t \in Threads : pc[t] # "idle" ~> pc[t] = "idle"

(* The manager implements the abstract grants.                             *)
ImplementsGrants == Abstract!Spec
=============================================================================
