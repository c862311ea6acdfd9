------------------------------ MODULE Handlers ------------------------------
(***************************************************************************)
(* The operations of oduflow side by side.  An MCP tool, a dashboard       *)
(* route, a CLI command or a background job is a plan: the sequence of     *)
(* phases of Phases.tla, each with the locks its thread holds in it and    *)
(* what it reads and changes.  Threads of the server, of the CLI and of    *)
(* the background jobs run any of the plans, in any interleaving, over the *)
(* locks LockGrants promises; a call may end in any phase (it returns      *)
(* early, is refused a lock, raises, gives up waiting, or its process      *)
(* dies), and then holds nothing any more.                                 *)
(***************************************************************************)
EXTENDS Naturals, Sequences, FiniteSets

CONSTANTS
    Threads,
    Plans,       \* a set of plans; a plan is a sequence of phases
    DevKeys, ProdKeys, OtherKeys, Teams, System, NoTeam, \* as in LockGrants
    None         \* a thread that executes nothing

VARIABLES
    plan,        \* plan[t]: the plan thread t executes
    step         \* step[t]: the phase it is in; 0: called, nothing done yet

hvars == <<plan, step>>

Locks == DevKeys \cup ProdKeys \cup OtherKeys \cup Teams \cup {System}

LockRequests == [lock : DevKeys, team : Teams]
                  \cup [lock : Locks \ DevKeys, team : {NoTeam}]

-----------------------------------------------------------------------------
HoldsAt(p, i) == IF i = 0 THEN {} ELSE p[i].holds

Owned(t, G) == {[t |-> t, lock |-> g.lock, team |-> g.team] : g \in G}

(* Every lock held now, with the thread that holds it.                     *)
Held == UNION {Owned(t, HoldsAt(plan[t], step[t])) : t \in Threads}

Granted == INSTANCE LockGrants WITH held <- Held

(* The locks of phase i are granted to t, over those the others hold.      *)
Grants(t, i) ==
    \A g \in Owned(t, HoldsAt(plan[t], i)), h \in Held :
        h.t # t => ~ Granted!Conflict(g, h)

MoreToDo(t) == plan[t] # None /\ step[t] < Len(plan[t])

(* Waiting on a lock that has no deadline: a mutex, an flock.              *)
Stuck(t) == /\ MoreToDo(t)
            /\ plan[t][step[t] + 1].waits = "forever"
            /\ ~ Grants(t, step[t] + 1)

-----------------------------------------------------------------------------
HInit == /\ plan = [t \in Threads |-> None]
         /\ step = [t \in Threads |-> 0]

Call(t) ==
    /\ plan[t] = None
    /\ \E p \in Plans : plan' = [plan EXCEPT ![t] = p]
    /\ UNCHANGED step

Go(t) ==
    /\ MoreToDo(t)
    /\ Grants(t, step[t] + 1)
    /\ step' = [step EXCEPT ![t] = @ + 1]
    /\ UNCHANGED plan

(* Done, or ended before: the finally clauses and context managers (or the *)
(* kernel, if the process dies) give every lock back.                      *)
Leave(t) ==
    /\ plan[t] # None
    /\ ~ Stuck(t)
    /\ plan' = [plan EXCEPT ![t] = None]
    /\ step' = [step EXCEPT ![t] = 0]

HNext == \E t \in Threads : Call(t) \/ Go(t) \/ Leave(t)

HSpec == HInit /\ [][HNext]_hvars

-----------------------------------------------------------------------------
HTypeOK ==
    /\ plan \in [Threads -> Plans \cup {None}]
    /\ step \in [Threads -> Nat]
    /\ \A t \in Threads :
         IF plan[t] = None THEN step[t] = 0 ELSE step[t] \in 0..Len(plan[t])

(* Two phases that must not run side by side: one changes what the other   *)
(* reads or changes.                                                       *)
Interfere(a, b) == \/ a.writes \cap (b.reads \cup b.writes) # {}
                   \/ b.writes \cap a.reads # {}

(* The locking discipline of the tables: two phases of any plans that      *)
(* interfere hold locks that exclude each other.  (Static: what the        *)
(* theorem about Isolated assumes of the tables.)                          *)
Disciplined ==
    \A p, q \in Plans : \A i \in DOMAIN p, j \in DOMAIN q :
        Interfere(p[i], q[j]) =>
            \E g \in p[i].holds, h \in q[j].holds : Granted!Conflict(g, h)

(* Nobody reads or changes a resource while somebody else is changing it:  *)
(* an environment is not stopped while its template is remounted, a volume *)
(* not deleted while a service that mounts it is being created, a          *)
(* snapshot not taken while retention collects, whatever entry points meet *)
(* (locking.py; the spec in specs/0050-granular-resource-locks.md).        *)
Isolated ==
    \A t, u \in Threads :
        t # u /\ plan[t] # None /\ plan[u] # None /\ step[t] # 0 /\ step[u] # 0
        => ~ Interfere(plan[t][step[t]], plan[u][step[u]])

(* The calls use the locks as LockGrants describes them: one lock at a     *)
(* time is taken or given back, or all of a call's at once.                *)
UsesGrants == Granted!Spec
=============================================================================
