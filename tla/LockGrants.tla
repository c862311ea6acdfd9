----------------------------- MODULE LockGrants -----------------------------
(***************************************************************************)
(* What LockManager (src/oduflow/locking.py) promises its callers, with    *)
(* none of its mechanism: a set of grants, in which no two grants          *)
(* conflict.  A grant appears only while no conflicting one exists, and    *)
(* disappears when its thread releases it or its process dies.             *)
(*                                                                         *)
(* A lock is named by the gate it owns exclusively: a key (the canonical   *)
(* name of an environment, or a "prod:"/"svc:"/"tpl:"... resource key), a  *)
(* team id, or System.  `team' is the team_id a key was acquired with.     *)
(***************************************************************************)
CONSTANTS Threads, DevKeys, ProdKeys, OtherKeys, Teams, System, NoTeam

VARIABLE held

Keys  == DevKeys \cup ProdKeys \cup OtherKeys
Locks == Keys \cup Teams \cup {System}

(* Only environment names are acquired with a team_id: the resource keys   *)
(* stay outside the team/environment exclusion.                            *)
Grants ==
    [t : Threads, lock : DevKeys, team : Teams]
      \cup [t : Threads, lock : Locks \ DevKeys, team : {NoTeam}]

(* Two grants that must never coexist: the same lock twice, a team lock    *)
(* with an environment of that team, the system lock with a production.    *)
Conflict(a, b) ==
    \/ a.lock = b.lock
    \/ a.lock \in Teams /\ b.team = a.lock
    \/ b.lock \in Teams /\ a.team = b.lock
    \/ a.lock = System /\ b.lock \in ProdKeys
    \/ b.lock = System /\ a.lock \in ProdKeys

Exclusive(S) == \A a, b \in S : a # b => ~ Conflict(a, b)

Init == held = {}

Grant == \E g \in Grants \ held :
           /\ Exclusive(held \cup {g})
           /\ held' = held \cup {g}

Release == \E g \in held : held' = held \ {g}

(* A process dies: every grant of its threads is gone at once.             *)
Drop == \E T \in SUBSET Threads : held' = {g \in held : g.t \notin T}

Next == Grant \/ Release \/ Drop

Spec == Init /\ [][Next]_held
=============================================================================
