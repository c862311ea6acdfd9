-------------------------- MODULE Handlers_proofs ---------------------------
(***************************************************************************)
(* For any tables, any number of threads and any locks: if the tables      *)
(* follow the locking discipline, no two calls interfere, in any           *)
(* interleaving.  The locks two calls hold never conflict (Apart), since a *)
(* phase is entered only when its locks are granted; two phases that       *)
(* interfere would hold conflicting ones.                                  *)
(***************************************************************************)
EXTENDS Handlers, TLAPS

(* What the tables are: sequences of phases, none of which is None.        *)
PlansAreTables ==
    /\ \E R : Plans \subseteq Seq(R)
    /\ None \notin Plans

(* The locks of one call and those of another never exclude each other.    *)
Apart ==
    \A t, u \in Threads : t # u =>
        \A g \in Owned(t, HoldsAt(plan[t], step[t])),
           h \in Owned(u, HoldsAt(plan[u], step[u])) : ~ Granted!Conflict(g, h)

LEMMA LenNat == ASSUME PlansAreTables, NEW p \in Plans PROVE Len(p) \in Nat
  BY DEF PlansAreTables

(* A call is in one of the phases of one of the plans.                     *)
THEOREM HandlersTyped == ASSUME PlansAreTables PROVE HSpec => []HTypeOK
<1>1. HInit => HTypeOK
  BY DEF HInit, HTypeOK
<1>2. HTypeOK /\ [HNext]_hvars => HTypeOK'
  <2> SUFFICES ASSUME HTypeOK, [HNext]_hvars PROVE HTypeOK'
    OBVIOUS
  <2> USE DEF HTypeOK
  <2>1. ASSUME NEW t \in Threads, Call(t) PROVE HTypeOK'
    <3>1. PICK p \in Plans : plan' = [plan EXCEPT ![t] = p]
      BY <2>1 DEF Call
    <3>2. p # None /\ Len(p) \in Nat
      BY LenNat DEF PlansAreTables
    <3> QED BY <2>1, <3>1, <3>2 DEF Call
  <2>2. ASSUME NEW t \in Threads, Go(t) PROVE HTypeOK'
    <3>1. plan[t] \in Plans /\ plan[t] # None /\ step[t] < Len(plan[t])
      BY <2>2 DEF Go, MoreToDo
    <3>2. Len(plan[t]) \in Nat
      BY <3>1, LenNat
    <3>3. step[t] + 1 \in 0..Len(plan[t])
      BY <3>1, <3>2
    <3> QED BY <2>2, <3>1, <3>2, <3>3 DEF Go
  <2>3. ASSUME NEW t \in Threads, Leave(t) PROVE HTypeOK'
    BY <2>3 DEF Leave
  <2>4. CASE UNCHANGED hvars
    BY <2>4 DEF hvars
  <2> QED BY <2>1, <2>2, <2>3, <2>4 DEF HNext
<1> QED BY <1>1, <1>2, PTL DEF HSpec

LEMMA ConflictSymmetric ==
    ASSUME NEW g, NEW h, Granted!Conflict(g, h) PROVE Granted!Conflict(h, g)
  BY DEF Granted!Conflict

(* A step of one thread leaves the locks of the others as they are.        *)
LEMMA OthersKeep ==
    ASSUME HTypeOK, NEW t \in Threads, Call(t) \/ Go(t) \/ Leave(t),
           NEW u \in Threads, u # t
    PROVE  plan'[u] = plan[u] /\ step'[u] = step[u]
  BY DEF HTypeOK, Call, Go, Leave

(* The locks a step leaves its thread with were free, or held before.      *)
LEMMA Admitted ==
    ASSUME HTypeOK, Apart, NEW t \in Threads, Call(t) \/ Go(t) \/ Leave(t),
           NEW u \in Threads, u # t,
           NEW g \in Owned(t, HoldsAt(plan'[t], step'[t])),
           NEW h \in Owned(u, HoldsAt(plan[u], step[u]))
    PROVE  ~ Granted!Conflict(g, h)
<1>1. CASE Call(t)
  <2>1. step'[t] = 0
    BY <1>1 DEF Call, HTypeOK
  <2> QED BY <2>1 DEF HoldsAt, Owned
<1>2. CASE Go(t)
  <2>1. plan'[t] = plan[t] /\ step'[t] = step[t] + 1
    BY <1>2 DEF Go, HTypeOK
  <2>2. h \in Held /\ h.t = u
    BY DEF Held, Owned
  <2>3. \A x \in Owned(t, HoldsAt(plan[t], step[t] + 1)), y \in Held :
            y.t # t => ~ Granted!Conflict(x, y)
    BY <1>2 DEF Go, Grants
  <2> QED BY <2>1, <2>2, <2>3
<1>3. CASE Leave(t)
  <2>1. step'[t] = 0
    BY <1>3 DEF Leave, HTypeOK
  <2> QED BY <2>1 DEF HoldsAt, Owned
<1> QED BY <1>1, <1>2, <1>3

(* The locks of different calls are compatible at all times.               *)
THEOREM HandlersApart == ASSUME PlansAreTables PROVE HSpec => []Apart
<1>1. HInit => Apart
  BY DEF HInit, Apart, HoldsAt, Owned
<1>2. HTypeOK /\ Apart /\ [HNext]_hvars => Apart'
  <2> SUFFICES ASSUME HTypeOK, Apart, [HNext]_hvars,
                      NEW t \in Threads, NEW u \in Threads, t # u,
                      NEW g \in Owned(t, HoldsAt(plan'[t], step'[t])),
                      NEW h \in Owned(u, HoldsAt(plan'[u], step'[u]))
               PROVE  ~ Granted!Conflict(g, h)
    BY DEF Apart, Granted!Conflict
  <2>1. ASSUME NEW r \in Threads, Call(r) \/ Go(r) \/ Leave(r)
        PROVE  ~ Granted!Conflict(g, h)
    <3>1. CASE r = t
      <4>1. plan'[u] = plan[u] /\ step'[u] = step[u]
        BY <2>1, <3>1, OthersKeep
      <4> QED BY <2>1, <3>1, <4>1, Admitted
    <3>2. CASE r = u
      <4>1. plan'[t] = plan[t] /\ step'[t] = step[t]
        BY <2>1, <3>2, OthersKeep
      <4>2. ~ Granted!Conflict(h, g)
        BY <2>1, <3>2, <4>1, Admitted
      <4> QED BY <4>2, ConflictSymmetric
    <3>3. CASE r # t /\ r # u
      <4>1. plan'[t] = plan[t] /\ step'[t] = step[t] /\ plan'[u] = plan[u] /\ step'[u] = step[u]
        BY <2>1, <3>3, OthersKeep
      <4> QED BY <4>1 DEF Apart
    <3> QED BY <3>1, <3>2, <3>3
  <2>2. CASE UNCHANGED hvars
    BY <2>2 DEF hvars, Apart
  <2> QED BY <2>1, <2>2 DEF HNext
<1> QED BY <1>1, <1>2, HandlersTyped, PTL DEF HSpec

(* Tables that follow the discipline keep every two calls out of each      *)
(* other's way: nothing is read or changed while somebody is changing it.  *)
THEOREM HandlersIsolated ==
    ASSUME PlansAreTables, Disciplined PROVE HSpec => []Isolated
<1>1. HTypeOK /\ Apart => Isolated
  <2> SUFFICES ASSUME HTypeOK, Apart, NEW t \in Threads, NEW u \in Threads, t # u,
                      plan[t] # None, plan[u] # None, step[t] # 0, step[u] # 0,
                      Interfere(plan[t][step[t]], plan[u][step[u]])
               PROVE  FALSE
    BY DEF Isolated
  <2> DEFINE p == plan[t]  q == plan[u]  i == step[t]  j == step[u]
  <2>1. p \in Plans /\ q \in Plans
    BY DEF HTypeOK
  <2>2. Len(p) \in Nat /\ Len(q) \in Nat
    BY <2>1, LenNat
  <2>3. i \in 1..Len(p) /\ j \in 1..Len(q)
    BY <2>2 DEF HTypeOK
  <2>4. DOMAIN p = 1..Len(p) /\ DOMAIN q = 1..Len(q)
    BY <2>1 DEF PlansAreTables
  <2>5. PICK g \in p[i].holds, h \in q[j].holds : Granted!Conflict(g, h)
    BY <2>1, <2>3, <2>4 DEF Disciplined
  <2> DEFINE a == [t |-> t, lock |-> g.lock, team |-> g.team]
             b == [t |-> u, lock |-> h.lock, team |-> h.team]
  <2>6. a \in Owned(t, HoldsAt(p, i)) /\ b \in Owned(u, HoldsAt(q, j))
    BY DEF Owned, HoldsAt
  <2>7. Granted!Conflict(a, b)
    BY <2>5 DEF Granted!Conflict
  <2> QED BY <2>6, <2>7 DEF Apart
<1> QED BY <1>1, HandlersTyped, HandlersApart, PTL
=============================================================================
