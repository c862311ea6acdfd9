------------------------- MODULE DeployQueue_proofs --------------------------
(* What holds of the deploy queue for every number of pushes, threads and     *)
(* failures: its type, that the coalescing slot never leaks, and that no push *)
(* vanishes without a trace in the history.                                   *)
(*                                                                            *)
(* SlotNeverLeaks is inductive. NoPushVanishes speaks of quiet states only;   *)
(* what every step keeps is that, unless something went wrong, the slot is    *)
(* taken only while a webhook run is still to deploy (SlotHasRun) and every   *)
(* handled push that no deploy fetched has such a run (PushesCovered).        *)
EXTENDS DeployQueue, TLAPS

(* Something went wrong that deploys.json tells, or will tell, or that died  *)
(* with the server.                                                          *)
Excused ==
    \/ crashed
    \/ history # {}
    \/ \E r \in Runs : run[r].at = "skipping"

ToDeploy == Waiting \cup {"deploying"}

SlotHasRun == pending => \E r \in Runs : run[r].trigger = "webhook" /\ run[r].at \in Waiting

PushesCovered ==
    \A n \in 1..remote : n > fetched /\ n \notin deliveries =>
        \E r \in Runs : run[r].at \in ToDeploy

Covered == Excused \/ (SlotHasRun /\ PushesCovered)

(* The model's variables keep their types: the queue of any number of        *)
(* threads and pushes (webhooks._pending, LockManager's waiters).            *)
THEOREM TypeCorrect == Spec => []TypeOK
<1>1. Init => TypeOK
  <2> SUFFICES ASSUME Init PROVE TypeOK
    OBVIOUS
  <2> NoThread \in Thread
    BY DEF NoThread, Thread, Triggers, Steps
  <2>1. run \in [Runs -> Thread]
    BY DEF Init
  <2>2. remote \in 0..MaxPushes /\ fetched \in 0..remote /\ faults \in 0..MaxFaults
    BY BoundsAssumption DEF Init
  <2> QED
    BY <2>1, <2>2 DEF Init, TypeOK
<1>2. TypeOK /\ [Next]_vars => TypeOK'
  <2> SUFFICES ASSUME TypeOK, [Next]_vars PROVE TypeOK'
    OBVIOUS
  <2> USE BoundsAssumption DEF TypeOK, Thread, Triggers, Steps
  <2>1. CASE Push
    BY <2>1 DEF Push
  <2>2. CASE \E n \in deliveries : CoalescePush(n)
    BY <2>2 DEF CoalescePush
  <2>3. CASE \E n \in deliveries, r \in Runs : DispatchPush(n, r)
    BY <2>3 DEF DispatchPush, StartThread
  <2>4. CASE \E r \in Runs : Click(r)
    BY <2>4 DEF Click, StartThread
  <2>5. CASE \E r \in Runs : RunStep(r)
    <3> PICK r \in Runs : RunStep(r)
      BY <2>5
    <3>1. CASE Queue(r)
      BY <3>1 DEF Queue, Step
    <3>2. CASE Acquire(r)
      BY <3>2 DEF Acquire, Step
    <3>3. CASE GiveUp(r)
      BY <3>3 DEF GiveUp, Step
    <3>4. CASE RecordSkipped(r)
      BY <3>4 DEF RecordSkipped, Step
    <3>5. CASE FreeSlot(r)
      BY <3>5 DEF FreeSlot, Step
    <3>6. CASE Fetch(r)
      BY <3>6 DEF Fetch, Step
    <3>7. CASE FetchFails(r)
      BY <3>7 DEF FetchFails, Step
    <3>8. CASE ReleaseLock(r)
      BY <3>8 DEF ReleaseLock, Step
    <3>9. CASE Leave(r)
      BY <3>9 DEF Leave, NoThread
    <3> QED
      BY <3>1, <3>2, <3>3, <3>4, <3>5, <3>6, <3>7, <3>8, <3>9 DEF RunStep
  <2>6. CASE OtherTakes
    BY <2>6 DEF OtherTakes
  <2>7. CASE OtherReleases
    BY <2>7 DEF OtherReleases
  <2>8. CASE Restart
    <3> NoThread \in Thread
      BY DEF NoThread
    <3>1. run' \in [Runs -> Thread]
      BY <2>8 DEF Restart
    <3>2. deliveries' \subseteq 1..remote' /\ holder' \in Runs \cup {Other, Nobody}
      BY <2>8 DEF Restart
    <3>3. faults' \in 0..MaxFaults /\ UNCHANGED <<remote, fetched, history>>
      BY <2>8 DEF Restart
    <3> QED
      BY <2>8, <3>1, <3>2, <3>3 DEF Restart
  <2>9. CASE UNCHANGED vars
    BY <2>9 DEF vars
  <2> QED
    BY <2>1, <2>2, <2>3, <2>4, <2>5, <2>6, <2>7, <2>8, <2>9 DEF Next
<1> QED
  BY <1>1, <1>2, PTL DEF Spec

-----------------------------------------------------------------------------
(* A run that takes one step keeps who started it, and every other run stays.*)
LEMMA StepEffect ==
    ASSUME TypeOK, NEW r \in Runs, NEW from, NEW to, Step(r, from, to)
    PROVE  /\ run[r].at = from
           /\ run'[r].at = to /\ run'[r].trigger = run[r].trigger
           /\ \A q \in Runs : q # r => run'[q] = run[q]
  BY DEF Step, TypeOK, Thread

(* The same of a run that is started or ends.                                *)
LEMMA ThreadEffect ==
    ASSUME TypeOK, NEW r \in Runs, NEW t, run' = [run EXCEPT ![r] = t]
    PROVE  run'[r] = t /\ \A q \in Runs : q # r => run'[q] = run[q]
  BY DEF TypeOK

(* The slot is discarded by whoever took it: the safety net in the outer     *)
(* finally of webhooks._deploy_in_background works for every interleaving.   *)
THEOREM SlotIsSafe == Spec => []SlotNeverLeaks
<1> DEFINE Owner(r) == /\ run[r].trigger = "webhook"
                       /\ run[r].at \in Waiting \cup {"skipping", "leaving"}
           Inv == pending => \E r \in Runs : Owner(r)
<1>1. Init => Inv
  BY DEF Init
<1>2. TypeOK /\ Inv /\ [Next]_vars => Inv'
  <2> SUFFICES ASSUME TypeOK, Inv, [Next]_vars, pending' PROVE \E r \in Runs : Owner(r)'
    OBVIOUS
  <2> USE DEF Waiting
  <2>1. CASE Push
    BY <2>1 DEF Push
  <2>2. CASE \E n \in deliveries : CoalescePush(n)
    BY <2>2 DEF CoalescePush
  <2>3. CASE \E n \in deliveries, r \in Runs : DispatchPush(n, r)
    <3> PICK n \in deliveries, r \in Runs : DispatchPush(n, r)
      BY <2>3
    <3> run'[r] = [at |-> "started", trigger |-> "webhook"]
      BY ThreadEffect DEF DispatchPush, StartThread
    <3> QED
      OBVIOUS
  <2>4. CASE \E r \in Runs : Click(r)
    <3> PICK r \in Runs : Click(r)
      BY <2>4
    <3> PICK w \in Runs : Owner(w)
      BY DEF Click
    <3> w # r /\ run'[w] = run[w]
      BY ThreadEffect DEF Click, StartThread
    <3> QED
      OBVIOUS
  <2>5. CASE \E r \in Runs : RunStep(r)
    <3> PICK r \in Runs : RunStep(r)
      BY <2>5
    <3>1. CASE Queue(r)
      BY <3>1, StepEffect DEF Queue
    <3>2. CASE Acquire(r)
      BY <3>2, StepEffect DEF Acquire
    <3>3. CASE GiveUp(r)
      BY <3>3, StepEffect DEF GiveUp
    <3>4. CASE RecordSkipped(r)
      BY <3>4, StepEffect DEF RecordSkipped
    <3>5. CASE FreeSlot(r)
      <4> /\ Step(r, "holding", "deploying")
          /\ run[r].trigger # "webhook" /\ pending
        BY <3>5 DEF FreeSlot
      <4> PICK w \in Runs : Owner(w)
        OBVIOUS
      <4> w # r /\ run'[w] = run[w]
        BY StepEffect
      <4> QED
        OBVIOUS
    <3>6. CASE Fetch(r)
      BY <3>6, StepEffect DEF Fetch
    <3>7. CASE FetchFails(r)
      BY <3>7, StepEffect DEF FetchFails
    <3>8. CASE ReleaseLock(r)
      BY <3>8, StepEffect DEF ReleaseLock
    <3>9. CASE Leave(r)
      <4> run[r].trigger # "webhook" /\ pending
        BY <3>9 DEF Leave
      <4> PICK w \in Runs : Owner(w)
        OBVIOUS
      <4> w # r /\ run'[w] = run[w]
        BY <3>9, ThreadEffect DEF Leave
      <4> QED
        OBVIOUS
    <3> QED
      BY <3>1, <3>2, <3>3, <3>4, <3>5, <3>6, <3>7, <3>8, <3>9 DEF RunStep
  <2>6. CASE OtherTakes \/ OtherReleases \/ UNCHANGED vars
    BY <2>6 DEF OtherTakes, OtherReleases, vars
  <2>7. CASE Restart
    BY <2>7 DEF Restart
  <2> QED
    BY <2>1, <2>2, <2>3, <2>4, <2>5, <2>6, <2>7 DEF Next
<1>3. Inv => SlotNeverLeaks
  BY DEF SlotNeverLeaks, At
<1> QED
  BY <1>1, <1>2, <1>3, TypeCorrect, PTL DEF Spec

-----------------------------------------------------------------------------
(* Nothing that went wrong is forgotten.                                     *)
LEMMA ExcuseStays == ASSUME TypeOK, Excused, [Next]_vars PROVE Excused'
<1> USE DEF Excused
<1>1. CASE Push \/ OtherTakes \/ OtherReleases \/ UNCHANGED vars
  BY <1>1 DEF Push, OtherTakes, OtherReleases, vars
<1>2. CASE \E n \in deliveries : CoalescePush(n)
  BY <1>2 DEF CoalescePush
<1>3. CASE \E n \in deliveries, r \in Runs : DispatchPush(n, r)
  BY <1>3, ThreadEffect DEF DispatchPush, StartThread
<1>4. CASE \E r \in Runs : Click(r)
  BY <1>4, ThreadEffect DEF Click, StartThread
<1>5. CASE \E r \in Runs : RunStep(r)
  <2> PICK r \in Runs : RunStep(r)
    BY <1>5
  <2>1. CASE Queue(r)
    BY <2>1, StepEffect DEF Queue
  <2>2. CASE Acquire(r)
    BY <2>2, StepEffect DEF Acquire
  <2>3. CASE GiveUp(r)
    BY <2>3, StepEffect DEF GiveUp
  <2>4. CASE RecordSkipped(r)
    BY <2>4 DEF RecordSkipped
  <2>5. CASE FreeSlot(r)
    BY <2>5, StepEffect DEF FreeSlot
  <2>6. CASE Fetch(r)
    BY <2>6, StepEffect DEF Fetch
  <2>7. CASE FetchFails(r)
    BY <2>7 DEF FetchFails
  <2>8. CASE ReleaseLock(r)
    BY <2>8, StepEffect DEF ReleaseLock
  <2>9. CASE Leave(r)
    BY <2>9, ThreadEffect DEF Leave
  <2> QED
    BY <2>1, <2>2, <2>3, <2>4, <2>5, <2>6, <2>7, <2>8, <2>9 DEF RunStep
<1>6. CASE Restart
  BY <1>6 DEF Restart
<1> QED
  BY <1>1, <1>2, <1>3, <1>4, <1>5, <1>6 DEF Next

(* A push ends fetched or accounted for: dispatch_push drops it only while a *)
(* run is still to deploy, and a run that gives up leaves a record.          *)
THEOREM PushesAccountedFor == Spec => []NoPushVanishes
<1>1. Init => Covered
  BY DEF Init, Covered, SlotHasRun, PushesCovered
<1>2. TypeOK /\ Covered /\ [Next]_vars => Covered'
  <2> SUFFICES ASSUME TypeOK, ~Excused, SlotHasRun, PushesCovered, [Next]_vars, ~Excused'
               PROVE  SlotHasRun' /\ PushesCovered'
    BY ExcuseStays DEF Covered
  <2> USE DEF SlotHasRun, PushesCovered, ToDeploy, Waiting
  <2>1. CASE Push
    <3> \A n \in 1..remote' : n \notin deliveries' => n \in 1..remote /\ n \notin deliveries
      BY <2>1 DEF Push, TypeOK
    <3> QED
      BY <2>1 DEF Push
  <2>2. CASE \E n \in deliveries : CoalescePush(n)
    BY <2>2 DEF CoalescePush
  <2>3. CASE \E n \in deliveries, r \in Runs : DispatchPush(n, r)
    <3> PICK n \in deliveries, r \in Runs : DispatchPush(n, r)
      BY <2>3
    <3>1. run'[r] = [at |-> "started", trigger |-> "webhook"]
      BY ThreadEffect DEF DispatchPush, StartThread
    <3>2. \E q \in Runs : run'[q].trigger = "webhook" /\ run'[q].at \in Waiting
      BY <3>1
    <3>3. \E q \in Runs : run'[q].at \in ToDeploy
      BY <3>1
    <3> QED
      BY <3>2, <3>3
  <2>4. CASE \E r \in Runs : Click(r)
    BY <2>4, ThreadEffect DEF Click, StartThread
  <2>5. CASE \E r \in Runs : RunStep(r)
    <3> PICK r \in Runs : RunStep(r)
      BY <2>5
    <3>1. CASE Queue(r)
      BY <3>1, StepEffect DEF Queue
    <3>2. CASE Acquire(r)
      BY <3>2, StepEffect DEF Acquire
    <3>3. CASE GiveUp(r)
      BY <3>3, StepEffect DEF GiveUp, Excused
    <3>4. CASE RecordSkipped(r)
      BY <3>4 DEF RecordSkipped, Excused
    <3>5. CASE FreeSlot(r)
      <4> Step(r, "holding", "deploying") /\ run'[r].at = "deploying"
        BY <3>5, StepEffect DEF FreeSlot
      <4>1. PushesCovered'
        OBVIOUS
      <4>2. SlotHasRun'
        BY <3>5, StepEffect DEF FreeSlot
      <4> QED
        BY <4>1, <4>2
    <3>6. CASE Fetch(r)
      <4>1. PushesCovered'
        BY <3>6, BoundsAssumption DEF Fetch, TypeOK
      <4>2. SlotHasRun'
        BY <3>6, StepEffect DEF Fetch
      <4> QED
        BY <4>1, <4>2
    <3>7. CASE FetchFails(r)
      BY <3>7 DEF FetchFails, Excused
    <3>8. CASE ReleaseLock(r)
      BY <3>8, StepEffect DEF ReleaseLock
    <3>9. CASE Leave(r)
      BY <3>9, ThreadEffect DEF Leave
    <3> QED
      BY <3>1, <3>2, <3>3, <3>4, <3>5, <3>6, <3>7, <3>8, <3>9 DEF RunStep
  <2>6. CASE OtherTakes \/ OtherReleases \/ UNCHANGED vars
    BY <2>6 DEF OtherTakes, OtherReleases, vars
  <2>7. CASE Restart
    BY <2>7 DEF Restart, Excused
  <2> QED
    BY <2>1, <2>2, <2>3, <2>4, <2>5, <2>6, <2>7 DEF Next
<1>3. TypeOK /\ Covered => NoPushVanishes
  <2> SUFFICES ASSUME TypeOK, Covered, Quiet, ~crashed, fetched < remote
               PROVE  history # {}
    BY DEF NoPushVanishes
  <2>1. CASE Excused
    BY <2>1 DEF Excused, Quiet
  <2>2. CASE PushesCovered
    BY <2>2 DEF PushesCovered, Quiet, TypeOK, ToDeploy, Waiting
  <2> QED
    BY <2>1, <2>2 DEF Covered
<1> QED
  BY <1>1, <1>2, <1>3, TypeCorrect, PTL DEF Spec
=============================================================================
