----------------------------- MODULE DeployQueue -----------------------------
(* The queue of deploys of one production: pushes of its branch arrive as     *)
(* GitHub webhooks, an operator clicks Deploy on the dashboard, and every     *)
(* accepted request becomes a background thread (a "run") that waits for the  *)
(* production's lock, deploys the tip of the branch and releases the lock.    *)
(* At most one webhook run should wait at a time: the slot `pending`          *)
(* coalesces the pushes that arrive while one does.                           *)
(*                                                                            *)
(* The lock is the one LockManager describes, seen by one production: free,   *)
(* held by a run, or held by any other operation. A commit is its number on   *)
(* the branch. A deploy is its fetch: what it does with the code is           *)
(* ProductionDeploy.                                                          *)
(*                                                                            *)
(* Definitions marked "Fault:" are plausible bugs; no action uses them.       *)
(* They are put in place of the definition that follows them to see that      *)
(* a property notices.                                                        *)
EXTENDS Naturals, FiniteSets

CONSTANTS
    Runs,         \* background threads
    Other,        \* whoever else takes the production's lock
    Nobody,       \* the lock is free
    MaxPushes,    \* bound: pushes of the branch
    MaxFaults,    \* bound: timeouts, failed fetches and crashes
    Clicks        \* TRUE iff operators deploy from the dashboard too

ASSUME HoldersAssumption ==
    /\ Other \notin Runs /\ Nobody \notin Runs /\ Other # Nobody
ASSUME BoundsAssumption ==
    /\ MaxPushes \in Nat /\ MaxFaults \in Nat /\ Clicks \in BOOLEAN

VARIABLES
    remote,       \* commits on the branch
    deliveries,   \* pushes whose webhook has not been handled yet
    fetched,      \* newest commit a deploy fetched
    pending,      \* the production is in webhooks._pending
    run,          \* what each background thread is doing, and who started it
    holder,       \* who holds the production's lock
    history,      \* outcomes other than success that deploys.json records
    faults,       \* timeouts, failed fetches and crashes so far
    crashed       \* the server died at least once

vars == <<remote, deliveries, fetched, pending, run, holder, history, faults, crashed>>

Triggers == {"webhook", "ui"}
Steps == {"none", "started", "queued", "holding", "deploying", "fetched",
          "skipping", "leaving"}

Thread == [at : Steps, trigger : Triggers]

TypeOK ==
    /\ remote \in 0..MaxPushes
    /\ deliveries \subseteq 1..remote
    /\ fetched \in 0..remote
    /\ pending \in BOOLEAN
    /\ run \in [Runs -> Thread]
    /\ holder \in Runs \cup {Other, Nobody}
    /\ history \subseteq {"skipped", "error"}
    /\ faults \in 0..MaxFaults
    /\ crashed \in BOOLEAN

NoThread == [at |-> "none", trigger |-> "webhook"]

Init ==
    /\ remote = 0 /\ deliveries = {} /\ fetched = 0
    /\ pending = FALSE
    /\ run = [r \in Runs |-> NoThread]
    /\ holder = Nobody
    /\ history = {} /\ faults = 0 /\ crashed = FALSE

(* Runs of a trigger that are at one of the steps S.                         *)
At(trigger, S) == {r \in Runs : run[r].trigger = trigger /\ run[r].at \in S}

Step(r, from, to) ==
    /\ run[r].at = from
    /\ run' = [run EXCEPT ![r].at = to]

StartThread(r, trigger) ==
    /\ run[r].at = "none"
    /\ run' = [run EXCEPT ![r] = [at |-> "started", trigger |-> trigger]]

(* _waiters: the callers inside acquire_env_blocking that have no lock yet.  *)
Waiters(trigger) == At(trigger, {"queued"})

-----------------------------------------------------------------------------
(* Requests.                                                                 *)

Push ==
    /\ remote < MaxPushes
    /\ remote' = remote + 1
    /\ deliveries' = deliveries \cup {remote'}
    /\ UNCHANGED <<fetched, pending, run, holder, history, faults, crashed>>

(* dispatch_push with the slot taken: the push rides on the waiting run.     *)
CoalescePush(n) ==
    /\ n \in deliveries
    /\ pending
    /\ deliveries' = deliveries \ {n}
    /\ UNCHANGED <<remote, fetched, pending, run, holder, history, faults, crashed>>

(* dispatch_push with the slot free: take it and start a background run.     *)
DispatchPush(n, r) ==
    /\ n \in deliveries
    /\ ~pending
    /\ deliveries' = deliveries \ {n}
    /\ pending' = TRUE
    /\ StartThread(r, "webhook")
    /\ UNCHANGED <<remote, fetched, holder, history, faults, crashed>>

(* The dashboard refuses a click while a dashboard deploy waits, and waits   *)
(* is what current_waiters lists: a thread that was only started is not yet. *)
Click(r) ==
    /\ Clicks
    /\ Waiters("ui") = {}
    /\ StartThread(r, "ui")
    /\ UNCHANGED <<remote, deliveries, fetched, pending, holder, history, faults, crashed>>

-----------------------------------------------------------------------------
(* The steps of a run.                                                       *)

Queue(r) ==
    /\ Step(r, "started", "queued")
    /\ UNCHANGED <<remote, deliveries, fetched, pending, holder, history, faults, crashed>>

Acquire(r) ==
    /\ holder = Nobody
    /\ Step(r, "queued", "holding")
    /\ holder' = r
    /\ UNCHANGED <<remote, deliveries, fetched, pending, history, faults, crashed>>

(* acquire_env_blocking returns False: the wait limit passed, or a           *)
(* cluster-wide operation owns the production keys.                          *)
GiveUp(r) ==
    /\ faults < MaxFaults
    /\ holder # Nobody
    /\ Step(r, "queued", "skipping")
    /\ faults' = faults + 1
    /\ UNCHANGED <<remote, deliveries, fetched, pending, holder, history, crashed>>

(* Fault: a skipped run is only logged.                                      *)
RecordSkippedInLogOnly(r) ==
    /\ Step(r, "skipping", "leaving")
    /\ UNCHANGED <<remote, deliveries, fetched, pending, holder, history, faults, crashed>>

RecordSkipped(r) ==
    /\ Step(r, "skipping", "leaving")
    /\ history' = history \cup {"skipped"}
    /\ UNCHANGED <<remote, deliveries, fetched, pending, holder, faults, crashed>>

(* Fault: the slot is only given back when the run ends: the one discard is  *)
(* enough.                                                                   *)
FreeSlotLate(r) ==
    /\ Step(r, "holding", "deploying")
    /\ UNCHANGED <<remote, deliveries, fetched, pending, holder, history, faults, crashed>>

(* The run holds the lock: a webhook run gives its slot back before it       *)
(* deploys, so that a push that arrives from here on queues the next one.    *)
FreeSlot(r) ==
    /\ Step(r, "holding", "deploying")
    /\ pending' = IF run[r].trigger = "webhook" THEN FALSE ELSE pending
    /\ UNCHANGED <<remote, deliveries, fetched, holder, history, faults, crashed>>

(* pull_repo: fetch the branch and reset the checkout to its tip.            *)
Fetch(r) ==
    /\ Step(r, "deploying", "fetched")
    /\ fetched' = remote
    /\ UNCHANGED <<remote, deliveries, pending, holder, history, faults, crashed>>

(* The fetch failed: the deploy records its failure and ends.                *)
FetchFails(r) ==
    /\ faults < MaxFaults
    /\ Step(r, "deploying", "fetched")
    /\ faults' = faults + 1
    /\ history' = history \cup {"error"}
    /\ UNCHANGED <<remote, deliveries, fetched, pending, holder, crashed>>

ReleaseLock(r) ==
    /\ Step(r, "fetched", "leaving")
    /\ holder' = Nobody
    /\ UNCHANGED <<remote, deliveries, fetched, pending, history, faults, crashed>>

(* The outer finally of _deploy_in_background discards the production from   *)
(* _pending once more, whoever put it there; the thread ends.                *)
Leave(r) ==
    /\ run[r].at = "leaving"
    /\ run' = [run EXCEPT ![r] = NoThread]
    /\ pending' = IF run[r].trigger = "webhook" THEN FALSE ELSE pending
    /\ UNCHANGED <<remote, deliveries, fetched, holder, history, faults, crashed>>

-----------------------------------------------------------------------------
(* Everything else that touches the lock or the process.                     *)

(* A snapshot, a restart, a restore or another deploy takes the lock.        *)
OtherTakes ==
    /\ holder = Nobody
    /\ holder' = Other
    /\ UNCHANGED <<remote, deliveries, fetched, pending, run, history, faults, crashed>>

OtherReleases ==
    /\ holder = Other
    /\ holder' = Nobody
    /\ UNCHANGED <<remote, deliveries, fetched, pending, run, history, faults, crashed>>

(* The server dies: its threads are daemons, the slots and the locks are in  *)
(* memory (another process may still hold its own), and webhooks being       *)
(* handled are lost with their connections.                                  *)
Restart ==
    /\ faults < MaxFaults
    /\ faults' = faults + 1
    /\ crashed' = TRUE
    /\ run' = [r \in Runs |-> NoThread]
    /\ pending' = FALSE
    /\ holder' \in {Nobody} \cup ({holder} \cap {Other})
    /\ \E lost \in SUBSET deliveries : deliveries' = deliveries \ lost
    /\ UNCHANGED <<remote, fetched, history>>

RunStep(r) ==
    \/ Queue(r) \/ Acquire(r) \/ GiveUp(r) \/ RecordSkipped(r) \/ FreeSlot(r)
    \/ Fetch(r) \/ FetchFails(r) \/ ReleaseLock(r) \/ Leave(r)

Next ==
    \/ Push
    \/ \E n \in deliveries : CoalescePush(n)
    \/ \E n \in deliveries, r \in Runs : DispatchPush(n, r)
    \/ \E r \in Runs : Click(r)
    \/ \E r \in Runs : RunStep(r)
    \/ OtherTakes \/ OtherReleases
    \/ Restart

Spec == Init /\ [][Next]_vars

(* GitHub delivers; a thread's own steps are taken; whoever holds the lock   *)
(* releases it; a waiter of a lock that is free again and again gets it.     *)
FairSpec ==
    /\ Spec
    /\ WF_vars(\E n \in deliveries : CoalescePush(n) \/ \E r \in Runs : DispatchPush(n, r))
    /\ WF_vars(OtherReleases)
    /\ \A r \in Runs :
        /\ WF_vars(Queue(r)) /\ WF_vars(RecordSkipped(r)) /\ WF_vars(FreeSlot(r))
        /\ WF_vars(Fetch(r) \/ FetchFails(r)) /\ WF_vars(ReleaseLock(r)) /\ WF_vars(Leave(r))
        /\ SF_vars(Acquire(r))

-----------------------------------------------------------------------------
(* The properties.                                                           *)

Waiting == {"started", "queued", "holding"}

(* The coalescing slot never leaks: while it is taken, some webhook thread   *)
(* is alive that will still discard it (webhooks._deploy_in_background, the  *)
(* outer finally).                                                           *)
SlotNeverLeaks ==
    pending => At("webhook", Waiting \cup {"skipping", "leaving"}) # {}

(* A push is dropped only for a reason the operator can read: when no        *)
(* webhook and no run is left, and the server never died, the tip of the     *)
(* branch was fetched or deploys.json has a skipped or failed entry          *)
(* (webhooks.dispatch_push, production_ops.record_skipped_deploy).           *)
Quiet == deliveries = {} /\ \A r \in Runs : run[r].at = "none"

NoPushVanishes == Quiet /\ ~crashed /\ fetched < remote => history # {}

(* Every push is fetched in the end, unless something failed: no push waits  *)
(* forever behind a slot that nobody clears (webhooks.dispatch_push).        *)
EveryPushFetched ==
    \A n \in 1..MaxPushes : remote >= n ~> (fetched >= n \/ faults > 0)

(* What the comment in dispatch_push says when it drops a push: one deploy   *)
(* is already waiting; it will pull this push too.                           *)
CoalescedPushIsPulled ==
    [][\A n \in deliveries : CoalescePush(n) => At("webhook", Waiting) # {}]_vars

(* What the module docstring of webhooks.py says: at most one queued run is  *)
(* kept, N rapid pushes collapse into one running and one pending deploy.    *)
OneQueuedRun ==
    Cardinality(At("webhook", {"started", "queued"})) <= 1

(* What docs/production.md says of the dashboard: a second click while a     *)
(* deploy is already queued is refused.                                      *)
OneQueuedClick == Cardinality(Waiters("ui")) <= 1
=============================================================================
