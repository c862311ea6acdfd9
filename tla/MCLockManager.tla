--------------------------- MODULE MCLockManager ---------------------------
(* TLC instances of LockManager: who runs where, for the configurations.   *)
EXTENDS LockManager, TLC

CONSTANTS t1, t2, t3, p1, p2

(* A server with two threads, and a cron worker or CLI beside it.          *)
TwoProcesses == t1 :> p1 @@ t2 :> p1 @@ t3 :> p2
=============================================================================
