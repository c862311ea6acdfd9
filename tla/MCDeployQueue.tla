---------------------------- MODULE MCDeployQueue ----------------------------
(* TLC instances of DeployQueue: background threads are interchangeable.      *)
EXTENDS DeployQueue, TLC

Symmetry == Permutations(Runs)
=============================================================================
