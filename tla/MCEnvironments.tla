--------------------------- MODULE MCEnvironments ----------------------------
(* TLC instances of Environments.                                             *)
EXTENDS Environments
=============================================================================
