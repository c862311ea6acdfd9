------------------------- MODULE MCProductionRestore -------------------------
(* TLC instances of ProductionRestore.                                        *)
EXTENDS ProductionRestore
=============================================================================
