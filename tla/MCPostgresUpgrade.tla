--------------------------- MODULE MCPostgresUpgrade ---------------------------
(* TLC instances of PostgresUpgrade.                                          *)
EXTENDS PostgresUpgrade
================================================================================
