SPECIFICATION IdSpec
CONSTANTS
  Envs = {n1, n2}  NoEnv = NoEnv  Callers = {c1}  Hazards = {"stayed"}
  MaxUids = 2  MaxBorn = 2  IdFailures = 1  IdOps = 3
INVARIANTS GoneWhenForgotten
CHECK_DEADLOCK FALSE
