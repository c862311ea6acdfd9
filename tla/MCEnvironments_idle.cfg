SPECIFICATION EnvFairSpec
CONSTANTS
  Envs = {e1, e2}  NoEnv = NoEnv  Workers = {w1}  Reaper = Reaper  Nobody = Nobody
  MaxBorn = 2  EnvFailures = 2  EnvOps = 2
INVARIANTS ServesOwnData
PROPERTIES AbandonedIsDeleted
CHECK_DEADLOCK FALSE
