SPECIFICATION HSpec
CONSTANTS
  Threads <- Threads2
  Plans <- AllPlans
  DevKeys <- DevLocks
  ProdKeys <- ProdLocks
  OtherKeys <- RestLocks
  Teams <- TeamIds
  System <- SystemName
  NoTeam = NoTeam
  Unscoped = NoTeam
  None = None
  Team <- TheTeam
  Envs <- EnvNames
INVARIANTS Isolated
