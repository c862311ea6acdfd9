SPECIFICATION FairSpec
CONSTANTS
  t1 = t1  t2 = t2  t3 = t3  p1 = p1  p2 = p2
  Threads = {t1, t2, t3}
  Procs = {p1, p2}
  procOf <- TwoProcesses
  DevKeys = {}
  ProdKeys = {prod}
  OtherKeys = {}
  Teams = {team}
  System = System
  NoTeam = NoTeam
  NoThread = NoThread
  UseFiles = TRUE
  MaxHeld = 1
  MaxCrashes = 0
PROPERTY CallsReturn
