SPECIFICATION TenantsSpec
CONSTANTS
  Envs = {e1, e2}  NoEnv = NoEnv  Workers = {w1, w2}  Reaper = Reaper  Nobody = Nobody
  MaxBorn = 2  EnvFailures = 1  EnvOps = 3
  Tenants = {e1, e2, e3}  Customs = {own}  NoHost = NoHost  Reserved = Reserved
  Ports = 2  Slots = 2  AddrFailures = 1  AddrOps = 3  Changes = 1
  Hazards = {}  MaxUids = 3  MaxClones = 3  IdFailures = 2  IdOps = 5
SYMMETRY Alike
INVARIANTS
  
  AddressesDistinct CapHolds NeverInherits NothingLeftBehind
PROPERTIES ReaperActsOnIdle
CHECK_DEADLOCK FALSE
