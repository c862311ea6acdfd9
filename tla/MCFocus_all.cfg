SPECIFICATION FocusSpec
CONSTANTS
  Processes = {p, q}  Idle = Idle  Objects = {x, y}  MaxDeaths = 2
  Boxes = {a, b}  Nothing = Nothing  MaxBackups = 2  MaxCopies = 2  MaxMishaps = 1  MaxReboots = 1
  Names = {s, t}  Nobody = Nobody  None = None  Slots = 1  MaxVersions = 2  MaxFailures = 1
  Builds = {b1, b2}  MaxActive = 2  Keep = 1  MaxBuildDeaths = 1
  Branches = {f, g}  Consumers = {e}  Overlap = FALSE  MaxCommits = 2
INVARIANTS
   ServesOnePiece Recoverable RequestKept
  UsesWhatExists WithinSlots LiveBuildsKeepTheirContext 
   RemovedStaysRemoved
SYMMETRY Alike
CHECK_DEADLOCK FALSE
