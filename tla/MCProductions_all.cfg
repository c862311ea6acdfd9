SPECIFICATION ProductionsSpec
CONSTANTS
  Versions = {v0, v1, v2}  First = v0  Absent = Absent  Partial = Partial
  Careful = TRUE  MaxFailures = 3  MaxCrashes = 2
  Repos = {main, extra}  Main = main  MaxCommit = 2  Kind <- TwoRepos  Hooks = TRUE
  Explicit = FALSE  RollForward = FALSE  ResetFails = FALSE
  DeployFailures = 2  DeployCrashes = 1  MaxEntries = 4
  Nil = Nil  Sweepers = {"reaper"}  MaxFields = 2  MaxCreates = 2  MaxCalls = 2  MaxMishaps = 1  MaxEdits = 1
INVARIANTS
  ServesCoherentPair PreviousSurvives
  SnapshotMatchesDataIfUndisturbed MigratedWhenSettled
  OwnData KeptUntilPurged  Converged
