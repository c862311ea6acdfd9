SPECIFICATION UpSpec
CONSTANTS
  Servers = {s1, s2}  Nobody = Nobody  NoJournal = NoJournal  CommandsOverlap = FALSE
  MaxWrites = 1  MaxFailures = 1  MaxEdits = 2  MaxStarts = 1
INVARIANTS NothingLost ServesWhole
PROPERTIES ApplicationsReturn
CHECK_DEADLOCK FALSE
