SPECIFICATION Spec
CONSTANTS
    Versions = {v0, v1, v2}
    First = v0
    Absent = Absent
    Partial = Partial
    Careful = FALSE
    MaxFailures = 0
    MaxCrashes = 1
INVARIANT PreviousSurvives
