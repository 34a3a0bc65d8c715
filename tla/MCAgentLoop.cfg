\* Two files, three answers of up to two calls.
CONSTANTS
    f1 = f1
    f2 = f2
    Files <- MCFiles
    DirtyFiles <- MCDirtyFiles
    RequirePlan = TRUE
    MaxSteps = 2
    MaxRetries = 2
    MaxResearch = 3
    MaxRedirects = 2
    MaxBlocked = 2
    Threshold = 2
    MaxBatch = 2
SPECIFICATION FairSpec
INVARIANTS
    PlanComesFirst
    StopIsPrompt
    ChangesAreAttributed
PROPERTY
    RunEnds
CHECK_DEADLOCK FALSE
