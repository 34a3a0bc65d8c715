SPECIFICATION Spec
CONSTANTS
    w1 = w1
    w2 = w2
    f1 = f1
    f2 = f2
    f3 = f3
    n1 = n1
    n2 = n2
    Notes <- MCNotes
    Procedures <- MCProcedures
    At <- MCAt
    Barred = {f1}
    MaxCuratedNotes = 1
    MaxCuratedProcedures = 2
    MaxIndexEntries = 4
    Workers <- MCWorkers
    Operator = operator
    FirstTitle = 1
    Titles = {2}
    Trajectories = {t0, t1}
    Kept = {t0}
    Keys = {k1}
    None = none
    Found <- MCFound
    Reuses = {1}
    RefineThreshold = 2
    SupersedeThreshold = 1
    MaxProceduresToLoad = 1
    MaxRuns = 2
    MaxCommands = 1
SYMMETRY Symmetric
INVARIANTS
    ConsolidationTellsTheTruth
    RevisionsAreProven
    SuccessorsAreSaved
    LowTrustStaysLocal
CHECK_DEADLOCK FALSE
