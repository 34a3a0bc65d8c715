SPECIFICATION StoreSpec
CONSTANTS
    NoRun = NoRun
    Runs = {r1, r2, r3}
    Paths = {a}
    MaxHistory = 2
    MaxSaving = 2
    MaxMoves = 2
SYMMETRY RunSymmetry
CHECK_DEADLOCK FALSE
INVARIANTS
    LatestIsInHistory
PROPERTIES
    UnconfirmedResumeIsFresh
