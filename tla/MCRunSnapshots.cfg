\* Two runs of three changes on a tree of three paths; one snapshot is stored.
CONSTANTS
    c0 = c0
    c1 = c1
    Absent = Absent
    Dir = Dir
    Lost = Lost
    NoHint = NoHint
    Nowhere = Nowhere
    Root = "."
    Contents = {c0, c1}
    Written = {c1}
    Found <- MCFound
    Paths <- MCPaths
    Parent <- MCParent
    Commands <- MCCommands
    r1 = r1
    r2 = r2
    Runs <- MCRuns
    MaxStored = 1
    MaxChanges = 3
SPECIFICATION SnapshotSpec
SYMMETRY RunSymmetry
INVARIANTS
    OriginalsAreKept
PROPERTIES
    RestoreUndoesRun
    RestoreLeavesTheRest
CHECK_DEADLOCK FALSE
\* Refuted (the preview leaves out what would be removed):
\*  DiffPredictsRestore
