SPECIFICATION Spec
CONSTANTS
    c1 = c1
    c2 = c2
    Chats = {c1, c2}
    dir = dir
    file = file
    Targets = {dir, file}
    AnyTarget = AnyTarget
    Place <- MCPlace
    Within <- MCWithin
    NoId = NoId
    NoLimit = NoLimit
    Requests <- MCRequests
    Offers <- MCOffers
    Switchable = {"Full"}
    FirstAccess <- MCFirstAccess
    MaxGrants = 2
    MaxTasks = 2
    MaxCommands = 1
    MaxRestarts = 2
SYMMETRY ChatSymmetry
INVARIANTS
    OnceMeansOnce
    GrantsKeepTheirHolder
    ApprovalsEndWithTheirTask
PROPERTY
    RemovedGrantsStayRemoved
CHECK_DEADLOCK FALSE
