SPECIFICATION TurnSpec
CONSTANTS
    inside = inside
    atHome = atHome
    beyond = beyond
    secret = secret
    padded = padded
    Targets <- MCTargets
    AnyTarget = AnyTarget
    Place <- MCPlace
    Within = {}
    NoId = NoId
    NoLimit = NoLimit
    Judged <- MCRequests
    Calls <- MCCalls
    Configs <- MCConfigs
    Secret = {secret}
    Trimmed <- MCTrimmed
INVARIANTS
    LockdownConfines
    NotAskedTwice
    OfferedSkillsRun
\* Refuted, with a full profile (save_note is never offered):
\*  EverySkillIsOffered
