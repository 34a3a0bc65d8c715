SPECIFICATION FairSpec
CONSTANTS
    t1 = t1
    t2 = t2
    Requesters = {t1, t2}
    Actions = {commit, readHome}
    Skills = {call1}
    Scopes = {permanent}
    NoSkill = NoSkill
    NoScope = NoScope
    MaxEntries = 2
INVARIANTS
    OnePendingPerAction
    WaitersAreAnnounced
PROPERTIES
    EveryDecisionIsDelivered
    ImplementsDecision
CHECK_DEADLOCK FALSE
