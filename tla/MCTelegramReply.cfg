\* One chat, two updates, one restart, polling failures, lost answers.
CONSTANTS
    c1 = c1
    c2 = c2
    Chats = {c1}
    MaxTranscript = 3
    MaxUpdates = 2
    MaxAsks = 1
    MaxRestarts = 1
    MaxBytes = 4
    Texts <- MCTexts
SPECIFICATION ReplyFairSpec
INVARIANTS
    SessionsMatchWorkers
    ResetIsClean
    TranscriptKeepsExchanges
    StatusTellsTheOutcome
    TranscriptIsWhatWasSeen
    ChunksAreTheText
PROPERTIES
    StopEndsTheTask
    EveryUpdateIsHandled
    FinishedTasksFreeTheirChat
CHECK_DEADLOCK FALSE
