\* A reply whose line is cut within a character, and no restart.
CONSTANTS
    c1 = c1
    c2 = c2
    Chats = {c1}
    MaxTranscript = 3
    MaxUpdates = 2
    MaxAsks = 1
    MaxRestarts = 0
    MaxBytes = 4
    Texts <- MCUnfitTexts
SPECIFICATION ReplyFairSpec
PROPERTIES
    FinishedTasksFreeTheirChat
CHECK_DEADLOCK FALSE
