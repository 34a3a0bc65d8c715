SPECIFICATION Spec
CONSTANTS
    MaxMessages = 12
    MaxRedirects = 2
    MaxBatch = 3
    MaxSteps = 10
INVARIANTS
    RequestsFit
    NewestAreKept
CHECK_DEADLOCK FALSE
\* Refuted (a cut can fall between a request and its result):
\*  ResultsHaveRequests
