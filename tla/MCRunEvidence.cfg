SPECIFICATION Spec
CONSTANTS
    cargo = cargo
    gate = gate
    diff = diff
    rm = rm
    a = a
    NoCommand = NoCommand
    ShellCommands = {cargo, gate, diff, rm}
    Verifying = {cargo}
    Gating = {cargo, gate}
    Inspecting = {diff}
    Reviewing = {diff}
    Harmless = {diff}
    Family <- MCFamily
    Files = {a}
    Plans <- MCPlans
    Removes <- MCRemoves
    Suggestions = {cargo, NoCommand}
    MaxCalls = 3
    MaxOutside = 1
CHECK_DEADLOCK FALSE
INVARIANTS
    SatisfiedIsEarned
    CheckpointAgrees
\* Refuted (the receipts of failures do not name their targets):
\*  RepeatedCallsRecover
