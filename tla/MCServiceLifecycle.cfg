SPECIFICATION Spec
CONSTANTS
    Names = {u1, u2}
    People = {ana, bob}
    Models = {m1, m2}
    None = None
    MaxCommands = 4
    MaxOutside = 2
SYMMETRY Symmetry
INVARIANTS
    OneOwner
    ServiceIsConfigured
PROPERTIES
    UninstallIsComplete
CHECK_DEADLOCK FALSE
