SPECIFICATION ImportFairSpec
CONSTANTS
    d1 = d1
    d2 = d2
    u1 = u1
    u2 = u2
    None = None
    NFiles = 2
    Size = 2
    Recordings = {d1, d2}
    Signed = d1
    Users = {u1}
    MaxCards = 2
    MaxCommands = 1
    MaxTrouble = 0
PROPERTY CancelledImportEnds
CHECK_DEADLOCK FALSE
