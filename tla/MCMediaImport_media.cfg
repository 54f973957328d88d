SPECIFICATION ImportSpec
CONSTANTS
    d1 = d1
    d2 = d2
    u1 = u1
    u2 = u2
    None = None
    NFiles = 2
    Size = 2
    Recordings = {d1, d2}
    Signed = d1
    Users = {u1, u2}
    MaxCards = 2
    MaxCommands = 2
    MaxTrouble = 2
INVARIANTS PausedImportIsQuiet VerifiedIsOnDisk OneRecording
CHECK_DEADLOCK FALSE
SYMMETRY UserSymm
