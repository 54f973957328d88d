SPECIFICATION DerivationFairSpec
CONSTANTS
    u1 = u1
    u2 = u2
    None = None
    NPairs = 2
    Users = {u1, u2}
    MaxCommands = 4
    MaxTrouble = 2
    Troubles = {"process", "deadline", "stuck", "source", "shutdown", "crash"}
INVARIANTS StoppedIsQuiet CheckpointedIsOnDisk
PROPERTY DerivationEnds
CHECK_DEADLOCK FALSE
