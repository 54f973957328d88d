SPECIFICATION DeviceFairSpec
CONSTANTS
    Callers = {c1}
    Keys = {k1}
    None = None
    MaxAttempts = 2
    MaxEvents = 1
PROPERTY PairingResolves
CHECK_DEADLOCK FALSE
